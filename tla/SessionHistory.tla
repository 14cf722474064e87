--------------------------- MODULE SessionHistory ---------------------------
(***************************************************************************)
(* The history of one session and those who write to it at once: runs,     *)
(* each on a copy of its own that its loop and the observer of its event   *)
(* stream both append to and save, and host calls that load, append and    *)
(* save (AppendSessionMessages, CompactSession, the notice of a delegated  *)
(* task).  SaveSession is taken in the steps between which another writer  *)
(* can get: the lock of the session, the merge, the new baseline, the      *)
(* write and what follows it.  A read that fails is taken for a session    *)
(* that is not stored: who loads starts with nothing, and who saves writes *)
(* its own list over the history.                                          *)
(*                                                                         *)
(* A turn has an id (a call or the result of one) or is plain text.  The   *)
(* summary and the context of a session, which a save replaces, are left   *)
(* out, and so is a second process, which has locks of its own.            *)
(***************************************************************************)
EXTENDS Integers, Sequences, FiniteSets

CONSTANTS
  Copies,      \* calls that load the session: runs and host calls
  Observed,    \* those that are runs, whose streams have an observer
  Texts,       \* what is said in plain text
  NoText,      \* the text of a turn with an id
  Earlier,     \* who wrote the history before
  NotFound,    \* no row for the session
  Nobody,      \* no holder of the lock
  MaxTurns,    \* bound: turns of the loop of one copy
  MaxFaults    \* bound: reads and writes of the database that fail

Threads == {"loop", "observer"}
Writers == {w \in Copies \X Threads : w[2] = "observer" => w[1] \in Observed}

\* A message: its text, whose it is, and its place in the copy of that writer.
Turns == [by : Copies \cup {Earlier}, n : Nat \ {0}, text : Texts \cup {NoText}]
Turn(c, n, t) == [by |-> c, n |-> n, text |-> t]

ASSUME WritersAssumption ==
  /\ Observed \subseteq Copies /\ Earlier \notin Copies
  /\ NoText \notin Texts
  /\ Nobody \notin Writers /\ NotFound \notin Seq(Turns)
  /\ MaxTurns \in Nat /\ MaxFaults \in Nat

VARIABLES
  stored,    \* the messages of the session's row
  lock,      \* sessionSaveLocks: the writer that holds the session's
  messages,  \* s.Messages of each copy
  loaded,    \* s.loadedCount
  at,        \* where each writer is
  merged,    \* SaveSession: what it is going to write
  mark,      \* SaveSession: the baseline it is going to set
  blind,     \* SaveSession: it has not read what it is going to overwrite
  faults,    \* reads and writes that failed so far
  taken,     \* how long the copy was when SaveSession took what it writes
  skipped,   \* turns a baseline passed whose write failed, that came after
             \* what was written had been taken, or that were overwritten
  overwrote  \* whose saves have overwritten a history they had not read

sessionVars == <<stored, lock, messages, loaded, at, merged, mark, blind,
                faults, taken, skipped, overwrote>>
saving == <<merged, mark, blind, taken, skipped, overwrote>>

HasTurnID(m) == m.text = NoText

\* sessionMessageKey
Key(m) == IF HasTurnID(m) THEN <<m.by, m.n>> ELSE m.text

Goes(w, p) == at' = [at EXCEPT ![w] = p]

-----------------------------------------------------------------------------
Beginnings == {<< >>} \cup {<<Turn(Earlier, 1, t)>> : t \in Texts \cup {NoText}}

SessionInit ==
  /\ stored \in {NotFound} \cup (Beginnings \ {<< >>})
  /\ lock = Nobody
  /\ messages = [c \in Copies |-> << >>]
  /\ loaded = [c \in Copies |-> 0]
  /\ at = [w \in Writers |-> IF w[2] = "loop" THEN "absent" ELSE "reading"]
  /\ merged = [w \in Writers |-> << >>]
  /\ mark = [w \in Writers |-> 0]
  /\ blind = [w \in Writers |-> FALSE]
  /\ faults = 0 /\ overwrote = << >>
  /\ taken = [w \in Writers |-> 0]
  /\ skipped = {}

\* GetSession: what is stored is found, unless the read fails.
Reads(found) ==
  \/ found = (stored # NotFound) /\ UNCHANGED faults
  \/ /\ ~found /\ stored # NotFound
     /\ faults < MaxFaults /\ faults' = faults + 1

\* The stored session, or a new one where none was found.
Load(c) ==
  /\ at[<<c, "loop">>] = "absent"
  /\ \E found \in BOOLEAN :
       /\ Reads(found)
       /\ messages' = [messages EXCEPT ![c] = IF found THEN stored ELSE << >>]
       /\ loaded' = [loaded EXCEPT ![c] = IF found THEN Len(stored) ELSE 0]
  /\ Goes(<<c, "loop">>, "working")
  /\ UNCHANGED <<stored, lock, saving>>

\* The places of the turns that c itself has added.
Mine(c) == {i \in DOMAIN messages[c] : messages[c][i].by = c}

Adds(c, t) ==
  messages' = [messages EXCEPT ![c] = Append(@, Turn(c, Len(@) + 1, t))]

\* AddMessage by the loop: the goal, a steer, a turn of its transcript, the
\* answer, or what a host call adds.
Say(c) ==
  /\ at[<<c, "loop">>] = "working"
  /\ Cardinality(Mine(c)) < MaxTurns
  /\ \E t \in Texts \cup {NoText} : Adds(c, t)
  /\ UNCHANGED <<stored, lock, loaded, at, faults, saving>>

\* persistRunTaskState: a run that fails or is blocked, seen by the observer
\* while the loop may still go on, leaves a line in the conversation.
SayFailed(c) ==
  /\ c \in Observed
  /\ at[<<c, "loop">>] # "absent" /\ at[<<c, "observer">>] = "reading"
  /\ \E t \in Texts : Adds(c, t)
  /\ Goes(<<c, "observer">>, "saving")
  /\ UNCHANGED <<stored, lock, loaded, faults, saving>>

-----------------------------------------------------------------------------
\* A save may be called whether or not anything was added.
CallSave(c) ==
  /\ at[<<c, "loop">>] = "working"
  /\ Goes(<<c, "loop">>, "saving")
  /\ UNCHANGED <<stored, lock, messages, loaded, faults, saving>>

LockSession(w) ==
  /\ at[w] = "saving" /\ lock = Nobody
  /\ lock' = w
  /\ Goes(w, "locked")
  /\ UNCHANGED <<stored, messages, loaded, faults, saving>>

\* Mutant: the last turn of the save before is taken again.
SinceTheLast(c) ==
  SubSeq(messages[c], IF loaded[c] = 0 THEN 1 ELSE loaded[c], Len(messages[c]))

AppendedSince(c) == SubSeq(messages[c], loaded[c] + 1, Len(messages[c]))

\* mergeMessagesForSave: the turns of the copy that are not stored already; one
\* with an id is looked for in the whole history, a text after the baseline.
\* out[i] is what the loop has after the first i of them.
Merge(history, baseline, appended) ==
  LET seen == {Key(history[i]) : i \in {j \in DOMAIN history :
                                          j > baseline \/ HasTurnID(history[j])}}
      out[i \in 0..Len(appended)] ==
        IF i = 0 THEN history
        ELSE IF \/ Key(appended[i]) \in seen
                \/ \E j \in 1..(i - 1) : Key(appended[j]) = Key(appended[i])
        THEN out[i - 1]
        ELSE Append(out[i - 1], appended[i])
  IN  out[Len(appended)]

\* What a copy writes: the stored history and what it has to add when it
\* could read that history, else all it has.
ToWrite(c, found) ==
  IF found THEN Merge(stored, loaded[c], AppendedSince(c)) ELSE messages[c]

MergeStored(w) ==
  /\ at[w] = "locked"
  /\ \E found \in BOOLEAN :
       /\ Reads(found)
       /\ merged' = [merged EXCEPT ![w] = ToWrite(w[1], found)]
       /\ blind' = [blind EXCEPT ![w] = ~found /\ stored # NotFound]
  /\ taken' = [taken EXCEPT ![w] = Len(messages[w[1]])]
  /\ Goes(w, "merged")
  /\ UNCHANGED <<stored, lock, messages, loaded, mark, skipped, overwrote>>

\* Mutant: the length of what is written, the turns of others included.
LengthWritten(w) == Len(merged[w])

\* The copy's own length, not that of what is written.
NewBaseline(w) == Len(messages[w[1]])

\* The deferred setBaseline takes its argument now.
MarkBaseline(w) ==
  /\ at[w] = "merged"
  /\ mark' = [mark EXCEPT ![w] = NewBaseline(w)]
  /\ Goes(w, "marked")
  /\ UNCHANGED <<stored, lock, messages, loaded, merged, blind, faults, taken, skipped, overwrote>>

\* The turns from one place of a copy to another.
Part(c, from, to) == {messages[c][i] : i \in DOMAIN messages[c] \cap ((from + 1)..to)}

\* Turns that baselines have passed and that a blind save leaves out.
Overwritten(w) ==
  {m \in UNION {Part(d, 0, loaded[d]) : d \in Copies} :
     \A k \in DOMAIN merged[w] : Key(merged[w][k]) # Key(m)}

\* The write, then the new baseline and the unlock, whether it failed or not.
Write(w) ==
  LET c == w[1] IN
  /\ at[w] = "marked"
  /\ \/ /\ stored' = merged[w]
        /\ skipped' = skipped \cup Part(c, taken[w], mark[w])
                              \cup (IF blind[w] THEN Overwritten(w) ELSE {})
        /\ overwrote' = IF blind[w] THEN Append(overwrote, c) ELSE overwrote
        /\ UNCHANGED faults
     \/ /\ faults < MaxFaults /\ faults' = faults + 1
        /\ skipped' = skipped \cup Part(c, loaded[c], mark[w])
        /\ UNCHANGED <<stored, overwrote>>
  /\ loaded' = [loaded EXCEPT ![c] = mark[w]]
  /\ lock' = Nobody
  /\ merged' = [merged EXCEPT ![w] = << >>] /\ blind' = [blind EXCEPT ![w] = FALSE]
  /\ mark' = [mark EXCEPT ![w] = 0] /\ taken' = [taken EXCEPT ![w] = 0]
  /\ Goes(w, IF w[2] = "loop" THEN "working" ELSE "done")
  /\ UNCHANGED messages

\* The run or the host call is over and its copy forgotten.
Leave(c) ==
  /\ at[<<c, "loop">>] = "working"
  /\ Goes(<<c, "loop">>, "gone")
  /\ UNCHANGED <<stored, lock, messages, loaded, faults, saving>>

SessionNext ==
  \/ \E c \in Copies : Load(c) \/ Say(c) \/ SayFailed(c) \/ CallSave(c) \/ Leave(c)
  \/ \E w \in Writers : LockSession(w) \/ MergeStored(w) \/ MarkBaseline(w) \/ Write(w)

SessionSpec == SessionInit /\ [][SessionNext]_sessionVars

-----------------------------------------------------------------------------
History == IF stored = NotFound THEN << >> ELSE stored

\* What SaveSession promises the writers of a session, whoever they are.
Promise == INSTANCE Conversation WITH log <- History, Writers <- Copies

(***************************************************************************)
(* "The fix is to make saving additive" (store_session_merge.go:17-25):    *)
(* however runs and host calls overlap, fail to write and save again, the  *)
(* history only grows, and the turns of each are in it at most once, in    *)
(* their order.  Not so a save whose read fails (store.go:123): it leaves  *)
(* what its own copy has, its own turns among it.                          *)
(***************************************************************************)
ImplementsConversation == Promise!Spec

(***************************************************************************)
(* A turn that a baseline has passed is stored, or, if it is plain text,   *)
(* one like it is, unless its write failed, it came between what a save    *)
(* took and the baseline that save set, or a save that could not read the  *)
(* history overwrote it (store.go:123-130): the baseline of a copy counts  *)
(* its own turns alone, whatever others have stored.                       *)
(***************************************************************************)
PassedTurnsAreStored ==
  \A c \in Copies : \A i \in DOMAIN messages[c] :
    LET m == messages[c][i] IN
      i <= loaded[c] /\ m \notin skipped
        => \E k \in DOMAIN History : Key(History[k]) = Key(m)
=============================================================================
