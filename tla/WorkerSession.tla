---------------------------- MODULE WorkerSession ----------------------------
(***************************************************************************)
(* One worker session of task-orchestrator/src/dispatcher.js, from         *)
(* session.create to the outcome the dispatcher's monitor acts on:         *)
(* createSessionLauncher sets a session up and prompts it, its wait()      *)
(* polls the session history for the end of a turn and reads the           *)
(* completion envelope out of it (extractWorkerCompletion).  The host may  *)
(* lose an answer or a cancellation, a history may be unreadable, and      *)
(* other people may prompt the session, which the host shows like any      *)
(* other.                                                                  *)
(*                                                                         *)
(* The history is modelled as the SessionController adapter returns it:    *)
(* complete, in order, a sequence number being a position.  Only what      *)
(* concerns a completion is in it: calls of the tool worker_complete,      *)
(* results that belong to one or carry its protocol, and ends of turns.    *)
(***************************************************************************)
EXTENDS Naturals, Sequences

CONSTANTS CallId,      \* call ids of worker_complete
          None,        \* a call of another tool
          MaxWork,     \* bound: calls and results in a history
          MaxOthers    \* bound: prompts by others

ASSUME SessionAssumption ==
  None \notin CallId /\ MaxWork \in Nat /\ MaxOthers \in Nat

VARIABLES pc,        \* where launcher and monitor stand
          baseline,  \* the last position before the prompt
          lost,      \* the monitor lost its lease
          outcome,   \* what the monitor acts on
          queue,     \* prompts the session has accepted
          turn,      \* whose prompt it works on
          history,   \* its events
          others,    \* prompts by others so far
          cancel,    \* a cancellation was accepted
          slipped    \* a slip happened, see Slip

run == <<pc, baseline, lost, outcome>>
session == <<queue, turn, history, others, cancel>>
vars == <<run, session, slipped>>

Prompter == {"own", "other"}

(* What a result carries: an envelope that passes validateWorkerCompletion,*)
(* one that does not, an error, or no envelope.                            *)
Content == {"valid", "malformed", "failed", "plain"}
Work == [kind : {"call"}, by : Prompter, id : CallId]
        \union [kind : {"result"}, by : Prompter, id : CallId \union {None}, is : Content]
Event == Work \union [kind : {"end"}, by : Prompter, is : {"completed", "error"}]

TypeOK ==
  /\ pc \in {"idle", "created", "selected", "based", "launched", "working", "over"}
  /\ baseline \in 0 .. Len(history) /\ lost \in BOOLEAN
  /\ outcome \in {"none", "proof", "text", "failed", "timed_out", "lease_lost"}
  /\ outcome # "none" <=> pc = "over"
  /\ queue \in Seq(Prompter) /\ turn \in Prompter \union {"none"}
  /\ history \in Seq(Event)
  /\ \A i, j \in DOMAIN queue : queue[i] = "own" /\ queue[j] = "own" => i = j
  /\ others \in 0 .. MaxOthers /\ cancel \in BOOLEAN /\ slipped \in BOOLEAN

Init ==
  /\ pc = "idle" /\ baseline = 0 /\ lost = FALSE /\ outcome = "none"
  /\ queue = <<>> /\ turn = "none" /\ history = <<>>
  /\ others = 0 /\ cancel = FALSE
  /\ slipped = FALSE

(* The code cannot tell somebody else's turn from its own, gives up a      *)
(* session whose history it cannot read, and does not repeat a             *)
(* cancellation.                                                           *)
Slip == slipped' = TRUE

-----------------------------------------------------------------------------
(* extractWorkerCompletion: what the events after b say.                   *)
After(h, b, kind) == {i \in b + 1 .. Len(h) : h[i].kind = kind}
Calls(h, b) == {h[i].id : i \in After(h, b, "call")}

Attempts(h, b) ==
  After(h, b, "call") \union {i \in After(h, b, "result") :
                                h[i].is \in {"valid", "malformed"} \/ h[i].id \in Calls(h, b)}

\* Slip: one good result makes up for other attempts.
ExtractAny(h, b) ==
  IF Attempts(h, b) = {} THEN "text"
  ELSE IF \E r \in After(h, b, "result") : h[r].is = "valid" /\ h[r].id \in Calls(h, b)
  THEN "proof" ELSE "failed"

(* One call and one result of it that is valid; no attempt at all is a     *)
(* completion without proof, and anything else fails.                      *)
Extract(h, b) ==
  IF Attempts(h, b) = {} THEN "text"
  ELSE IF \E c \in After(h, b, "call"), r \in After(h, b, "result") :
            Attempts(h, b) = {c, r} /\ h[r].is = "valid" /\ h[r].id = h[c].id
  THEN "proof" ELSE "failed"

Ends(b) == After(history, b, "end")

-----------------------------------------------------------------------------
(* The launcher.                                                           *)

CancelSession == \/ cancel' = TRUE /\ UNCHANGED slipped
                 \/ UNCHANGED cancel /\ Slip
Over(o) == pc' = "over" /\ outcome' = IF lost THEN "lease_lost" ELSE o

Create ==
  /\ pc = "idle"
  /\ (pc' = "created" /\ UNCHANGED outcome) \/ Over("failed")
  /\ UNCHANGED <<baseline, lost, session, slipped>>

SelectModel ==
  /\ pc = "created" /\ pc' = "selected"
  /\ UNCHANGED <<baseline, lost, outcome, session, slipped>>

\* Slip: the baseline is the next position instead of the last.
ReadNext ==
  /\ pc = "selected" /\ pc' = "based"
  /\ baseline' = Len(history) + 1
  /\ IF turn # "none" \/ queue # <<>> THEN Slip ELSE UNCHANGED slipped
  /\ UNCHANGED <<lost, outcome, session>>

\* Slip: the events that are there already are not told apart.
ReadFromStart ==
  /\ pc = "selected" /\ pc' = "based"
  /\ baseline' = 0
  /\ IF turn # "none" \/ queue # <<>> THEN Slip ELSE UNCHANGED slipped
  /\ UNCHANGED <<lost, outcome, session>>

ReadBaseline ==
  /\ pc = "selected" /\ pc' = "based"
  /\ baseline' = Len(history)
  /\ IF turn # "none" \/ queue # <<>> THEN Slip ELSE UNCHANGED slipped
  /\ UNCHANGED <<lost, outcome, session>>

(* Any step of the set-up may fail; the session is then cancelled.         *)
SetupFails ==
  /\ pc \in {"created", "selected", "based"}
  /\ CancelSession /\ Over("failed")
  /\ UNCHANGED <<baseline, lost, queue, turn, history, others>>

\* Slip: a prompt whose answer is lost is not cancelled.
PromptOnce ==
  /\ pc = "based"
  /\ queue' = Append(queue, "own")
  /\ (pc' = "launched" /\ UNCHANGED outcome) \/ Over("failed")
  /\ UNCHANGED <<baseline, lost, turn, history, others, cancel, slipped>>

(* The session accepts the prompt; the confirmation may be lost.           *)
Prompt ==
  /\ pc = "based"
  /\ queue' = Append(queue, "own")
  /\ \/ pc' = "launched" /\ UNCHANGED <<outcome, cancel, slipped>>
     \/ Over("failed") /\ CancelSession
  /\ UNCHANGED <<baseline, lost, turn, history, others>>

-----------------------------------------------------------------------------
(* The dispatcher's monitor.                                               *)

(* store.start may refuse; the worker is then terminated.                  *)
Start ==
  /\ pc = "launched"
  /\ \/ pc' = "working" /\ UNCHANGED <<outcome, cancel, slipped>>
     \/ Over("failed") /\ CancelSession
  /\ UNCHANGED <<baseline, lost, queue, turn, history, others>>

(* A poll that finds the end of a turn; the last one decides.              *)
Poll ==
  /\ pc = "working"
  /\ \E i \in Ends(baseline) :
       /\ \A j \in Ends(baseline) : j <= i
       /\ Over(IF history[i].is = "completed" THEN Extract(history, baseline) ELSE "failed")
  /\ UNCHANGED <<baseline, lost, session, slipped>>

Unreadable ==
  /\ pc = "working" /\ Over("failed") /\ Slip
  /\ UNCHANGED <<baseline, lost, session>>

Timeout ==
  /\ pc = "working" /\ Over("timed_out") /\ CancelSession
  /\ UNCHANGED <<baseline, lost, queue, turn, history, others>>

(* The wait goes on until the cancelled turn ends.                         *)
LoseLease ==
  /\ pc = "working" /\ ~lost /\ lost' = TRUE /\ CancelSession
  /\ UNCHANGED <<pc, baseline, outcome, queue, turn, history, others>>

-----------------------------------------------------------------------------
(* The session.                                                            *)

Record(e) == history' = Append(history, e)
Worked == Len(SelectSeq(history, LAMBDA e : e.kind # "end")) < MaxWork

OtherPrompt ==
  /\ pc # "idle" /\ others < MaxOthers /\ others' = others + 1
  /\ queue' = Append(queue, "other")
  /\ IF pc \in {"based", "launched", "working"} THEN Slip ELSE UNCHANGED slipped
  /\ UNCHANGED <<run, turn, history, cancel>>

BeginTurn ==
  /\ turn = "none" /\ queue # <<>>
  /\ turn' = Head(queue) /\ queue' = Tail(queue)
  /\ UNCHANGED <<run, history, others, cancel, slipped>>

CallComplete(id) ==
  /\ turn # "none" /\ Worked
  /\ Record([kind |-> "call", by |-> turn, id |-> id])
  /\ UNCHANGED <<run, queue, turn, others, cancel, slipped>>

(* The result of a call of this turn; another tool's, or a repeated one,   *)
(* may carry the protocol too.                                             *)
Answer(id, is) ==
  /\ turn # "none" /\ Worked
  /\ \/ id = None /\ is \in {"valid", "malformed"}
     \/ \E i \in After(history, 0, "call") : history[i].by = turn /\ history[i].id = id
  /\ Record([kind |-> "result", by |-> turn, id |-> id, is |-> is])
  /\ UNCHANGED <<run, queue, turn, others, cancel, slipped>>

EndTurn(is) ==
  /\ turn # "none" /\ turn' = "none"
  /\ Record([kind |-> "end", by |-> turn, is |-> is])
  /\ UNCHANGED <<run, queue, others, cancel, slipped>>

(* A cancelled session may drop the prompts it has not begun.              *)
DropQueue ==
  /\ cancel /\ queue # <<>> /\ queue' = <<>>
  /\ UNCHANGED <<run, turn, history, others, cancel, slipped>>

Launching == Create \/ SelectModel \/ ReadBaseline \/ SetupFails \/ Prompt
Monitoring == Start \/ Poll \/ Unreadable \/ Timeout \/ LoseLease
Host == \/ OtherPrompt \/ BeginTurn \/ DropQueue
        \/ \E id \in CallId : CallComplete(id)
        \/ \E id \in CallId \union {None}, is \in Content : Answer(id, is)
        \/ \E is \in {"completed", "error"} : EndTurn(is)

Next == Launching \/ Monitoring \/ Host
Spec == Init /\ [][Next]_vars

-----------------------------------------------------------------------------
(* A run succeeds only when the turn of its own prompt ended well, however *)
(* busy the session was before the prompt, unless somebody else's prompt   *)
(* was still there or came while the run was on.                           *)
SuccessIsOwn ==
  outcome \in {"proof", "text"} /\ ~slipped =>
    \E i \in After(history, 0, "end") : history[i].by = "own" /\ history[i].is = "completed"

(* What counts as the proof is the one attempt of that turn, and an        *)
(* attempt is never dropped silently ("a malformed/failed/duplicate/       *)
(* unmatched completion can never be silently dropped in favour of one     *)
(* surviving valid result", dispatcher.js 725).                          *)
Own == {i \in DOMAIN history : history[i].kind # "end" /\ history[i].by = "own"}
ProofIsOwn ==
  ~slipped =>
    /\ outcome = "text" => Own = {}
    /\ outcome = "proof" =>
         \E c, r \in Own : /\ Own = {c, r} /\ c < r
                           /\ history[c].kind = "call" /\ history[r].id = history[c].id
                           /\ history[r].kind = "result" /\ history[r].is = "valid"

(* When the run is over, its prompt is neither waiting nor being worked on,*)
(* or the session was told to stop ("Never strand a live session", 828).   *)
NoOrphan ==
  pc = "over" /\ ~slipped =>
    \/ cancel
    \/ turn # "own" /\ \A i \in DOMAIN queue : queue[i] # "own"
=============================================================================
