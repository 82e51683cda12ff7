------------------------- MODULE WorkerSessionProofs -------------------------
(***************************************************************************)
(* Theorems about WorkerSession, for any call ids and any bounds.          *)
(***************************************************************************)
EXTENDS WorkerSession, TLAPS

Early == {"idle", "created", "selected", "based"}
Waiting == {"based", "launched", "working"}

\* The run's prompt is neither waiting nor being worked on.
NoOwn == turn # "own" /\ \A i \in DOMAIN queue : queue[i] # "own"

\* The prompt is sent once: before that, and after its turn, it is nowhere.
OnceOwn ==
  /\ pc \in Early => NoOwn /\ \A i \in DOMAIN history : history[i].by # "own"
  /\ turn = "own" => \A i \in DOMAIN queue : queue[i] # "own"
  /\ (\E i \in DOMAIN history : history[i].by = "own" /\ history[i].kind = "end") => NoOwn
  /\ \A i \in DOMAIN history : history[i].by = "own" => \A j \in DOMAIN queue : queue[j] # "own"

\* Events of the run come after the baseline, and nobody else's do.
Alone ==
  /\ ~slipped /\ pc \in Waiting =>
       /\ turn # "other" /\ \A i \in DOMAIN queue : queue[i] # "other"
       /\ \A i \in DOMAIN history : i > baseline => history[i].by = "own"
  /\ pc \in Waiting => \A i \in DOMAIN history : history[i].by = "own" => i > baseline

\* A result of the run carries the protocol or follows a call it answers.
Answered ==
  \A r \in DOMAIN history :
    history[r].kind = "result" =>
      \/ history[r].id = None /\ history[r].is \in {"valid", "malformed"}
      \/ \E c \in 1 .. r - 1 : /\ history[c].kind = "call" /\ history[c].by = history[r].by
                               /\ history[c].id = history[r].id

\* A success leaves nothing of the run to come.
Settled == outcome \in {"proof", "text"} /\ ~slipped => NoOwn

Inv == TypeOK /\ OnceOwn /\ Alone /\ Answered /\ Settled
         /\ SuccessIsOwn /\ ProofIsOwn /\ NoOrphan

LEMMA AppendFacts ==
  ASSUME NEW S, NEW s \in Seq(S), NEW e \in S
  PROVE  /\ Append(s, e) \in Seq(S) /\ Len(Append(s, e)) = Len(s) + 1
         /\ DOMAIN Append(s, e) = 1 .. Len(s) + 1 /\ DOMAIN s = 1 .. Len(s)
         /\ Len(s) \in Nat
         /\ \A i \in 1 .. Len(s) : Append(s, e)[i] = s[i]
         /\ Append(s, e)[Len(s) + 1] = e
OBVIOUS

-----------------------------------------------------------------------------
LEMMA InitInv == Init => Inv
<1> SUFFICES ASSUME Init PROVE Inv
  OBVIOUS
<1> USE SessionAssumption DEF Init
<1>1. TypeOK
  <2>1. queue \in Seq(Prompter) /\ history \in Seq(Event) /\ Len(history) = 0
    OBVIOUS
  <2>2. \A i, j \in DOMAIN queue : queue[i] = "own" /\ queue[j] = "own" => i = j
    OBVIOUS
  <2>3. baseline \in 0 .. Len(history) /\ others \in 0 .. MaxOthers
    BY <2>1
  <2> QED BY <2>1, <2>2, <2>3 DEF TypeOK
<1>2. OnceOwn /\ Alone /\ Answered /\ Settled
  BY DEF OnceOwn, Alone, Answered, Settled, NoOwn, Early, Waiting
<1>3. SuccessIsOwn /\ ProofIsOwn /\ NoOrphan
  BY DEF SuccessIsOwn, ProofIsOwn, NoOrphan
<1> QED BY <1>1, <1>2, <1>3 DEF Inv

-----------------------------------------------------------------------------
(* Steps that leave the session alone and report no success.               *)
LEMMA QuietStep ==
  ASSUME Inv, UNCHANGED <<queue, turn, history, others>>,
         pc' \in {"created", "selected", "based", "launched", "working", "over"},
         pc' # "over" => outcome' = "none",
         pc' = "over" => outcome' \in {"failed", "timed_out", "lease_lost"},
         pc' = "over" => slipped' \/ cancel' \/ NoOwn,
         pc # "over",
         pc' \in Early => pc \in Early,
         pc' \in Waiting =>
            \/ pc \in Waiting /\ baseline' = baseline
            \/ /\ pc \in Early /\ baseline' = Len(history)
               /\ slipped' \/ (turn = "none" /\ queue = <<>>),
         baseline' \in {baseline, Len(history)},
         lost' \in BOOLEAN, cancel' \in BOOLEAN, slipped' \in BOOLEAN,
         slipped => slipped'
  PROVE  Inv'
<1>1. TypeOK'
  BY DEF Inv, TypeOK
<1>2. OnceOwn'
  BY DEF Inv, OnceOwn, NoOwn
<1>3. Alone'
  <2>1. DOMAIN history = 1 .. Len(history)
    BY DEF Inv, TypeOK
  <2>2. CASE pc' \in Waiting /\ pc \in Waiting /\ baseline' = baseline
    BY <2>2 DEF Inv, Alone
  <2>3. CASE pc' \in Waiting /\ ~(pc \in Waiting /\ baseline' = baseline)
    BY <2>1, <2>3 DEF Inv, Alone, OnceOwn
  <2>4. CASE pc' \notin Waiting
    BY <2>4 DEF Alone
  <2> QED BY <2>2, <2>3, <2>4
<1>4. Answered'
  BY DEF Inv, Answered
<1>5. Settled' /\ SuccessIsOwn' /\ ProofIsOwn'
  <2>1. outcome' \notin {"proof", "text"}
    OBVIOUS
  <2> QED BY <2>1 DEF Settled, SuccessIsOwn, ProofIsOwn
<1>6. NoOrphan'
  BY DEF NoOrphan, NoOwn
<1> QED BY <1>1, <1>2, <1>3, <1>4, <1>5, <1>6 DEF Inv

LEMMA CancelFacts ==
  ASSUME CancelSession, cancel \in BOOLEAN, slipped \in BOOLEAN
  PROVE  /\ cancel' \in BOOLEAN /\ slipped' \in BOOLEAN
         /\ slipped' \/ cancel'
         /\ slipped => slipped'
<1>1. CASE cancel' = TRUE /\ slipped' = slipped
  <2>1. cancel'
    BY <1>1
  <2> QED BY <1>1, <2>1
<1>2. CASE cancel' = cancel /\ slipped' = TRUE
  <2>1. slipped'
    BY <1>2
  <2> QED BY <1>2, <2>1
<1> QED BY <1>1, <1>2 DEF CancelSession, Slip

LEMMA LaunchStep ==
  ASSUME Inv, Create \/ SelectModel \/ ReadBaseline \/ SetupFails
  PROVE  Inv'
<1> USE DEF run, session, Over, CancelSession, Slip, Early, Waiting
<1>0. /\ Len(history) \in Nat /\ lost \in BOOLEAN /\ cancel \in BOOLEAN
      /\ slipped \in BOOLEAN /\ (outcome # "none" <=> pc = "over")
      /\ turn \in Prompter \union {"none"}
  BY DEF Inv, TypeOK
<1>1. CASE Create
  <2>1. NoOwn
    BY <1>1 DEF Inv, OnceOwn, Create
  <2> QED BY <1>0, <1>1, <2>1, QuietStep DEF Create
<1>2. CASE SelectModel
  BY <1>0, <1>2, QuietStep DEF SelectModel
<1>3. CASE ReadBaseline
  BY <1>0, <1>3, QuietStep DEF ReadBaseline
<1>4. CASE SetupFails
  <2>1. CancelSession
    BY <1>4 DEF SetupFails
  <2> HIDE DEF CancelSession
  <2> QED BY <1>0, <1>4, <2>1, CancelFacts, QuietStep DEF SetupFails
<1> QED BY <1>1, <1>2, <1>3, <1>4

LEMMA MonitorStep ==
  ASSUME Inv, Start \/ Unreadable \/ Timeout \/ LoseLease
  PROVE  Inv'
<1> USE DEF run, session, Over, CancelSession, Slip, Early, Waiting
<1>0. /\ Len(history) \in Nat /\ lost \in BOOLEAN /\ cancel \in BOOLEAN
      /\ slipped \in BOOLEAN /\ (outcome # "none" <=> pc = "over")
  BY DEF Inv, TypeOK
<1>1. CASE Start
  <2> HIDE DEF CancelSession
  <2>1. CASE CancelSession
    BY <1>0, <1>1, <2>1, CancelFacts, QuietStep DEF Start
  <2>2. CASE ~CancelSession
    BY <1>0, <1>1, <2>2, QuietStep DEF Start
  <2> QED BY <2>1, <2>2
<1>2. CASE Unreadable
  BY <1>0, <1>2, QuietStep DEF Unreadable
<1>3. CASE Timeout
  <2>1. CancelSession
    BY <1>3 DEF Timeout
  <2> HIDE DEF CancelSession
  <2> QED BY <1>0, <1>3, <2>1, CancelFacts, QuietStep DEF Timeout
<1>4. CASE LoseLease
  <2>1. CancelSession
    BY <1>4 DEF LoseLease
  <2> HIDE DEF CancelSession
  <2> QED BY <1>0, <1>4, <2>1, CancelFacts, QuietStep DEF LoseLease
<1> QED BY <1>1, <1>2, <1>3, <1>4

LEMMA PromptStep == ASSUME Inv, Prompt PROVE Inv'
<1> USE DEF Over, Early, Waiting
<1>0. /\ queue \in Seq(Prompter) /\ NoOwn /\ cancel \in BOOLEAN /\ slipped \in BOOLEAN
      /\ \A i \in DOMAIN history : history[i].by # "own"
  BY DEF Inv, TypeOK, OnceOwn, Prompt
<1>1. /\ queue' \in Seq(Prompter) /\ DOMAIN queue' = 1 .. Len(queue) + 1
      /\ DOMAIN queue = 1 .. Len(queue) /\ Len(queue) \in Nat
      /\ \A i \in 1 .. Len(queue) : queue'[i] = queue[i]
      /\ queue'[Len(queue) + 1] = "own"
  <2>1. "own" \in Prompter /\ queue' = Append(queue, "own")
    BY DEF Prompter, Prompt
  <2> QED BY <1>0, <2>1, AppendFacts
<1>2. /\ cancel' \in BOOLEAN /\ slipped' \in BOOLEAN /\ (slipped => slipped')
      /\ pc' = "over" => slipped' \/ cancel'
  <2>1. CASE CancelSession
    BY <1>0, <2>1, CancelFacts
  <2>2. CASE ~CancelSession
    BY <1>0, <2>2 DEF Prompt
  <2> QED BY <2>1, <2>2
<1>3. /\ pc = "based" /\ UNCHANGED <<baseline, lost, turn, history, others>>
      /\ \/ pc' = "launched" /\ outcome' = outcome
         \/ pc' = "over" /\ outcome' \in {"failed", "lease_lost"}
      /\ outcome = "none"
  BY DEF Prompt, Inv, TypeOK
<1>4. TypeOK'
  <2>1. \A i, j \in DOMAIN queue' : queue'[i] = "own" /\ queue'[j] = "own" => i = j
    BY <1>0, <1>1 DEF NoOwn
  <2> QED BY <1>1, <1>2, <1>3, <2>1 DEF Inv, TypeOK
<1>5. OnceOwn'
  BY <1>0, <1>3 DEF OnceOwn, NoOwn
<1>6. Alone'
  BY <1>0, <1>1, <1>2, <1>3 DEF Inv, Alone
<1>7. Answered' /\ Settled' /\ SuccessIsOwn' /\ ProofIsOwn'
  BY <1>3 DEF Inv, Answered, Settled, SuccessIsOwn, ProofIsOwn
<1>8. NoOrphan'
  BY <1>2 DEF NoOrphan
<1> QED BY <1>4, <1>5, <1>6, <1>7, <1>8 DEF Inv

-----------------------------------------------------------------------------
(* What the run reads out of the history after its baseline is exactly what*)
(* its own turn left there.                                                *)
LEMMA AttemptsAreOwn ==
  ASSUME Inv, pc = "working", ~slipped
  PROVE  Attempts(history, baseline) = Own
<1>1. /\ DOMAIN history = 1 .. Len(history) /\ Len(history) \in Nat
      /\ baseline \in 0 .. Len(history)
      /\ \A i \in DOMAIN history : history[i] \in Event
  BY DEF Inv, TypeOK
<1>2. /\ \A i \in DOMAIN history : i > baseline <=> history[i].by = "own"
  BY DEF Inv, Alone, Waiting
<1>3. \A i \in DOMAIN history : history[i].kind \in {"call", "result", "end"}
  BY <1>1 DEF Event, Work
<1>4. ASSUME NEW i \in Own PROVE i \in Attempts(history, baseline)
  <2>1. i \in baseline + 1 .. Len(history) /\ history[i].kind \in {"call", "result"}
    BY <1>1, <1>2, <1>3 DEF Own
  <2>2. CASE history[i].kind = "call"
    BY <2>1, <2>2 DEF Attempts, After
  <2>3. CASE history[i].kind = "result" /\ history[i].is \in {"valid", "malformed"}
    BY <2>1, <2>3 DEF Attempts, After
  <2>4. CASE history[i].kind = "result" /\ history[i].is \notin {"valid", "malformed"}
    <3>1. PICK c \in 1 .. i - 1 : /\ history[c].kind = "call" /\ history[c].by = "own"
                                  /\ history[c].id = history[i].id
      BY <1>1, <2>4 DEF Inv, Answered, Own
    <3>2. c \in After(history, baseline, "call")
      BY <1>1, <1>2, <2>1, <3>1 DEF After
    <3> QED BY <2>1, <2>4, <3>1, <3>2 DEF Attempts, After, Calls
  <2> QED BY <2>1, <2>2, <2>3, <2>4
<1>5. ASSUME NEW i \in Attempts(history, baseline) PROVE i \in Own
  BY <1>1, <1>2 DEF Attempts, After, Own
<1> QED BY <1>4, <1>5

LEMMA ExtractIsOwn ==
  ASSUME Inv, pc = "working", ~slipped
  PROVE  /\ Extract(history, baseline) = "text" => Own = {}
         /\ Extract(history, baseline) = "proof" =>
              \E c, r \in Own : /\ Own = {c, r} /\ c < r
                                /\ history[c].kind = "call" /\ history[r].id = history[c].id
                                /\ history[r].kind = "result" /\ history[r].is = "valid"
<1>1. Attempts(history, baseline) = Own
  BY AttemptsAreOwn
<1>2. CASE Own = {}
  BY <1>1, <1>2 DEF Extract
<1>3. CASE Own # {}
  <2> SUFFICES ASSUME Extract(history, baseline) = "proof"
               PROVE  \E c, r \in Own :
                        /\ Own = {c, r} /\ c < r
                        /\ history[c].kind = "call" /\ history[r].id = history[c].id
                        /\ history[r].kind = "result" /\ history[r].is = "valid"
    BY <1>1, <1>3 DEF Extract
  <2>1. PICK c \in After(history, baseline, "call"), r \in After(history, baseline, "result") :
           Own = {c, r} /\ history[r].is = "valid" /\ history[r].id = history[c].id
    BY <1>1, <1>3 DEF Extract
  <2>2. /\ c \in DOMAIN history /\ r \in DOMAIN history
        /\ history[c] \in Event /\ history[r] \in Event
        /\ history[c].kind = "call" /\ history[r].kind = "result"
        /\ Len(history) \in Nat /\ DOMAIN history = 1 .. Len(history)
        /\ baseline \in 0 .. Len(history)
    BY DEF Inv, TypeOK, After
  <2>3. history[c].id # None
    BY <2>2, SessionAssumption DEF Event, Work
  <2>4. PICK d \in 1 .. r - 1 : /\ history[d].kind = "call" /\ history[d].by = history[r].by
                                /\ history[d].id = history[r].id
    BY <2>1, <2>2, <2>3 DEF Inv, Answered
  <2>5. history[r].by = "own"
    BY <2>1, <2>2 DEF Own
  <2>6. d \in Own /\ d # r
    BY <2>2, <2>4, <2>5 DEF Own
  <2>7. c < r
    BY <2>1, <2>2, <2>4, <2>6
  <2> QED BY <2>1, <2>2, <2>7
<1> QED BY <1>2, <1>3

LEMMA PollStep == ASSUME Inv, Poll PROVE Inv'
<1> USE DEF run, session, Over
<1>1. /\ pc = "working" /\ pc' = "over"
      /\ UNCHANGED <<baseline, lost, queue, turn, history, others, cancel, slipped>>
  BY DEF Poll
<1>2. PICK i \in Ends(baseline) :
        outcome' = IF lost THEN "lease_lost"
                   ELSE IF history[i].is = "completed" THEN Extract(history, baseline)
                   ELSE "failed"
  BY DEF Poll
<1>3. /\ i \in DOMAIN history /\ i > baseline /\ history[i].kind = "end"
      /\ Len(history) \in Nat
  BY DEF Inv, TypeOK, Ends, After
<1>4. ~slipped => history[i].by = "own" /\ NoOwn
  BY <1>1, <1>3 DEF Inv, Alone, OnceOwn, Waiting
<1>5. outcome' \in {"proof", "text", "failed", "lease_lost"}
  BY <1>2 DEF Extract
<1>6. TypeOK'
  BY <1>1, <1>5 DEF Inv, TypeOK
<1>7. OnceOwn' /\ Alone' /\ Answered'
  BY <1>1 DEF Inv, OnceOwn, Alone, Answered, NoOwn, Early, Waiting
<1>8. Settled' /\ NoOrphan'
  BY <1>1, <1>4 DEF Settled, NoOrphan, NoOwn
<1>9. SuccessIsOwn'
  BY <1>1, <1>2, <1>3, <1>4 DEF SuccessIsOwn, After, Inv, TypeOK
<1>10. ProofIsOwn'
  <2> SUFFICES ASSUME ~slipped, outcome' \in {"proof", "text"}
               PROVE  ProofIsOwn'
    BY <1>1 DEF ProofIsOwn
  <2>1. outcome' = Extract(history, baseline)
    BY <1>2
  <2>2. Own' = Own
    BY <1>1 DEF Own
  <2> QED BY <1>1, <2>1, <2>2, ExtractIsOwn DEF ProofIsOwn
<1> QED BY <1>6, <1>7, <1>8, <1>9, <1>10 DEF Inv

-----------------------------------------------------------------------------
(* Prompts waiting, begun and dropped.                                     *)
LEMMA QueueStep ==
  ASSUME Inv, OtherPrompt \/ BeginTurn \/ DropQueue
  PROVE  Inv'
<1> USE DEF run
<1>0. /\ queue \in Seq(Prompter) /\ DOMAIN queue = 1 .. Len(queue) /\ Len(queue) \in Nat
      /\ slipped \in BOOLEAN /\ others \in 0 .. MaxOthers /\ MaxOthers \in Nat
      /\ \A i, j \in DOMAIN queue : queue[i] = "own" /\ queue[j] = "own" => i = j
  BY SessionAssumption DEF Inv, TypeOK
<1>1. UNCHANGED <<pc, baseline, lost, outcome, history, cancel>>
  BY DEF OtherPrompt, BeginTurn, DropQueue
<1>2. slipped' \in BOOLEAN /\ (slipped => slipped') /\ others' \in 0 .. MaxOthers
  <2>1. CASE OtherPrompt
    <3>1. others' \in 0 .. MaxOthers
      BY <1>0, <2>1 DEF OtherPrompt
    <3>2. slipped' = TRUE \/ slipped' = slipped
      BY <2>1 DEF OtherPrompt, Slip
    <3>3. slipped' \in BOOLEAN /\ (slipped => slipped')
      BY <1>0, <3>2
    <3> QED BY <3>1, <3>3
  <2>2. CASE BeginTurn \/ DropQueue
    BY <1>0, <2>2 DEF BeginTurn, DropQueue
  <2> QED BY <2>1, <2>2
<1>3. /\ queue' \in Seq(Prompter) /\ turn' \in Prompter \union {"none"}
      /\ \A i, j \in DOMAIN queue' : queue'[i] = "own" /\ queue'[j] = "own" => i = j
      /\ NoOwn => NoOwn'
      /\ (\A j \in DOMAIN queue : queue[j] # "own") => \A j \in DOMAIN queue' : queue'[j] # "own"
      /\ turn' = "own" => \A j \in DOMAIN queue' : queue'[j] # "own"
      /\ ~slipped' /\ pc \in Waiting => turn' # "other" /\ \A j \in DOMAIN queue' : queue'[j] # "other"
  <2>1. CASE OtherPrompt
    <3>1. /\ queue' \in Seq(Prompter) /\ DOMAIN queue' = 1 .. Len(queue) + 1
          /\ \A i \in 1 .. Len(queue) : queue'[i] = queue[i]
          /\ queue'[Len(queue) + 1] = "other" /\ turn' = turn
      <4>1. "other" \in Prompter /\ queue' = Append(queue, "other")
        BY <2>1 DEF Prompter, OtherPrompt
      <4> QED BY <1>0, <2>1, <4>1, AppendFacts DEF OtherPrompt
    <3>2. pc \in Waiting => slipped'
      BY <2>1 DEF OtherPrompt, Slip, Waiting
    <3> QED BY <1>0, <3>1, <3>2 DEF NoOwn, Inv, TypeOK, OnceOwn
  <2>2. CASE BeginTurn
    <3>1. /\ queue' \in Seq(Prompter) /\ Len(queue) > 0 /\ DOMAIN queue' = 1 .. Len(queue) - 1
          /\ \A i \in 1 .. Len(queue) - 1 : queue'[i] = queue[i + 1]
          /\ turn' = queue[1] /\ queue[1] \in Prompter /\ slipped' = slipped
      BY <1>0, <2>2 DEF BeginTurn
    <3>2. \A i \in DOMAIN queue' : i + 1 \in DOMAIN queue /\ queue'[i] = queue[i + 1] /\ i + 1 # 1
      BY <1>0, <3>1
    <3>3. 1 \in DOMAIN queue
      BY <1>0, <3>1
    <3>4. ~slipped' /\ pc \in Waiting => \A j \in DOMAIN queue : queue[j] # "other"
      BY <3>1 DEF Inv, Alone
    <3>5. \A i, j \in DOMAIN queue' : queue'[i] = "own" /\ queue'[j] = "own" => i = j
      <4> SUFFICES ASSUME NEW i \in DOMAIN queue', NEW j \in DOMAIN queue',
                          queue'[i] = "own", queue'[j] = "own"
                   PROVE  i = j
        OBVIOUS
      <4>1. i + 1 = j + 1 /\ i \in Nat /\ j \in Nat
        BY <1>0, <3>1, <3>2
      <4> QED BY <4>1
    <3>6. turn' = "own" => \A j \in DOMAIN queue' : queue'[j] # "own"
      BY <1>0, <3>1, <3>2, <3>3
    <3>7. NoOwn => NoOwn'
      BY <3>1, <3>2, <3>3 DEF NoOwn
    <3> QED BY <3>1, <3>2, <3>3, <3>4, <3>5, <3>6, <3>7
  <2>3. CASE DropQueue
    <3>1. queue' = <<>> /\ turn' = turn /\ slipped' = slipped
      BY <2>3 DEF DropQueue
    <3>2. queue' \in Seq(Prompter) /\ DOMAIN queue' = {}
      BY <3>1
    <3> QED BY <3>1, <3>2 DEF NoOwn, Inv, TypeOK, Alone
  <2> QED BY <2>1, <2>2, <2>3
<1>4. TypeOK'
  BY <1>1, <1>2, <1>3 DEF Inv, TypeOK
<1>5. OnceOwn'
  BY <1>1, <1>3 DEF Inv, OnceOwn, Early
<1>6. Alone'
  BY <1>1, <1>2, <1>3 DEF Inv, Alone
<1>7. Answered' /\ Settled' /\ NoOrphan'
  BY <1>1, <1>2, <1>3 DEF Inv, Answered, Settled, NoOrphan, NoOwn
<1>8. SuccessIsOwn' /\ ProofIsOwn'
  <2>1. Own' = Own /\ After(history, 0, "end")' = After(history, 0, "end")
    BY <1>1 DEF Own, After
  <2> QED BY <1>1, <1>2, <2>1 DEF Inv, SuccessIsOwn, ProofIsOwn
<1> QED BY <1>4, <1>5, <1>6, <1>7, <1>8 DEF Inv

-----------------------------------------------------------------------------
(* Whatever the turn under way records.                                    *)
LEMMA RecordStep ==
  ASSUME Inv, NEW e \in Event, history' = Append(history, e),
         turn # "none", e.by = turn, turn' \in {turn, "none"},
         e.kind = "end" => turn' = "none",
         e.kind = "result" =>
           \/ e.id = None /\ e.is \in {"valid", "malformed"}
           \/ \E c \in After(history, 0, "call") : history[c].by = turn /\ history[c].id = e.id,
         UNCHANGED <<pc, baseline, lost, outcome, queue, others, cancel, slipped>>
  PROVE  Inv'
<1>0. /\ history \in Seq(Event) /\ DOMAIN history = 1 .. Len(history) /\ Len(history) \in Nat
      /\ baseline \in 0 .. Len(history) /\ slipped \in BOOLEAN
      /\ turn \in Prompter
  BY DEF Inv, TypeOK
<1>1. /\ history' \in Seq(Event) /\ DOMAIN history' = 1 .. Len(history) + 1
      /\ Len(history') = Len(history) + 1
      /\ \A i \in 1 .. Len(history) : history'[i] = history[i]
      /\ history'[Len(history) + 1] = e
  BY <1>0, AppendFacts
<1>2. TypeOK'
  BY <1>0, <1>1 DEF Inv, TypeOK
<1>3. OnceOwn'
  <2>1. pc \notin Early \/ turn # "own"
    BY DEF Inv, OnceOwn, NoOwn
  <2>2. turn = "own" => \A j \in DOMAIN queue : queue[j] # "own"
    BY DEF Inv, OnceOwn
  <2>3. pc' \in Early => NoOwn' /\ \A i \in DOMAIN history' : history'[i].by # "own"
    BY <1>0, <1>1, <2>1 DEF Inv, OnceOwn, NoOwn
  <2>4. (\E i \in DOMAIN history' : history'[i].by = "own" /\ history'[i].kind = "end") => NoOwn'
    BY <1>0, <1>1, <2>2 DEF Inv, OnceOwn, NoOwn
  <2>5. \A i \in DOMAIN history' : history'[i].by = "own" => \A j \in DOMAIN queue' : queue'[j] # "own"
    BY <1>0, <1>1, <2>2 DEF Inv, OnceOwn
  <2> QED BY <2>2, <2>3, <2>4, <2>5 DEF OnceOwn
<1>4. Alone'
  BY <1>0, <1>1 DEF Inv, Alone, Prompter
<1>5. Answered'
  <2> SUFFICES ASSUME NEW r \in DOMAIN history', history'[r].kind = "result"
               PROVE  \/ history'[r].id = None /\ history'[r].is \in {"valid", "malformed"}
                      \/ \E c \in 1 .. r - 1 :
                           /\ history'[c].kind = "call" /\ history'[c].by = history'[r].by
                           /\ history'[c].id = history'[r].id
    BY DEF Answered
  <2>1. CASE r \in DOMAIN history
    BY <1>0, <1>1, <2>1 DEF Inv, Answered
  <2>2. CASE r = Len(history) + 1
    BY <1>0, <1>1, <2>2 DEF After
  <2> QED BY <1>0, <1>1, <2>1, <2>2
<1>6. Settled' /\ NoOrphan'
  BY DEF Inv, Settled, NoOrphan, NoOwn
<1>7. SuccessIsOwn'
  BY <1>0, <1>1 DEF Inv, SuccessIsOwn, After
<1>8. ProofIsOwn'
  <2> SUFFICES ASSUME ~slipped, outcome \in {"proof", "text"}
               PROVE  ProofIsOwn'
    BY DEF ProofIsOwn
  <2>1. e.by # "own"
    BY DEF Inv, Settled, NoOwn
  <2>2. Own' = Own
    BY <1>0, <1>1, <2>1 DEF Own
  <2>3. \A i \in Own : history'[i] = history[i]
    BY <1>0, <1>1 DEF Own
  <2> QED BY <2>2, <2>3 DEF Inv, ProofIsOwn
<1> QED BY <1>2, <1>3, <1>4, <1>5, <1>6, <1>7, <1>8 DEF Inv

LEMMA TurnStep ==
  ASSUME Inv,
         \/ \E id \in CallId : CallComplete(id)
         \/ \E id \in CallId \union {None}, is \in Content : Answer(id, is)
         \/ \E is \in {"completed", "error"} : EndTurn(is)
  PROVE  Inv'
<1> USE DEF run, Record
<1>0. turn # "none" => turn \in Prompter
  BY DEF Inv, TypeOK
<1>1. CASE \E id \in CallId : CallComplete(id)
  <2>1. PICK id \in CallId : CallComplete(id)
    BY <1>1
  <2>2. [kind |-> "call", by |-> turn, id |-> id] \in Event
    BY <1>0, <2>1 DEF CallComplete, Event, Work
  <2> QED BY <2>1, <2>2, RecordStep DEF CallComplete
<1>2. CASE \E id \in CallId \union {None}, is \in Content : Answer(id, is)
  <2>1. PICK id \in CallId \union {None}, is \in Content : Answer(id, is)
    BY <1>2
  <2>2. [kind |-> "result", by |-> turn, id |-> id, is |-> is] \in Event
    BY <1>0, <2>1 DEF Answer, Event, Work
  <2> QED BY <2>1, <2>2, RecordStep DEF Answer
<1>3. CASE \E is \in {"completed", "error"} : EndTurn(is)
  <2>1. PICK is \in {"completed", "error"} : EndTurn(is)
    BY <1>3
  <2>2. [kind |-> "end", by |-> turn, is |-> is] \in Event
    BY <1>0, <2>1 DEF EndTurn, Event
  <2> QED BY <2>1, <2>2, RecordStep DEF EndTurn
<1> QED BY <1>1, <1>2, <1>3

-----------------------------------------------------------------------------
LEMMA NextInv == Inv /\ [Next]_vars => Inv'
<1> SUFFICES ASSUME Inv, [Next]_vars PROVE Inv'
  OBVIOUS
<1>1. CASE Launching
  BY <1>1, LaunchStep, PromptStep DEF Launching
<1>2. CASE Monitoring
  BY <1>2, MonitorStep, PollStep DEF Monitoring
<1>3. CASE Host
  BY <1>3, QueueStep, TurnStep DEF Host
<1>4. CASE UNCHANGED vars
  <2>1. Own' = Own /\ After(history, 0, "end")' = After(history, 0, "end")
    BY <1>4 DEF vars, run, session, Own, After
  <2> QED BY <1>4, <2>1 DEF vars, run, session, Inv, TypeOK, OnceOwn, Alone, Answered,
                            Settled, SuccessIsOwn, ProofIsOwn, NoOrphan, NoOwn
<1> QED BY <1>1, <1>2, <1>3, <1>4 DEF Next

LEMMA InvAlways == Spec => []Inv
<1> QED BY InitInv, NextInv, PTL DEF Spec

-----------------------------------------------------------------------------
(* The session's prompts and history keep their shape, and the run has an  *)
(* outcome exactly when it is over.                                        *)
THEOREM SessionKeepsTypes == Spec => []TypeOK
<1>1. Inv => TypeOK
  BY DEF Inv
<1> QED BY <1>1, InvAlways, PTL

(* A run that reports success ended the turn of its own prompt well, for   *)
(* histories of any length and any number of foreign prompts.              *)
THEOREM SuccessesAreOwn == Spec => []SuccessIsOwn
<1>1. Inv => SuccessIsOwn
  BY DEF Inv
<1> QED BY <1>1, InvAlways, PTL

(* The proof of a run is the one attempt of its own turn, and a success    *)
(* without proof had no attempt: none is dropped for another.              *)
THEOREM ProofsAreOwn == Spec => []ProofIsOwn
<1>1. Inv => ProofIsOwn
  BY DEF Inv
<1> QED BY <1>1, InvAlways, PTL

(* However a run ends, its prompt is done with or its session was told to  *)
(* stop.                                                                   *)
THEOREM NothingIsOrphaned == Spec => []NoOrphan
<1>1. Inv => NoOrphan
  BY DEF Inv
<1> QED BY <1>1, InvAlways, PTL
=============================================================================
