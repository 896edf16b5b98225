-------------------------- MODULE EvaluationProofs --------------------------
(***************************************************************************)
(* Proofs about the evaluation calls: a synchronous evaluation for lists   *)
(* of metrics of any length, and the classification report for any labels  *)
(* and samples.                                                            *)
(***************************************************************************)
EXTENDS Evaluation, Classification, FiniteSetTheorems, SequenceTheorems, TLAPS

-----------------------------------------------------------------------------
(* One evaluation.                                                         *)

(* How many metrics of the list the adapter's loop is done with, and which. *)
Handled == Len(metrics) - Len(left)
Behind == {metrics[i] : i \in 1 .. Handled}

(* The list, and the rest of it that the loop has still to look at. *)
ListInv ==
    /\ metrics \in Seq(STRING) /\ left \in Seq(STRING)
    /\ Len(left) <= Len(metrics)
    /\ \A i \in 1 .. Len(left) : left[i] = metrics[Handled + i]

(* Nothing has happened before the loop. *)
Untouched ==
    /\ judged = {} /\ scores = {} /\ events = << >> /\ ~busRaised /\ outcome = "none"

(* In the multi-turn loop, what was judged and scored is what lies behind,
   and each of these metrics had its inputs. *)
LoopInv ==
    /\ NamesAccepted
    /\ events = << >> /\ ~busRaised /\ outcome = "none"
    /\ op # "multi" => judged = {} /\ scores = {}
    /\ op = "multi" =>
          /\ judged = Behind /\ scores = Behind
          /\ \A i \in 1 .. Handled : TurnInputs[metrics[i]] \subseteq have

(* The scores are in, and the completed event is about to go out. *)
ScoredInv ==
    /\ events = << >> /\ ~busRaised /\ outcome = "none"
    /\ judged = Asked /\ scores \subseteq Asked
    /\ op = "multi" => scores = Asked

(* The use case's handler: the completed event is out only if its publisher
   raised after delivering it. *)
ExceptInv ==
    /\ op = "execute" /\ outcome \notin {"none", "returned"}
    /\ outcome = "Refused" => judged = {}
    /\ events \in {<< >>, <<Event("completed")>>}
    /\ busRaised => outcome = "BusError"
    /\ events # << >> => busRaised /\ judged = Asked

PcInv ==
    /\ pc \in {"idle", "check", "import", "metrics", "publish", "except", "done"}
    /\ op \in {"single", "multi", "execute"}

EvalInv ==
    /\ PcInv /\ ListInv
    /\ pc \in {"idle", "check", "import"} => Untouched
    /\ pc \in {"check", "import"} => left = metrics
    /\ pc = "import" => NamesAccepted
    /\ pc = "metrics" => LoopInv
    /\ pc = "publish" => ScoredInv
    /\ pc = "except" => ExceptInv
    /\ RefusedUnjudged /\ EventMatchesResult /\ VerdictsAgree

(* A call begins with its list, and nothing done. *)
LEMMA BeginInv ==
    ASSUME EvalInv, pc = "idle", NEW o \in {"single", "multi", "execute"},
           NEW ms \in MetricLists, NEW given \in Given, Begin(o, ms, given)
    PROVE  EvalInv'
<1>1. ms \in Seq(STRING) BY EvalAssumption
<1>2. ListInv' BY <1>1 DEF Begin, ListInv, Handled
<1> QED BY <1>2 DEF EvalInv, PcInv, Untouched, Begin, RefusedUnjudged, EventMatchesResult,
                    VerdictsAgree

(* A refusal or an error before any metric was judged. *)
LEMMA RaiseInv ==
    ASSUME EvalInv, pc \in {"check", "import", "metrics"}, NEW exception \in
              {"Refused", "ExternalServiceError", "MessageError"},
           Raise(exception), judged = {},
           exception = "Refused" /\ op = "multi" => ~NamesAccepted,
           UNCHANGED <<request, left, judged, scores, events, busRaised>>
    PROVE  EvalInv'
<1>1. events = << >> /\ ~busRaised /\ outcome = "none"
  BY DEF EvalInv, Untouched, LoopInv
<1>2. ListInv' BY DEF EvalInv, ListInv, Handled, request
<1>3. PcInv' BY DEF EvalInv, PcInv, Raise, request
<1>4. CASE op = "execute"
  <2>1. pc' = "except" /\ outcome' = exception BY <1>4 DEF Raise
  <2>2. ExceptInv' BY <1>1, <1>4, <2>1 DEF ExceptInv, request
  <2> QED BY <1>2, <1>3, <2>1, <2>2
          DEF EvalInv, RefusedUnjudged, EventMatchesResult, VerdictsAgree
<1>5. CASE op # "execute"
  <2>1. pc' = "done" /\ outcome' = exception BY <1>5 DEF Raise
  <2>2. RefusedUnjudged'
    BY <2>1 DEF RefusedUnjudged, request, NamesAccepted, Asked
  <2>3. EventMatchesResult' /\ VerdictsAgree'
    BY <1>1, <1>5, <2>1 DEF EventMatchesResult, VerdictsAgree, request
  <2> QED BY <1>2, <1>3, <2>1, <2>2, <2>3 DEF EvalInv
<1> QED BY <1>4, <1>5

(* One step of the loop: Head and Tail of what is left. *)
LEMMA ListStep ==
    ASSUME ListInv, left # << >>
    PROVE  /\ Handled \in Nat /\ Handled + 1 \in 1 .. Len(metrics)
           /\ Head(left) = metrics[Handled + 1] /\ Head(left) \in Asked
           /\ metrics' = metrics /\ left' = Tail(left) =>
                 /\ ListInv' /\ Handled' = Handled + 1
                 /\ Behind' = Behind \cup {Head(left)}
<1>1. /\ Len(left) \in Nat \ {0} /\ Len(metrics) \in Nat /\ Len(left) <= Len(metrics)
      /\ Head(left) = left[1]
  BY DEF ListInv
<1>2. Handled \in Nat /\ Handled + 1 \in 1 .. Len(metrics) /\ Head(left) = metrics[Handled + 1]
  BY <1>1 DEF Handled, ListInv
<1>3. DOMAIN metrics = 1 .. Len(metrics) BY DEF ListInv
<1>4. Head(left) \in Asked BY <1>2, <1>3 DEF Asked
<1>5. ASSUME metrics' = metrics, left' = Tail(left)
      PROVE  /\ ListInv' /\ Handled' = Handled + 1
             /\ Behind' = Behind \cup {Head(left)}
  <2>1. /\ left' \in Seq(STRING) /\ Len(left') = Len(left) - 1
        /\ \A i \in 1 .. Len(left') : left'[i] = left[i + 1]
    BY <1>1, <1>5 DEF ListInv
  <2>2. Handled' = Handled + 1 BY <1>1, <1>5, <2>1 DEF Handled
  <2>3. ListInv'
    <3>1. \A i \in 1 .. Len(left') : left'[i] = metrics[Handled + 1 + i]
      <4> TAKE i \in 1 .. Len(left')
      <4>1. i + 1 \in 1 .. Len(left) BY <1>1, <2>1
      <4>2. left[i + 1] = metrics[Handled + (i + 1)] BY <4>1 DEF ListInv
      <4>3. Handled + (i + 1) = Handled + 1 + i BY <1>2
      <4> QED BY <2>1, <4>2, <4>3
    <3> QED BY <1>1, <1>5, <2>1, <2>2, <3>1 DEF ListInv
  <2>4. 1 .. (Handled + 1) = (1 .. Handled) \cup {Handled + 1} BY <1>2
  <2>5. Behind' = Behind \cup {Head(left)}
    BY <1>2, <1>5, <2>2, <2>4 DEF Behind
  <2> QED BY <2>2, <2>3, <2>5
<1> QED BY <1>2, <1>4, <1>5

(* Before anything is imported, the imports, and the messages. *)
LEMMA EarlyInv ==
    ASSUME EvalInv, CheckNames \/ ImportRagas \/ BuildMessages
    PROVE  EvalInv'
<1>1. /\ pc \in {"check", "import"} /\ Untouched /\ left = metrics
      /\ UNCHANGED <<request, left, judged, scores, events, busRaised>>
  BY DEF EvalInv, CheckNames, ImportRagas, BuildMessages
<1>2. judged = {} BY <1>1 DEF Untouched
<1>3. ASSUME pc' \in {"import", "metrics"}, outcome' = outcome, NamesAccepted
      PROVE  EvalInv'
  <2>1. ListInv' BY <1>1 DEF EvalInv, ListInv, Handled, request
  <2>2. NamesAccepted' BY <1>1, <1>3 DEF NamesAccepted, Asked, request
  <2>3. Untouched' BY <1>1, <1>3 DEF Untouched
  <2>4. pc' = "metrics" => LoopInv'
    <3>1. Handled' = 0 BY <1>1 DEF EvalInv, ListInv, Handled, request
    <3>2. Behind' = {} BY <3>1 DEF Behind
    <3> QED BY <2>2, <2>3, <3>1, <3>2 DEF LoopInv, Untouched
  <2> QED BY <1>1, <1>3, <2>1, <2>2, <2>3, <2>4
          DEF EvalInv, PcInv, request, RefusedUnjudged, EventMatchesResult, VerdictsAgree
<1>4. CASE CheckNames
  <2>1. CASE NamesAccepted /\ pc' = "import" /\ UNCHANGED outcome
    BY <1>3, <2>1
  <2>2. CASE ~NamesAccepted /\ Raise("Refused")
    BY <1>1, <1>2, <2>2, RaiseInv
  <2> QED BY <1>4, <2>1, <2>2 DEF CheckNames
<1>5. CASE ImportRagas \/ BuildMessages
  <2>1. NamesAccepted BY <1>5 DEF EvalInv, ImportRagas, BuildMessages
  <2>2. CASE pc' = "metrics" /\ UNCHANGED outcome
    BY <1>3, <2>1, <2>2
  <2>3. CASE Raise("ExternalServiceError") \/ Raise("MessageError")
    BY <1>1, <1>2, <2>3, RaiseInv
  <2> QED BY <1>5, <2>2, <2>3 DEF ImportRagas, BuildMessages
<1> QED BY <1>4, <1>5

(* run_single_turn builds its metrics before it judges one. *)
LEMMA BuildInv ==
    ASSUME EvalInv, BuildMetric
    PROVE  EvalInv'
<1>1. /\ pc = "metrics" /\ op # "multi" /\ left # << >> /\ LoopInv
      /\ UNCHANGED <<request, config, judged, scores, events, busRaised>>
  BY DEF EvalInv, BuildMetric
<1>2. judged = {} BY <1>1 DEF LoopInv
<1>3. CASE UNCHANGED left /\ (Raise("Refused") \/ Raise("ExternalServiceError"))
  BY <1>1, <1>2, <1>3, RaiseInv
<1>4. CASE left' = Tail(left) /\ UNCHANGED <<pc, outcome>>
  <2>1. ListInv' BY <1>1, <1>4, ListStep DEF EvalInv, request
  <2>2. LoopInv' BY <1>1, <1>4 DEF LoopInv, NamesAccepted, Asked, request
  <2> QED BY <1>1, <1>4, <2>1, <2>2
          DEF EvalInv, PcInv, request, RefusedUnjudged, EventMatchesResult, VerdictsAgree
<1> QED BY <1>3, <1>4 DEF BuildMetric

(* An error of the judge, with metrics judged. *)
LEMMA JudgeErrorInv ==
    ASSUME EvalInv, pc = "metrics", Raise("JudgeError"),
           UNCHANGED <<request, left, events, busRaised>>
    PROVE  EvalInv'
<1>1. events = << >> /\ ~busRaised BY DEF EvalInv, LoopInv
<1>2. ListInv' BY DEF EvalInv, ListInv, Handled, request
<1>3. PcInv' BY DEF EvalInv, PcInv, Raise, request
<1>4. CASE op = "execute"
  <2>1. pc' = "except" /\ outcome' = "JudgeError" BY <1>4 DEF Raise
  <2>2. ExceptInv' BY <1>1, <1>4, <2>1 DEF ExceptInv, request
  <2> QED BY <1>2, <1>3, <2>1, <2>2
          DEF EvalInv, RefusedUnjudged, EventMatchesResult, VerdictsAgree
<1>5. CASE op # "execute"
  <2>1. pc' = "done" /\ outcome' = "JudgeError" BY <1>5 DEF Raise
  <2>2. EventMatchesResult' /\ VerdictsAgree' /\ RefusedUnjudged'
    BY <1>1, <1>5, <2>1 DEF EventMatchesResult, VerdictsAgree, RefusedUnjudged, request
  <2> QED BY <1>2, <1>3, <2>1, <2>2 DEF EvalInv
<1> QED BY <1>4, <1>5

(* aevaluate judges the whole list. *)
LEMMA AevaluateInv ==
    ASSUME EvalInv, Aevaluate
    PROVE  EvalInv'
<1>1. /\ pc = "metrics" /\ op # "multi" /\ judged' = Asked /\ LoopInv
      /\ UNCHANGED <<request, config, left, events, busRaised>>
  BY DEF EvalInv, Aevaluate
<1>2. CASE Raise("JudgeError")
  BY <1>1, <1>2, JudgeErrorInv
<1>3. CASE scores' \in SUBSET Asked /\ pc' = "publish" /\ UNCHANGED outcome
  <2>1. ListInv' BY <1>1 DEF EvalInv, ListInv, Handled, request
  <2>2. ScoredInv' BY <1>1, <1>3 DEF ScoredInv, LoopInv, Asked, request
  <2> QED BY <1>1, <1>3, <2>1, <2>2
          DEF EvalInv, PcInv, request, RefusedUnjudged, EventMatchesResult, VerdictsAgree
<1> QED BY <1>2, <1>3 DEF Aevaluate

(* The names of the multi-turn metrics are those run_multi_turn has branches
   for. *)
LEMMA TurnNames == DOMAIN TurnInputs = MULTI_TURN_ONLY_METRICS
  BY DEF TurnInputs, MULTI_TURN_ONLY_METRICS

(* A refusal in the middle of a multi-turn list leaves behind exactly the
   metrics before the first one without its inputs. *)
LEMMA RefusalInv ==
    ASSUME EvalInv, pc = "metrics", op = "multi", left # << >>,
           ~(TurnInputs[Head(left)] \subseteq have)
    PROVE  Behind = BeforeMissing
<1> DEFINE Fine(k) == metrics[k] \in DOMAIN TurnInputs /\ TurnInputs[metrics[k]] \subseteq have
<1>1. /\ Handled \in Nat /\ Handled + 1 \in 1 .. Len(metrics)
      /\ Head(left) = metrics[Handled + 1]
  BY ListStep DEF EvalInv
<1>2. DOMAIN metrics = 1 .. Len(metrics) /\ Len(metrics) \in Nat BY DEF EvalInv, ListInv
<1>3. \A k \in 1 .. Handled : Fine(k)
  <2>1. Asked \subseteq MULTI_TURN_ONLY_METRICS BY DEF EvalInv, LoopInv, NamesAccepted
  <2>2. \A k \in 1 .. Handled : metrics[k] \in Asked BY <1>1, <1>2 DEF Asked
  <2> QED BY <2>1, <2>2, TurnNames DEF EvalInv, LoopInv
<1>4. ~Fine(Handled + 1) BY <1>1
<1>5. BeforeMissing = {metrics[i] : i \in {j \in DOMAIN metrics : \A k \in 1 .. j : Fine(k)}}
  BY DEF BeforeMissing
<1> HIDE DEF Fine
<1>6. {j \in DOMAIN metrics : \A k \in 1 .. j : Fine(k)} = 1 .. Handled
  <2>1. ASSUME NEW j \in 1 .. Handled
        PROVE  j \in DOMAIN metrics /\ \A k \in 1 .. j : Fine(k)
    BY <1>1, <1>2, <1>3
  <2>2. ASSUME NEW j \in DOMAIN metrics, \A k \in 1 .. j : Fine(k)
        PROVE  j \in 1 .. Handled
    BY <1>1, <1>2, <1>4, <2>2
  <2> QED BY <2>1, <2>2
<1> QED BY <1>5, <1>6 DEF Behind

(* One metric of a multi-turn list. *)
LEMMA AscoreInv ==
    ASSUME EvalInv, Ascore
    PROVE  EvalInv'
<1> DEFINE m == Head(left)
<1>1. /\ pc = "metrics" /\ op = "multi" /\ left # << >> /\ LoopInv
      /\ UNCHANGED <<request, config, events, busRaised>>
  BY DEF EvalInv, Ascore
<1>2. CASE /\ ~(TurnInputs[m] \subseteq have) /\ Raise("Refused")
           /\ UNCHANGED <<left, judged, scores>>
  <2>1. judged = BeforeMissing BY <1>1, <1>2, RefusalInv DEF LoopInv
  <2>2. /\ pc' = "done" /\ outcome' = "Refused" /\ NamesAccepted'
        /\ BeforeMissing' = BeforeMissing
    BY <1>1, <1>2 DEF Raise, LoopInv, NamesAccepted, Asked, BeforeMissing, request
  <2>3. ListInv' BY <1>1, <1>2 DEF EvalInv, ListInv, Handled, request
  <2>4. RefusedUnjudged' BY <1>1, <1>2, <2>1, <2>2 DEF RefusedUnjudged, request
  <2>5. EventMatchesResult' /\ VerdictsAgree'
    BY <1>1, <2>2 DEF EventMatchesResult, VerdictsAgree, LoopInv, request
  <2> QED BY <1>1, <2>2, <2>3, <2>4, <2>5 DEF EvalInv, PcInv, request
<1>3. CASE /\ TurnInputs[m] \subseteq have /\ judged' = judged \cup {m}
           /\ Raise("JudgeError") /\ UNCHANGED <<left, scores>>
  BY <1>1, <1>3, JudgeErrorInv
<1>4. CASE /\ TurnInputs[m] \subseteq have /\ judged' = judged \cup {m}
           /\ scores' = scores \cup {m} /\ left' = Tail(left) /\ UNCHANGED <<pc, outcome>>
  <2>1. /\ Handled \in Nat /\ m = metrics[Handled + 1] /\ ListInv'
        /\ Handled' = Handled + 1 /\ Behind' = Behind \cup {m}
    BY <1>1, <1>4, ListStep DEF EvalInv, request
  <2>2. \A i \in 1 .. Handled' : TurnInputs[metrics[i]] \subseteq have
    BY <1>1, <1>4, <2>1 DEF LoopInv
  <2>3. LoopInv'
    BY <1>1, <1>4, <2>1, <2>2 DEF LoopInv, NamesAccepted, Asked, request
  <2> QED BY <1>1, <1>4, <2>1, <2>3
          DEF EvalInv, PcInv, request, RefusedUnjudged, EventMatchesResult, VerdictsAgree
<1> QED BY <1>2, <1>3, <1>4 DEF Ascore

(* The end of a multi-turn list. *)
LEMMA AllScoredInv ==
    ASSUME EvalInv, AllScored
    PROVE  EvalInv'
<1>1. /\ pc = "metrics" /\ op = "multi" /\ left = << >> /\ pc' = "publish" /\ LoopInv
      /\ UNCHANGED <<request, config, left, judged, scores, events, busRaised, outcome>>
  BY DEF EvalInv, AllScored
<1>2. ListInv' BY <1>1 DEF EvalInv, ListInv, Handled, request
<1>3. Behind = Asked
  <2>1. Handled = Len(metrics) /\ DOMAIN metrics = 1 .. Len(metrics)
    BY <1>1 DEF EvalInv, ListInv, Handled
  <2> QED BY <2>1 DEF Behind, Asked
<1>4. ScoredInv' BY <1>1, <1>3 DEF ScoredInv, LoopInv, Asked, request
<1> QED BY <1>1, <1>2, <1>4
        DEF EvalInv, PcInv, request, RefusedUnjudged, EventMatchesResult, VerdictsAgree

(* A list of no or one event, and one more. *)
LEMMA AppendOne ==
    ASSUME NEW x, NEW y
    PROVE  Append(<< >>, y) = <<y>> /\ Append(<<x>>, y) = <<x, y>>
<1>1. Append(<< >>, y) = <<y>> OBVIOUS
<1>2. <<x>> \in Seq({x, y}) /\ Len(<<x>>) = 1 OBVIOUS
<1>3. /\ Append(<<x>>, y) \in Seq({x, y}) /\ Len(Append(<<x>>, y)) = 2
      /\ Append(<<x>>, y)[1] = x /\ Append(<<x>>, y)[2] = y
  BY <1>2, AppendProperties
<1>4. /\ <<x, y>> \in Seq({x, y}) /\ Len(<<x, y>>) = 2
      /\ <<x, y>>[1] = x /\ <<x, y>>[2] = y
  OBVIOUS
<1>5. Append(<<x>>, y) = <<x, y>>
  <2> DEFINE s == Append(<<x>>, y)
             t == <<x, y>>
  <2>1. s \in Seq({x, y}) /\ t \in Seq({x, y}) /\ Len(s) = Len(t) BY <1>3, <1>4
  <2>2. \A i \in 1 .. Len(s) : s[i] = t[i]
    <3>1. 1 .. Len(s) = {1, 2} BY <1>3
    <3> QED BY <1>3, <1>4, <3>1
  <2> HIDE DEF s, t
  <2>3. s = t BY <2>1, <2>2, SeqEqual
  <2> QED BY <2>3 DEF s, t
<1> QED BY <1>1, <1>5

(* The completed event. *)
LEMMA PublishCompletedInv ==
    ASSUME EvalInv, PublishCompleted
    PROVE  EvalInv'
<1> DEFINE e == Event("completed")
<1>1. /\ pc = "publish" /\ ScoredInv
      /\ UNCHANGED <<request, config, left, judged, scores>>
  BY DEF EvalInv, PublishCompleted
<1>2. ListInv' BY <1>1 DEF EvalInv, ListInv, Handled, request
<1>3. Asked' = Asked /\ e' = e /\ e.name = "completed"
  BY <1>1 DEF Asked, Event, request
<1>4. events = << >> /\ Append(events, e) = <<e>> BY <1>1 DEF ScoredInv
<1> HIDE DEF e
<1>5. CASE /\ events' = Append(events, e) /\ pc' = "done" /\ outcome' = "returned"
           /\ UNCHANGED busRaised
  <2>1. events' = <<e>> /\ ~busRaised' BY <1>1, <1>4, <1>5 DEF ScoredInv
  <2>2. Delivered' = {"completed"}
    <3>1. DOMAIN events' = {1} /\ events'[1] = e BY <2>1
    <3> QED BY <1>3, <3>1 DEF Delivered
  <2>3. EventMatchesResult'
    BY <1>1, <1>3, <1>5, <2>1 DEF EventMatchesResult, ScoredInv, request, e
  <2>4. VerdictsAgree'
    BY <1>1, <1>3, <1>5, <2>1, <2>2 DEF VerdictsAgree, ScoredInv, request, e
  <2> QED BY <1>1, <1>2, <1>5, <2>3, <2>4 DEF EvalInv, PcInv, RefusedUnjudged, request
<1>6. CASE /\ op = "execute" /\ events' \in {events, Append(events, e)}
           /\ busRaised' = TRUE /\ Raise("BusError")
  <2>1. pc' = "except" /\ outcome' = "BusError" BY <1>6 DEF Raise
  <2>2. events' \in {<< >>, <<e>>} BY <1>4, <1>6
  <2>3. ExceptInv'
    BY <1>1, <1>3, <1>6, <2>1, <2>2 DEF ExceptInv, ScoredInv, request, e
  <2> QED BY <1>1, <1>2, <2>1, <2>3
          DEF EvalInv, PcInv, RefusedUnjudged, EventMatchesResult, VerdictsAgree, request
<1> QED BY <1>5, <1>6 DEF PublishCompleted, e

(* The failed event. *)
LEMMA PublishFailedInv ==
    ASSUME EvalInv, PublishFailed
    PROVE  EvalInv'
<1> DEFINE e == Event("completed")
           f == Event("failed")
<1>1. /\ pc = "except" /\ pc' = "done" /\ ExceptInv
      /\ UNCHANGED <<request, config, left, judged, scores>>
  BY DEF EvalInv, PublishFailed
<1>2. ListInv' BY <1>1 DEF EvalInv, ListInv, Handled, request
<1>3. /\ Asked' = Asked /\ e' = e /\ f' = f
      /\ e.name = "completed" /\ f.name = "failed"
  BY <1>1 DEF Asked, Event, request
<1>4. events \in {<< >>, <<e>>} BY <1>1 DEF ExceptInv
<1>5. /\ \/ events' = Append(events, f) /\ UNCHANGED <<busRaised, outcome>>
         \/ /\ events' \in {events, Append(events, f)}
            /\ busRaised' = TRUE /\ outcome' = "BusError"
  BY DEF PublishFailed
<1> HIDE DEF e, f
<1>6. events' \in {<< >>, <<e>>, <<f>>, <<e, f>>}
  <2>1. Append(<< >>, f) = <<f>> /\ Append(<<e>>, f) = <<e, f>> BY AppendOne
  <2>2. Append(events, f) \in {<<f>>, <<e, f>>} BY <1>4, <2>1
  <2> QED BY <1>4, <1>5, <2>2
<1>7. events' \in {<<e>>, <<e, f>>} => busRaised' /\ judged' = Asked' /\ outcome' = "BusError"
  <2>1. events = << >> => events' \in {<< >>, <<f>>} BY <1>5
  <2>2. <<f>> # <<e>> /\ <<f>> # <<e, f>> /\ << >> # <<e>> /\ << >> # <<e, f>>
    BY <1>3
  <2>3. events' \in {<<e>>, <<e, f>>} => events # << >> BY <2>1, <2>2
  <2> QED BY <1>1, <1>3, <1>5, <2>3 DEF ExceptInv
<1>8. outcome' \notin {"none", "returned"} BY <1>1, <1>5 DEF ExceptInv
<1>9. ~busRaised' => events' = <<f>>
  <2>1. ASSUME ~busRaised' PROVE events' = <<f>>
    <3>1. events' = Append(events, f) /\ ~busRaised BY <1>5, <2>1
    <3>2. events = << >> BY <1>1, <3>1 DEF ExceptInv
    <3> QED BY <3>1, <3>2
  <2> QED BY <2>1
<1>10. /\ "completed" \in Delivered' => events' \in {<<e>>, <<e, f>>}
  <2>1. events' = << >> => Delivered' = {} BY DEF Delivered
  <2>2. events' = <<f>> => Delivered' = {"failed"}
    <3>1. events' = <<f>> => DOMAIN events' = {1} /\ events'[1] = f OBVIOUS
    <3> QED BY <1>3, <3>1 DEF Delivered
  <2> QED BY <1>6, <2>1, <2>2
<1>11. VerdictsAgree'
  <2>1. \A d : d = {"completed", "failed"} => "completed" \in d OBVIOUS
  <2> QED BY <1>1, <1>3, <1>7, <1>8, <1>9, <1>10, <2>1 DEF VerdictsAgree, f, request
<1>12. RefusedUnjudged'
  <2>1. outcome' = "Refused" => judged' = {} BY <1>1, <1>5 DEF ExceptInv
  <2> QED BY <1>1, <2>1 DEF RefusedUnjudged, ExceptInv, request
<1>13. EventMatchesResult' BY <1>1 DEF EventMatchesResult, ExceptInv, request
<1> QED BY <1>1, <1>2, <1>11, <1>12, <1>13 DEF EvalInv, PcInv, request

(* Every step of a call keeps the invariant. *)
THEOREM EvalInvariant == EvalSpec => []EvalInv
<1>1. EvalInit => EvalInv
  <2> SUFFICES ASSUME EvalInit PROVE EvalInv OBVIOUS
  <2>1. ListInv BY DEF EvalInit, ListInv, Handled
  <2> QED BY <2>1 DEF EvalInit, EvalInv, PcInv, Untouched, RefusedUnjudged,
                      EventMatchesResult, VerdictsAgree
<1>2. EvalInv /\ [EvalNext]_evalVars => EvalInv'
  <2> SUFFICES ASSUME EvalInv, [EvalNext]_evalVars PROVE EvalInv' OBVIOUS
  <2>1. ASSUME pc = "idle", NEW o \in {"single", "multi", "execute"},
               NEW ms \in MetricLists, NEW given \in Given, Begin(o, ms, given)
        PROVE  EvalInv'
    BY <2>1, BeginInv
  <2>2. CASE UNCHANGED evalVars
    <3>1. UNCHANGED <<Asked, NamesAccepted, Handled, Behind, BeforeMissing, Delivered,
                      Event("completed"), Event("failed")>>
      BY <2>2 DEF evalVars, Asked, NamesAccepted, Handled, Behind, BeforeMissing,
                  Delivered, Event
    <3>2. UNCHANGED <<ListInv, PcInv, Untouched, LoopInv, ScoredInv, ExceptInv>>
      BY <2>2, <3>1 DEF evalVars, ListInv, PcInv, Untouched, LoopInv, ScoredInv, ExceptInv
    <3>3. UNCHANGED <<RefusedUnjudged, EventMatchesResult, VerdictsAgree>>
      BY <2>2, <3>1 DEF evalVars, RefusedUnjudged, EventMatchesResult, VerdictsAgree, Event,
                        Delivered
    <3> QED BY <2>2, <3>1, <3>2, <3>3 DEF EvalInv, evalVars
  <2> QED BY <2>1, <2>2, EarlyInv, BuildInv, AevaluateInv, AscoreInv, AllScoredInv,
             PublishCompletedInv, PublishFailedInv
          DEF EvalNext
<1> QED BY <1>1, <1>2, PTL DEF EvalSpec

(* For lists of any length: what a refused request has cost. *)
THEOREM RefusalsCostExactly == EvalSpec => []RefusedUnjudged
<1>1. EvalInv => RefusedUnjudged BY DEF EvalInv
<1> QED BY <1>1, EvalInvariant, PTL

(* The event of a service call and its result agree. *)
THEOREM EventsMatchResults == EvalSpec => []EventMatchesResult
<1>1. EvalInv => EventMatchesResult BY DEF EvalInv
<1> QED BY <1>1, EvalInvariant, PTL

(* The verdict that the use case publishes is the one that its caller gets,
   whenever its publisher raises. *)
THEOREM VerdictsAreOne == EvalSpec => []VerdictsAgree
<1>1. EvalInv => VerdictsAgree BY DEF EvalInv
<1> QED BY <1>1, EvalInvariant, PTL

-----------------------------------------------------------------------------
(* The classification report.                                              *)

(* U is made of A and B, which have nothing in common. *)
Splits(U, A, B) == A \cup B = U /\ A \cap B = {}

(* A count over two disjoint sets of positions. *)
LEMMA CountDisjoint ==
    ASSUME NEW U, NEW A, NEW B, IsFiniteSet(U), Splits(U, A, B)
    PROVE  /\ Cardinality(A) \in Nat /\ Cardinality(B) \in Nat
           /\ Cardinality(U) = Cardinality(A) + Cardinality(B)
<1>0. A \subseteq U /\ B \subseteq U /\ A \cup B = U /\ A \cap B = {} BY DEF Splits
<1>1. IsFiniteSet(A) /\ IsFiniteSet(B) BY <1>0, FS_Subset
<1>2. Cardinality(A) \in Nat /\ Cardinality(B) \in Nat BY <1>1, FS_CardinalityType
<1>3. Cardinality(A \cup B) = Cardinality(A) + Cardinality(B) - Cardinality(A \cap B)
  BY <1>1, FS_Union
<1>4. Cardinality(A \cap B) = 0 BY <1>0, FS_EmptySet
<1>5. Cardinality(U) = Cardinality(A \cup B) BY <1>0
<1> QED BY <1>2, <1>3, <1>4, <1>5

(* The positions of a label. *)
Positions(labels, l) == {i \in DOMAIN labels : labels[i] = l}

(* The four counts of the samples, and what they add up to. *)
LEMMA CountsAddUp ==
    ASSUME NEW n \in Nat, NEW actual \in [1 .. n -> Labels],
           NEW predicted \in [1 .. n -> Labels], NEW pos \in Labels,
           NEW c, c = confusion_counts(actual, predicted, pos)
    PROVE  /\ c.tp \in Nat /\ c.fp \in Nat /\ c.tn \in Nat /\ c.fn \in Nat
           /\ c.tp + c.fp + c.tn + c.fn = n
           /\ c.tp + c.fn = Cardinality(Positions(actual, pos))
           /\ c.tp + c.fp = Cardinality(Positions(predicted, pos))
<1> DEFINE neg == Labels \ {pos}
           T(P, A) == {i \in DOMAIN actual : predicted[i] \in P /\ actual[i] \in A}
           TP == T({pos}, {pos})
           FP == T({pos}, neg)
           TN == T(neg, neg)
           FN == T(neg, {pos})
           AP == Positions(actual, pos)
           PP == Positions(predicted, pos)
           PN == (1 .. n) \ PP
<1>1. IsFiniteSet(1 .. n) /\ Cardinality(1 .. n) = n
  <2>1. IsFiniteSet(1 .. n) /\ Cardinality(1 .. n) = IF 1 > n THEN 0 ELSE n - 1 + 1
    BY FS_Interval
  <2> QED BY <2>1
<1>2. c = [tp |-> Cardinality(TP), fp |-> Cardinality(FP),
           tn |-> Cardinality(TN), fn |-> Cardinality(FN)]
  BY DEF confusion_counts, Tally
<1>3. AP \subseteq 1 .. n /\ PP \subseteq 1 .. n /\ PN \subseteq 1 .. n
  BY DEF Positions
<1>41. Splits(AP, TP, FN) BY DEF Positions, Splits
<1>42. Splits(PP, TP, FP) BY DEF Positions, Splits
<1>43. Splits(PN, TN, FN) BY DEF Positions, Splits
<1>44. Splits(1 .. n, PP, PN) BY DEF Positions, Splits
<1> HIDE DEF TP, FP, TN, FN, AP, PP, PN
<1>45. IsFiniteSet(AP) /\ IsFiniteSet(PP) /\ IsFiniteSet(PN) BY <1>1, <1>3, FS_Subset
<1>5. /\ Cardinality(TP) \in Nat /\ Cardinality(FN) \in Nat
      /\ Cardinality(AP) = Cardinality(TP) + Cardinality(FN)
  BY <1>41, <1>45, CountDisjoint
<1>6. /\ Cardinality(FP) \in Nat
      /\ Cardinality(PP) = Cardinality(TP) + Cardinality(FP)
  BY <1>42, <1>45, CountDisjoint
<1>7. /\ Cardinality(TN) \in Nat
      /\ Cardinality(PN) = Cardinality(TN) + Cardinality(FN)
  BY <1>43, <1>45, CountDisjoint
<1>8. Cardinality(1 .. n) = Cardinality(PP) + Cardinality(PN)
  BY <1>1, <1>44, CountDisjoint
<1>9. n = Cardinality(TP) + Cardinality(FP) + Cardinality(TN) + Cardinality(FN)
  BY <1>1, <1>5, <1>6, <1>7, <1>8
<1>10. /\ c.tp = Cardinality(TP) /\ c.fp = Cardinality(FP)
       /\ c.tn = Cardinality(TN) /\ c.fn = Cardinality(FN)
  BY <1>2
<1> QED BY <1>5, <1>6, <1>7, <1>9, <1>10 DEF AP, PP

(* A class distribution counts the positions of a label. *)
LEMMA DistributionCounts ==
    ASSUME NEW labels, NEW l
    PROVE  Count(class_distribution(labels), l) = Cardinality(Positions(labels, l))
<1> DEFINE D == {labels[i] : i \in DOMAIN labels}
<1>1. DOMAIN class_distribution(labels) = D BY DEF class_distribution
<1>2. CASE l \in D
  BY <1>1, <1>2 DEF Count, class_distribution, Positions
<1>3. CASE l \notin D
  <2>1. Positions(labels, l) = {} BY <1>3 DEF Positions
  <2>2. Cardinality({}) = 0 BY FS_EmptySet
  <2> QED BY <1>1, <1>3, <2>1, <2>2 DEF Count
<1> QED BY <1>2, <1>3

(* What classification_summary computes as f1 from the counts. *)
F1Of(tp, fp, fn) == f1(safe_divide(tp, tp + fp), safe_divide(tp, tp + fn))

(* The ratio r is 2tp / (2tp + fp + fn), or zero. *)
IsF1(r, tp, fp, fn) ==
    /\ 2 * tp + fp + fn = 0 => r[1] = 0
    /\ 2 * tp + fp + fn # 0 => r[1] * (2 * tp + fp + fn) = 2 * tp * r[2]

(* f1 from precision and recall, with their zero cases, is the textbook's. *)
LEMMA F1Textbook ==
    ASSUME NEW tp \in Nat, NEW fp \in Nat, NEW fn \in Nat
    PROVE  IsF1(F1Of(tp, fp, fn), tp, fp, fn)
<1> DEFINE r == F1Of(tp, fp, fn)
<1>1. CASE tp = 0
  <2>1. /\ safe_divide(tp, tp + fp) \in {<<0, 1>>, <<0, fp>>}
        /\ safe_divide(tp, tp + fn) \in {<<0, 1>>, <<0, fn>>}
    BY <1>1 DEF safe_divide
  <2>2. r = <<0, 1>>
    BY <2>1 DEF F1Of, f1, safe_divide
  <2> QED BY <1>1, <2>2 DEF IsF1
<1>2. CASE tp # 0
  <2>1. /\ safe_divide(tp, tp + fp) = <<tp, tp + fp>>
        /\ safe_divide(tp, tp + fn) = <<tp, tp + fn>>
    BY <1>2 DEF safe_divide
  <2>2. r = safe_divide(2 * tp * tp, tp * (tp + fn) + tp * (tp + fp))
    BY <2>1 DEF F1Of, f1
  <2>3. tp * (tp + fn) + tp * (tp + fp) = tp * (2 * tp + fp + fn)
    OBVIOUS
  <2>4. tp * (2 * tp + fp + fn) # 0
    BY <1>2
  <2>5. r = <<2 * tp * tp, tp * (2 * tp + fp + fn)>>
    BY <2>2, <2>3, <2>4 DEF safe_divide
  <2>6. (2 * tp * tp) * (2 * tp + fp + fn) = 2 * tp * (tp * (2 * tp + fp + fn))
    OBVIOUS
  <2> QED BY <1>2, <2>5, <2>6 DEF IsF1
<1> QED BY <1>1, <1>2

(* For any labels and any number of samples, the parts of a classification
   report agree with each other and with the textbook. *)
THEOREM SummariesAgree == ClassSpec => []SummaryAgrees
<1>1. ClassInit => SummaryAgrees
  BY DEF ClassInit, Nothing, SummaryAgrees
<1>2. SummaryAgrees /\ [ClassNext]_classVars => SummaryAgrees'
  <2> SUFFICES ASSUME SummaryAgrees, [ClassNext]_classVars PROVE SummaryAgrees' OBVIOUS
  <2>1. CASE UNCHANGED classVars
    BY <2>1 DEF classVars, SummaryAgrees, Count
  <2>2. ASSUME NEW actual \in LabelLists, NEW predicted \in LabelLists, NEW pos \in Labels,
               evaluate_classification(actual, predicted, pos)
        PROVE  SummaryAgrees'
    <3>1. CASE report' = [kind |-> "ValueError"]
      BY <3>1 DEF SummaryAgrees
    <3>2. CASE Len(actual) = Len(predicted)
      <4>1. PICK n \in Nat : actual \in [1 .. n -> Labels]
        BY ClassAssumption DEF LabelLists
      <4>2. PICK m \in Nat : predicted \in [1 .. m -> Labels]
        BY ClassAssumption DEF LabelLists
      <4>3. Len(actual) = n /\ Len(predicted) = m /\ n = m BY <3>2, <4>1, <4>2
      <4> DEFINE c == confusion_counts(actual, predicted, pos)
                 s == classification_summary(actual, predicted, pos)
      <4>4. /\ s.samples = n /\ s.counts = c
            /\ s.f1 = f1(safe_divide(c.tp, c.tp + c.fp), safe_divide(c.tp, c.tp + c.fn))
        BY <4>3 DEF classification_summary
      <4> HIDE DEF c
      <4>5. /\ c.tp \in Nat /\ c.fp \in Nat /\ c.tn \in Nat /\ c.fn \in Nat
            /\ c.tp + c.fp + c.tn + c.fn = n
            /\ c.tp + c.fn = Cardinality(Positions(actual, pos))
            /\ c.tp + c.fp = Cardinality(Positions(predicted, pos))
        <5>1. predicted \in [1 .. n -> Labels] BY <4>2, <4>3
        <5>2. c = confusion_counts(actual, predicted, pos) BY DEF c
        <5> QED BY <4>1, <5>1, <5>2, CountsAddUp
      <4>6. /\ Count(class_distribution(actual), pos) = c.tp + c.fn
            /\ Count(class_distribution(predicted), pos) = c.tp + c.fp
        BY <4>5, DistributionCounts
      <4>7. IsF1(s.f1, c.tp, c.fp, c.fn)
        <5>1. s.f1 = F1Of(c.tp, c.fp, c.fn) BY <4>4 DEF F1Of
        <5> QED BY <4>5, <5>1, F1Textbook
      <4>8. report' = [kind |-> "summary", summary |-> s,
                       actual |-> class_distribution(actual),
                       predicted |-> class_distribution(predicted), pos |-> pos]
        BY <2>2, <3>2 DEF evaluate_classification
      <4> HIDE DEF s
      <4> QED BY <4>4, <4>5, <4>6, <4>7, <4>8 DEF SummaryAgrees, IsF1
    <3> QED BY <2>2, <3>1, <3>2 DEF evaluate_classification
  <2> QED BY <2>1, <2>2 DEF ClassNext
<1> QED BY <1>1, <1>2, PTL DEF ClassSpec
=============================================================================
