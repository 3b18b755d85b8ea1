--------------------------- MODULE PipelineProofs ---------------------------
(***************************************************************************)
(* Proofs that the safety properties of Pipeline hold for every bound, any *)
(* number of workers and every set of files and events.                    *)
(***************************************************************************)
EXTENDS Pipeline, TLAPS

-----------------------------------------------------------------------------
(* Bags: what adding and removing one element does to the elements and to  *)
(* the number of their copies.                                             *)

LEMMA OneElement ==
    ASSUME NEW x
    PROVE  IsABag(One(x)) /\ BagToSet(One(x)) = {x} /\ One(x)[x] = 1
BY SMT DEF One, SetToBag, IsABag, BagToSet

LEMMA SumElements ==
    ASSUME NEW A, NEW B, IsABag(A), IsABag(B)
    PROVE  /\ IsABag(A (+) B)
           /\ BagToSet(A (+) B) = BagToSet(A) \cup BagToSet(B)
           /\ \A x \in BagToSet(A) : x \notin BagToSet(B) => (A (+) B)[x] = A[x]
           /\ \A x \in BagToSet(B) : x \notin BagToSet(A) => (A (+) B)[x] = B[x]
BY SMT DEF (+), IsABag, BagToSet

LEMMA DifferenceElements ==
    ASSUME NEW A, NEW B, IsABag(A), IsABag(B)
    PROVE  /\ IsABag(A (-) B)
           /\ BagToSet(A (-) B) \subseteq BagToSet(A)
           /\ \A x \in BagToSet(A (-) B) :
                 /\ (A (-) B)[x] <= A[x]
                 /\ x \in BagToSet(B) => A[x] > B[x]
BY SMT DEF (-), IsABag, BagToSet

LEMMA Counts ==
    ASSUME NEW A, IsABag(A), NEW x \in BagToSet(A)
    PROVE  A[x] \in Nat /\ A[x] > 0
BY SMT DEF IsABag, BagToSet

-----------------------------------------------------------------------------
(* Jobs: what the four ways of changing the bag of jobs leave in it.       *)

LEMMA WithoutElements ==
    ASSUME IsABag(jobs), NEW j
    PROVE  /\ IsABag(Without(j))
           /\ \A l \in BagToSet(Without(j)) : l \in Pending /\ Without(j)[l] <= jobs[l]
           /\ jobs[j] = 1 => j \notin BagToSet(Without(j))
<1>1. IsABag(One(j)) /\ BagToSet(One(j)) = {j} /\ One(j)[j] = 1
  BY OneElement
<1> HIDE DEF One
<1> QED BY <1>1, DifferenceElements DEF Without, Pending

LEMMA WithElements ==
    ASSUME NEW bag, IsABag(bag), NEW k
    PROVE  /\ IsABag(With(bag, k))
           /\ BagToSet(With(bag, k)) = BagToSet(bag) \cup {k}
           /\ \A l \in BagToSet(bag) : l # k => With(bag, k)[l] = bag[l]
           /\ k \notin BagToSet(bag) => With(bag, k)[k] = 1
BY OneElement, SumElements DEF With

LEMMA BecomeElements ==
    ASSUME IsABag(jobs), NEW j, NEW k
    PROVE  /\ IsABag(Become(j, k))
           /\ \A l \in BagToSet(Become(j, k)) :
                 l = k \/ (l \in Pending /\ Become(j, k)[l] <= jobs[l])
           /\ k \in BagToSet(Become(j, k))
           /\ jobs[j] = 1 /\ k \notin Pending =>
                 Become(j, k)[k] = 1 /\ (j # k => j \notin BagToSet(Become(j, k)))
<1>1. /\ IsABag(Without(j))
      /\ \A l \in BagToSet(Without(j)) : l \in Pending /\ Without(j)[l] <= jobs[l]
      /\ jobs[j] = 1 => j \notin BagToSet(Without(j))
  BY WithoutElements
<1> QED BY <1>1, WithElements DEF Become

LEMMA JobFields ==
    ASSUME NEW j \in Job
    PROVE  /\ j.stage \in Stages
           /\ j.pc \in Progress(j.stage)
           /\ j.rc \in 0..MaxRetries
           /\ j.saw \in Documents
BY DEF Job

LEMMA JobExtensionality ==
    ASSUME NEW s \in Stages, NEW pc \in Progress(s), NEW r \in 0..MaxRetries,
           NEW d \in Documents
    PROVE  [stage |-> s, pc |-> pc, rc |-> r, saw |-> d] \in Job
<1>1. pc \in UNION {Progress(t) : t \in Stages}
  OBVIOUS
<1> QED BY <1>1, SMT DEF Job

LEMMA AdvancedJob ==
    ASSUME NEW j \in Job, NEW pc \in Progress(j.stage)
    PROVE  /\ [j EXCEPT !.pc = pc] \in Job
           /\ [j EXCEPT !.pc = pc].stage = j.stage
           /\ [j EXCEPT !.pc = pc].pc = pc
<1> DEFINE k == [stage |-> j.stage, pc |-> pc, rc |-> j.rc, saw |-> j.saw]
<1>1. [j EXCEPT !.pc = pc] = k
  BY SMT DEF Job
<1>2. k \in Job
  BY JobFields, JobExtensionality
<1>3. k.stage = j.stage /\ k.pc = pc
  OBVIOUS
<1> QED BY <1>1, <1>2, <1>3

LEMMA WithRowJob ==
    ASSUME NEW j \in Job, NEW pc \in Progress(j.stage), NEW d \in Documents
    PROVE  /\ WithRow(j, pc, d) \in Job
           /\ WithRow(j, pc, d).stage = j.stage
           /\ WithRow(j, pc, d).pc = pc /\ WithRow(j, pc, d).saw = d
BY JobFields, JobExtensionality DEF WithRow

LEMMA NewDocumentType == NewDocument \in Documents
BY DEF NewDocument, Documents, Statuses

LEMMA MessageJob ==
    ASSUME NEW s \in Stages, NEW r \in 0..MaxRetries
    PROVE  /\ [Message(s) EXCEPT !.rc = r] =
                 [stage |-> s, pc |-> "queue", rc |-> r, saw |-> NewDocument]
           /\ [Message(s) EXCEPT !.rc = r] \in Job
<1>1. "queue" \in Progress(s)
  BY DEF Progress
<1>2. [Message(s) EXCEPT !.rc = r] =
         [stage |-> s, pc |-> "queue", rc |-> r, saw |-> NewDocument]
  BY DEF Message
<1> QED BY <1>1, <1>2, JobExtensionality, NewDocumentType

LEMMA FirstMessageJob ==
    ASSUME NEW s \in Stages
    PROVE  Message(s) \in Job /\ Message(s).pc = "queue" /\ Message(s).stage = s
<1>1. 0 \in 0..MaxRetries
  BY PipelineAssumption
<1>2. "queue" \in Progress(s)
  BY DEF Progress
<1> QED BY <1>1, <1>2, JobExtensionality, NewDocumentType DEF Message

LEMMA RequestJob ==
    ASSUME NEW pc \in {"load", "reset", "publish", "clean"}, NEW d \in Documents
    PROVE  /\ Request(pc, d) \in Job
           /\ Request(pc, d).pc = pc /\ Request(pc, d).stage = "api"
<1>1. 0 \in 0..MaxRetries
  BY PipelineAssumption
<1>2. "api" \in Stages /\ pc \in Progress("api")
  BY DEF Progress, Handling, Stages
<1> QED BY <1>1, <1>2, JobExtensionality DEF Request

-----------------------------------------------------------------------------
(* What the actions may add to the pending jobs.                           *)

LEMMA BecomeEffect ==
    ASSUME TypeOK, NEW j, NEW k \in Job, jobs' = Become(j, k)
    PROVE  /\ IsABag(jobs')
           /\ Pending' \subseteq Job
           /\ \A l \in Pending' : (l \in Pending /\ jobs'[l] <= jobs[l]) \/ l = k
<1>1. IsABag(jobs) /\ Pending \subseteq Job
  BY DEF TypeOK
<1>2. /\ IsABag(Become(j, k))
      /\ \A l \in BagToSet(Become(j, k)) :
            l = k \/ (l \in Pending /\ Become(j, k)[l] <= jobs[l])
  BY <1>1, BecomeElements
<1>3. Pending' = BagToSet(Become(j, k))
  BY DEF Pending
<1> QED BY <1>1, <1>2, <1>3

LEMMA RemoveEffect ==
    ASSUME TypeOK, NEW j, jobs' = Without(j)
    PROVE  /\ IsABag(jobs')
           /\ Pending' \subseteq Job
           /\ \A l \in Pending' : l \in Pending /\ jobs'[l] <= jobs[l]
<1>1. IsABag(jobs) /\ Pending \subseteq Job
  BY DEF TypeOK
<1>2. /\ IsABag(Without(j))
      /\ \A l \in BagToSet(Without(j)) : l \in Pending /\ Without(j)[l] <= jobs[l]
  BY <1>1, WithoutElements
<1> QED BY <1>1, <1>2 DEF Pending

LEMMA AddEffect ==
    ASSUME TypeOK, NEW k \in Job, jobs' = With(jobs, k)
    PROVE  /\ IsABag(jobs')
           /\ Pending' \subseteq Job
           /\ \A l \in Pending' : (l \in Pending /\ jobs'[l] <= jobs[l]) \/ l = k
<1>1. IsABag(jobs) /\ Pending \subseteq Job
  BY DEF TypeOK
<1>2. /\ IsABag(With(jobs, k))
      /\ BagToSet(With(jobs, k)) = Pending \cup {k}
      /\ \A l \in Pending : l # k => With(jobs, k)[l] = jobs[l]
  BY <1>1, WithElements DEF Pending
<1>3. \A l \in Pending : jobs[l] \in Nat
  BY <1>1, Counts DEF Pending
<1> QED BY <1>1, <1>2, <1>3 DEF Pending

LEMMA AdvanceEffect ==
    ASSUME TypeOK, NEW j \in Pending, NEW pc \in Progress(j.stage),
           jobs' = Advance(j, pc)
    PROVE  /\ IsABag(jobs')
           /\ Pending' \subseteq Job
           /\ \A l \in Pending' :
                 \/ l \in Pending /\ jobs'[l] <= jobs[l]
                 \/ l.stage = j.stage /\ l.pc = pc
<1> DEFINE k == [j EXCEPT !.pc = pc]
<1>1. k \in Job /\ k.stage = j.stage /\ k.pc = pc
  BY AdvancedJob DEF TypeOK
<1>2. jobs' = Become(j, k)
  BY DEF Advance
<1> HIDE DEF k
<1> QED BY <1>1, <1>2, BecomeEffect

LEMMA RequeueEffect ==
    ASSUME TypeOK, NEW j \in Pending, NEW r \in 0..MaxRetries,
           jobs' = Become(j, [Message(j.stage) EXCEPT !.rc = r])
    PROVE  /\ IsABag(jobs')
           /\ Pending' \subseteq Job
           /\ \A l \in Pending' :
                 \/ l \in Pending /\ jobs'[l] <= jobs[l]
                 \/ l.stage = j.stage /\ l.pc = "queue"
<1>1. j.stage \in Stages
  BY JobFields DEF TypeOK
<1> DEFINE k == [Message(j.stage) EXCEPT !.rc = r]
<1>2. k \in Job /\ k.stage = j.stage /\ k.pc = "queue"
  BY <1>1, MessageJob
<1>3. jobs' = Become(j, k)
  OBVIOUS
<1> HIDE DEF k
<1> QED BY <1>2, <1>3, BecomeEffect

LEMMA DispatchEffect ==
    ASSUME TypeOK, NEW j \in Pending, ParseDispatch(j)
    PROVE  /\ IsABag(jobs')
           /\ Pending' \subseteq Job
           /\ \A l \in Pending' :
                 \/ l \in Pending /\ jobs'[l] <= jobs[l]
                 \/ l.stage = "parse" /\ l.pc \in {"to_caption", "to_kg", "ack"}
                 \/ l.stage \in {"embed", "caption", "kg"} /\ l.pc = "queue"
<1>1. j \in Job /\ IsABag(jobs) /\ Pending \subseteq Job
  BY DEF TypeOK
<1> DEFINE pc == AfterDispatch(j.pc)
           m == Message(Target(j.pc))
           k == [j EXCEPT !.pc = pc]
<1>2. j.stage = "parse" /\ j.pc \in ToDispatch /\ pc \in {"to_caption", "to_kg", "ack"}
  BY DEF ParseDispatch, AfterDispatch, ToDispatch
<1>3. pc \in Progress(j.stage)
  BY <1>2 DEF Progress, Handling, ToDispatch
<1>4. k \in Job /\ k.stage = "parse" /\ k.pc = pc
  BY <1>1, <1>2, <1>3, AdvancedJob
<1>5. Target(j.pc) \in {"embed", "caption", "kg"}
  BY <1>2 DEF Target, ToDispatch
<1>6. m \in Job /\ m.pc = "queue" /\ m.stage \in {"embed", "caption", "kg"}
  BY <1>5, FirstMessageJob DEF Stages
<1>7. jobs' = With(Become(j, k), m)
  BY DEF ParseDispatch, Advance
<1> HIDE DEF pc, m, k
<1> DEFINE B == Become(j, k)
<1>8. /\ IsABag(B)
      /\ \A l \in BagToSet(B) : l = k \/ (l \in Pending /\ B[l] <= jobs[l])
  BY <1>1, BecomeElements
<1>9. jobs' = With(B, m)
  BY <1>7
<1> HIDE DEF B
<1>10. /\ IsABag(jobs')
       /\ BagToSet(jobs') = BagToSet(B) \cup {m}
       /\ \A l \in BagToSet(B) : l # m => jobs'[l] = B[l]
  BY <1>8, <1>9, WithElements
<1>11. \A l \in Pending' : l \in {k, m} \/ (l \in Pending /\ jobs'[l] <= jobs[l])
  BY <1>8, <1>10 DEF Pending
<1> QED BY <1>1, <1>2, <1>4, <1>6, <1>10, <1>11

-----------------------------------------------------------------------------
\* After a step the jobs are a bag of jobs, and a job of which there are more
\* copies than before is at one of these stages and points.
Adds(points) ==
    /\ IsABag(jobs')
    /\ Pending' \subseteq Job
    /\ \A l \in Pending' :
          \/ l \in Pending /\ jobs'[l] <= jobs[l]
          \/ <<l.stage, l.pc>> \in points

LEMMA AdvanceAdds ==
    ASSUME TypeOK, NEW j \in Pending, NEW pc \in Progress(j.stage),
           jobs' = Advance(j, pc)
    PROVE  Adds({<<j.stage, pc>>})
BY AdvanceEffect DEF Adds

\* What the handlers add.
LEMMA ParseAdds ==
    ASSUME TypeOK, NEW j \in Pending
    PROVE  /\ ParseStart(j) =>
                 /\ Adds({<<"parse", "parsing">>})
                 /\ \A l \in Pending' : l \in Pending \/ l.saw.raw = doc.raw
           /\ ParseStore(j) => Adds({<<"parse", "to_embed">>})
           /\ ParseFails(j) \/ DispatchFails(j) => Adds({<<"parse", "settle">>})
           /\ ParseDispatch(j) =>
                 Adds({<<"parse", "to_caption">>, <<"parse", "to_kg">>, <<"parse", "ack">>,
                       <<"embed", "queue">>, <<"caption", "queue">>, <<"kg", "queue">>})
<1>1. {"parsing", "to_embed", "settle"} \subseteq Progress("parse")
  BY DEF Progress, Handling, ToDispatch
<1>2. ASSUME ParseStart(j)
      PROVE  /\ Adds({<<"parse", "parsing">>})
             /\ \A l \in Pending' : l \in Pending \/ l.saw.raw = doc.raw
  <2> DEFINE d == [NewDocument EXCEPT !.raw = doc.raw]
             k == WithRow(j, "parsing", d)
  <2>1. d \in Documents /\ d.raw = doc.raw
    BY NewDocumentType DEF TypeOK, Documents
  <2> HIDE DEF d
  <2>2. k \in Job /\ k.stage = "parse" /\ k.pc = "parsing" /\ k.saw = d
    BY <1>1, <1>2, <2>1, WithRowJob DEF ParseStart, At, TypeOK
  <2>3. jobs' = Become(j, k)
    BY <1>2 DEF ParseStart, d
  <2> HIDE DEF k
  <2> QED BY <2>1, <2>2, <2>3, BecomeEffect DEF Adds
<1>3. ASSUME ParseStore(j) PROVE Adds({<<"parse", "to_embed">>})
  <2> DEFINE k == WithRow(j, "to_embed", NewDocument)
  <2>1. k \in Job /\ k.stage = "parse" /\ k.pc = "to_embed"
    BY <1>1, <1>3, NewDocumentType, WithRowJob DEF ParseStore, At, TypeOK
  <2>2. jobs' = Become(j, k)
    BY <1>3 DEF ParseStore
  <2> HIDE DEF k
  <2> QED BY <2>1, <2>2, BecomeEffect DEF Adds
<1>4. ASSUME ParseFails(j) \/ DispatchFails(j) PROVE Adds({<<"parse", "settle">>})
  BY <1>1, <1>4, AdvanceAdds DEF ParseFails, DispatchFails, Fail, At
<1>5. ASSUME ParseDispatch(j)
      PROVE  Adds({<<"parse", "to_caption">>, <<"parse", "to_kg">>, <<"parse", "ack">>,
                   <<"embed", "queue">>, <<"caption", "queue">>, <<"kg", "queue">>})
  BY <1>5, DispatchEffect DEF Adds
<1> QED BY <1>2, <1>3, <1>4, <1>5

LEMMA EmbedAdds ==
    ASSUME TypeOK, NEW j \in Pending
    PROVE  /\ EmbedTake(j) =>
                 Adds({<<"embed", IF doc.embed THEN "ack"
                                  ELSE IF doc.raw THEN "embedding" ELSE "empty">>})
           /\ EmbedVectors(j) => Adds({<<"embed", "embedded">>})
           /\ EmbedDone(j) => Adds({<<"embed", "finalize">>})
           /\ EmbedFails(j) => Adds({<<"embed", "settle">>})
<1>1. {"embedding", "embedded", "empty", "finalize", "ack", "settle"} \subseteq Progress("embed")
  BY DEF Progress, Handling
<1>2. ASSUME EmbedTake(j)
      PROVE  Adds({<<"embed", IF doc.embed THEN "ack"
                              ELSE IF doc.raw THEN "embedding" ELSE "empty">>})
  <2>1. CASE doc.embed
    BY <1>1, <1>2, <2>1, AdvanceAdds DEF EmbedTake, At
  <2>2. CASE ~doc.embed /\ doc.raw
    BY <1>1, <1>2, <2>2, AdvanceAdds DEF EmbedTake, At
  <2>3. CASE ~doc.embed /\ ~doc.raw
    BY <1>1, <1>2, <2>3, AdvanceAdds DEF EmbedTake, At
  <2> QED BY <2>1, <2>2, <2>3
<1>3. ASSUME EmbedVectors(j) PROVE Adds({<<"embed", "embedded">>})
  BY <1>1, <1>3, AdvanceAdds DEF EmbedVectors, At
<1>4. ASSUME EmbedDone(j) PROVE Adds({<<"embed", "finalize">>})
  BY <1>1, <1>4, AdvanceAdds DEF EmbedDone
<1>5. ASSUME EmbedFails(j) PROVE Adds({<<"embed", "settle">>})
  BY <1>1, <1>5, AdvanceAdds DEF EmbedFails, Fail
<1> QED BY <1>2, <1>3, <1>4, <1>5

LEMMA CaptionAdds ==
    ASSUME TypeOK, NEW j \in Pending
    PROVE  /\ CaptionTake(j) => Adds({<<"caption", "ack">>, <<"caption", "captioning">>,
                                      <<"caption", "captioned">>})
           /\ CaptionPoll(j) =>
                 Adds({<<"caption", IF doc.status # "failed" /\ doc.raw
                                    THEN "enriching" ELSE "captioned">>})
           /\ CaptionGivesUp(j) \/ CaptionVectors(j) => Adds({<<"caption", "captioned">>})
           /\ CaptionDone(j) => Adds({<<"caption", "finalize">>})
<1>1. {"captioning", "enriching", "captioned", "finalize", "ack"} \subseteq Progress("caption")
  BY DEF Progress, Handling
<1>2. ASSUME CaptionTake(j)
      PROVE  Adds({<<"caption", "ack">>, <<"caption", "captioning">>, <<"caption", "captioned">>})
  <2> DEFINE pc == IF doc.captions THEN "ack"
                   ELSE IF file.figures THEN "captioning" ELSE "captioned"
  <2>1. pc \in Progress(j.stage) /\ jobs' = Advance(j, pc) /\ j.stage = "caption"
    BY <1>1, <1>2 DEF CaptionTake, At
  <2>2. pc \in {"ack", "captioning", "captioned"}
    OBVIOUS
  <2> HIDE DEF pc
  <2>3. Adds({<<j.stage, pc>>})
    BY <2>1, AdvanceAdds
  <2> QED BY <2>1, <2>2, <2>3 DEF Adds
<1>3. ASSUME CaptionPoll(j)
      PROVE  Adds({<<"caption", IF doc.status # "failed" /\ doc.raw
                                THEN "enriching" ELSE "captioned">>})
  <2> DEFINE pc == IF doc.status # "failed" /\ doc.raw THEN "enriching" ELSE "captioned"
  <2>1. pc \in Progress(j.stage) /\ jobs' = Advance(j, pc) /\ j.stage = "caption"
    BY <1>1, <1>3 DEF CaptionPoll, At
  <2> HIDE DEF pc
  <2>2. Adds({<<"caption", pc>>})
    BY <2>1, AdvanceAdds
  <2> QED BY <2>2 DEF pc
<1>4. ASSUME CaptionGivesUp(j) \/ CaptionVectors(j) PROVE Adds({<<"caption", "captioned">>})
  BY <1>1, <1>4, AdvanceAdds DEF CaptionGivesUp, CaptionVectors, At
<1>5. ASSUME CaptionDone(j) PROVE Adds({<<"caption", "finalize">>})
  BY <1>1, <1>5, AdvanceAdds DEF CaptionDone, At
<1> QED BY <1>2, <1>3, <1>4, <1>5

LEMMA KgAdds ==
    ASSUME TypeOK, NEW j \in Pending
    PROVE  /\ KgTake(j) => Adds({<<"kg", "ack">>, <<"kg", "building">>})
           /\ KgDone(j) => Adds({<<"kg", "finalize">>})
<1>1. {"building", "finalize", "ack"} \subseteq Progress("kg")
  BY DEF Progress, Handling
<1>2. ASSUME KgTake(j) PROVE Adds({<<"kg", "ack">>, <<"kg", "building">>})
  <2>1. CASE doc.kg
    <3>1. Adds({<<"kg", "ack">>})
      BY <1>1, <1>2, <2>1, AdvanceAdds DEF KgTake, At
    <3> QED BY <3>1 DEF Adds
  <2>2. CASE ~doc.kg
    <3>1. Adds({<<"kg", "building">>})
      BY <1>1, <1>2, <2>2, AdvanceAdds DEF KgTake, At
    <3> QED BY <3>1 DEF Adds
  <2> QED BY <2>1, <2>2
<1>3. ASSUME KgDone(j) PROVE Adds({<<"kg", "finalize">>})
  BY <1>1, <1>3, AdvanceAdds DEF KgDone, At
<1> QED BY <1>2, <1>3

\* What the consume loop adds.
LEMMA LoopAdds ==
    ASSUME TypeOK, NEW j \in Pending
    PROVE  /\ Finalize(j) => Adds({<<j.stage, "ack">>})
           /\ Ack(j) \/ Lose(j) => Adds({})
           /\ Settle(j) => Adds({<<j.stage, "queue">>})
           /\ Crash(j) => Adds({<<j.stage, "queue">>}) /\ (j.stage = "api" => Adds({}))
           /\ Timeout(j) => Adds({<<j.stage, "settle">>, <<"parse", "rollback">>,
                                  <<"kg", "rollback">>})
           /\ Rollback(j) => Adds({<<j.stage, "settle">>, <<"kg", "finalize">>})
<1>1. j \in Job /\ j.stage \in Stages /\ j.rc \in 0..MaxRetries
  BY JobFields DEF TypeOK
<1>2. {"ack", "settle", "rollback"} \subseteq Progress(j.stage)
  BY DEF Progress
<1>3. ASSUME jobs' = Without(j) PROVE Adds({})
  BY <1>3, RemoveEffect DEF Adds
<1>4. ASSUME NEW r \in 0..MaxRetries, jobs' = Become(j, [Message(j.stage) EXCEPT !.rc = r])
      PROVE  Adds({<<j.stage, "queue">>})
  BY <1>4, RequeueEffect DEF Adds
<1>5. ASSUME Adds({}), NEW S PROVE Adds(S)
  BY <1>5 DEF Adds
<1>6. ASSUME Finalize(j) PROVE Adds({<<j.stage, "ack">>})
  BY <1>2, <1>6, AdvanceAdds DEF Finalize
<1>7. ASSUME Ack(j) \/ Lose(j) PROVE Adds({})
  BY <1>3, <1>7 DEF Ack, Lose
<1>8. ASSUME Settle(j) PROVE Adds({<<j.stage, "queue">>})
  <2>1. CASE j.rc < MaxRetries
    <3>1. j.rc + 1 \in 0..MaxRetries
      BY <1>1, <2>1, PipelineAssumption
    <3> QED BY <1>4, <1>8, <2>1, <3>1 DEF Settle
  <2>2. CASE ~(j.rc < MaxRetries)
    BY <1>3, <1>5, <1>8, <2>2 DEF Settle
  <2> QED BY <2>1, <2>2
<1>9. ASSUME Crash(j)
      PROVE  Adds({<<j.stage, "queue">>}) /\ (j.stage = "api" => Adds({}))
  <2>1. CASE j.stage = "api"
    BY <1>3, <1>5, <1>9, <2>1 DEF Crash
  <2>2. CASE j.stage # "api"
    BY <1>1, <1>4, <1>9, <2>2 DEF Crash
  <2> QED BY <2>1, <2>2
<1>10. ASSUME Timeout(j)
       PROVE  Adds({<<j.stage, "settle">>, <<"parse", "rollback">>, <<"kg", "rollback">>})
  <2>1. CASE j.stage \in {"parse", "kg"}
    <3> DEFINE k == WithRow(j, "rollback", doc)
    <3>1. k \in Job /\ k.stage = j.stage /\ k.pc = "rollback"
      BY <1>1, <1>2, WithRowJob DEF TypeOK
    <3>3. jobs' = Become(j, k)
      BY <1>10, <2>1 DEF Timeout
    <3> HIDE DEF k
    <3> QED BY <2>1, <3>1, <3>3, BecomeEffect DEF Adds
  <2>2. CASE j.stage \notin {"parse", "kg"}
    <3>1. Adds({<<j.stage, "settle">>})
      BY <1>2, <1>10, <2>2, AdvanceAdds DEF Timeout
    <3> QED BY <3>1 DEF Adds
  <2> QED BY <2>1, <2>2
<1>11. ASSUME Rollback(j) PROVE Adds({<<j.stage, "settle">>, <<"kg", "finalize">>})
  <2> DEFINE last == /\ j.stage = "kg" /\ j.rc = MaxRetries
                     /\ j.saw.status \in InProgress
  <2>1. CASE last
    <3>1. j.stage = "kg" /\ "finalize" \in Progress(j.stage)
      BY <2>1 DEF Progress, Handling
    <3>2. jobs' = Advance(j, "finalize")
      BY <1>11, <2>1 DEF Rollback
    <3>3. Adds({<<j.stage, "finalize">>})
      BY <3>1, <3>2, AdvanceAdds
    <3> QED BY <3>1, <3>3 DEF Adds
  <2>2. CASE ~last
    <3>1. jobs' = Advance(j, "settle")
      BY <1>11, <2>2 DEF Rollback
    <3>2. Adds({<<j.stage, "settle">>})
      BY <1>2, <3>1, AdvanceAdds
    <3> QED BY <3>2 DEF Adds
  <2> QED BY <2>1, <2>2
<1> QED BY <1>6, <1>7, <1>8, <1>9, <1>10, <1>11

\* What the API adds.
LEMMA ApiAdds ==
    ASSUME TypeOK
    PROVE  /\ Duplicate => Adds({<<"parse", "queue">>})
           /\ Reprocess => Adds({<<"api", "reset">>})
           /\ Reindex => Adds({<<"api", "reset">>})
           /\ ReindexWorkspace => Adds({<<"api", "load">>})
           /\ Cancel => Adds({<<"api", "clean">>})
           /\ \A j \in Pending :
                 /\ Load(j) => Adds({<<"api", "reset">>})
                 /\ ResetRow(j) => Adds({<<"api", "publish">>})
                 /\ PublishParse(j) => Adds({<<"parse", "queue">>})
                 /\ CleanUp(j) => Adds({})
<1>1. doc \in Documents /\ NewDocument \in Documents
  BY NewDocumentType DEF TypeOK
<1>2. ASSUME NEW k \in Job, jobs' = With(jobs, k) \/ \E j : jobs' = Become(j, k)
      PROVE  Adds({<<k.stage, k.pc>>})
  BY <1>2, AddEffect, BecomeEffect DEF Adds
<1>3. ASSUME NEW pc \in {"load", "reset", "publish", "clean"}, NEW d \in Documents,
             \/ jobs' = With(jobs, Request(pc, d))
             \/ \E j : jobs' = Become(j, Request(pc, d))
      PROVE  Adds({<<"api", pc>>})
  BY <1>2, <1>3, RequestJob
<1>4. ASSUME \/ jobs' = With(jobs, Message("parse"))
             \/ \E j : jobs' = Become(j, Message("parse"))
      PROVE  Adds({<<"parse", "queue">>})
  BY <1>2, <1>4, FirstMessageJob DEF Stages
<1>5. Duplicate => Adds({<<"parse", "queue">>})
  BY <1>4 DEF Duplicate
<1>6. Reprocess => Adds({<<"api", "reset">>})
  BY <1>1, <1>3 DEF Reprocess
<1>7. Reindex => Adds({<<"api", "reset">>})
  BY <1>1, <1>3 DEF Reindex
<1>8. ReindexWorkspace => Adds({<<"api", "load">>})
  BY <1>1, <1>3 DEF ReindexWorkspace
<1>9. Cancel => Adds({<<"api", "clean">>})
  BY <1>1, <1>3 DEF Cancel
<1>10. ASSUME NEW j \in Pending
       PROVE  /\ Load(j) => Adds({<<"api", "reset">>})
              /\ ResetRow(j) => Adds({<<"api", "publish">>})
              /\ PublishParse(j) => Adds({<<"parse", "queue">>})
              /\ CleanUp(j) => Adds({})
  <2>1. Load(j) => Adds({<<"api", "reset">>})
    BY <1>1, <1>3 DEF Load
  <2>2. ResetRow(j) => Adds({<<"api", "publish">>})
    BY <1>1, <1>3 DEF ResetRow
  <2>3. PublishParse(j) => Adds({<<"parse", "queue">>})
    BY <1>4 DEF PublishParse
  <2>4. CleanUp(j) => Adds({})
    BY RemoveEffect DEF CleanUp, Adds
  <2> QED BY <2>1, <2>2, <2>3, <2>4
<1> QED BY <1>5, <1>6, <1>7, <1>8, <1>9, <1>10

-----------------------------------------------------------------------------
(* Rows: what the handlers and requests write are rows.                    *)

LEMMA CommitIsDocument ==
    ASSUME doc \in Documents, NEW seen \in Documents, NEW new \in Documents
    PROVE  /\ Commit(seen, new) \in Documents
           /\ Commit(seen, new).status = IF new.status # seen.status THEN new.status ELSE doc.status
           /\ Commit(seen, new).embed = IF new.embed # seen.embed THEN new.embed ELSE doc.embed
           /\ Commit(seen, new).captions =
                 IF new.captions # seen.captions THEN new.captions ELSE doc.captions
           /\ Commit(seen, new).kg = IF new.kg # seen.kg THEN new.kg ELSE doc.kg
           /\ Commit(seen, new).raw = IF new.raw # seen.raw THEN new.raw ELSE doc.raw
BY DEF Commit, Documents

LEMMA ResetIsDocument ==
    ASSUME NEW d \in Documents
    PROVE  /\ Reset(d) \in Documents
           /\ Reset(d).status = "pending" /\ Reset(d).raw = d.raw
           /\ ~Reset(d).embed /\ ~Reset(d).captions /\ ~Reset(d).kg
BY DEF Reset, Documents, Statuses

LEMMA RolledBackIsDocument ==
    ASSUME NEW j \in Job, j.stage \in {"parse", "kg"}
    PROVE  /\ RolledBack(j) \in Documents
           /\ RolledBack(j).embed = j.saw.embed
           /\ RolledBack(j).captions = j.saw.captions
           /\ RolledBack(j).raw = j.saw.raw
           /\ RolledBack(j).status # j.saw.status =>
                 RolledBack(j).status \in {"pending", "failed", "building_kg"}
<1>1. j.saw \in Documents
  BY JobFields
<1>2. CASE j.saw.status \in {"pending", "indexed", "failed"}
  BY <1>1, <1>2 DEF RolledBack, InProgress
<1>3. CASE j.stage = "parse" /\ j.saw.status \in InProgress
  BY <1>1, <1>3 DEF RolledBack, InProgress, Documents, Statuses
<1>4. CASE j.stage = "kg" /\ j.saw.status \in InProgress
  BY <1>1, <1>4 DEF RolledBack, InProgress, Documents, Statuses
<1> QED BY <1>1, <1>2, <1>3, <1>4 DEF Documents, Statuses, InProgress

LEMMA FinalizedIsDocument ==
    ASSUME NEW d \in Documents
    PROVE  Finalized(d) \in Documents
BY DEF Finalized, Documents, Statuses

-----------------------------------------------------------------------------
(* Type correctness.                                                       *)

LEMMA EventsGrow ==
    ASSUME NEW e, Occurs(e)
    PROVE  happened' = happened \cup {e} /\ e \in Events
BY DEF Occurs

LEMMA InitTypeOK == Init => TypeOK
<1> SUFFICES ASSUME Init PROVE TypeOK
  OBVIOUS
<1>1. file \in Files /\ doc \in Documents /\ happened \subseteq Events
  BY NewDocumentType DEF Init
<1>2. vectors \in [Chunks -> VectorStates]
  BY DEF Init, VectorStates
<1>3. IsABag(jobs) /\ Pending = {Message("parse")}
  BY OneElement DEF Init, Pending
<1>4. Pending \subseteq Job
  BY <1>3, FirstMessageJob DEF Stages
<1> QED BY <1>1, <1>2, <1>3, <1>4 DEF TypeOK

LEMMA NextTypeOK == TypeOK /\ [Next]_vars => TypeOK'
<1> SUFFICES ASSUME TypeOK, [Next]_vars PROVE TypeOK'
  OBVIOUS
<1> USE DEF TypeOK
<1>1. ASSUME NEW j \in Pending, ParseStep(j) \/ DispatchFails(j) PROVE TypeOK'
  <2>1. IsABag(jobs') /\ Pending' \subseteq Job
    BY <1>1, ParseAdds DEF ParseStep, Adds
  <2>2. doc' \in Documents
    <3>1. CASE ParseStore(j)
      <4>1. PICK raw \in {TRUE} \cup (IF j.saw.raw THEN {doc.raw} ELSE {}) :
               doc' = [doc EXCEPT !.status = "chunking", !.raw = raw]
        BY <3>1 DEF ParseStore
      <4>2. raw \in BOOLEAN
        BY DEF Documents
      <4> QED BY <4>1, <4>2 DEF Documents, Statuses
    <3>2. CASE \/ ParseStart(j) \/ ParseDispatch(j) \/ ParseFails(j)
              \/ DispatchFails(j)
      BY <3>2 DEF ParseStart, ParseDispatch, ParseFails, DispatchFails, Fail,
                  Documents, Statuses
    <3> QED BY <1>1, <3>1, <3>2 DEF ParseStep
  <2>3. CASE ParseStep(j)
    <3>1. UNCHANGED <<file, vectors, happened>>
      BY <2>3 DEF ParseStep, ParseStart, ParseStore, ParseDispatch, ParseFails, Fail
    <3> QED BY <2>1, <2>2, <3>1
  <2>4. CASE DispatchFails(j)
    <3>1. UNCHANGED <<file, vectors>> /\ happened' \subseteq Events
      BY <2>4, EventsGrow DEF DispatchFails, Fail
    <3> QED BY <2>1, <2>2, <3>1
  <2> QED BY <1>1, <2>3, <2>4
<1>2. ASSUME NEW j \in Pending, EmbedStep(j) PROVE TypeOK'
  <2>1. IsABag(jobs') /\ Pending' \subseteq Job
    BY <1>2, EmbedAdds DEF EmbedStep, Adds
  <2>2. doc' \in Documents
    <3>1. CASE EmbedTake(j) \/ EmbedFails(j) \/ EmbedVectors(j)
      BY <3>1 DEF EmbedTake, EmbedFails, EmbedVectors, Fail, Documents, Statuses
    <3>2. CASE EmbedDone(j)
      <4>1. file.chat \in BOOLEAN
        BY PipelineAssumption DEF FileKinds
      <4> QED BY <3>2, <4>1 DEF EmbedDone, Documents
    <3> QED BY <1>2, <3>1, <3>2 DEF EmbedStep
  <2>3. vectors' \in [Chunks -> VectorStates]
    BY <1>2 DEF EmbedStep, EmbedTake, EmbedVectors, EmbedDone, EmbedFails, Fail, VectorStates
  <2>4. UNCHANGED <<file, happened>>
    BY <1>2 DEF EmbedStep, EmbedTake, EmbedVectors, EmbedDone, EmbedFails, Fail
  <2> QED BY <2>1, <2>2, <2>3, <2>4
<1>3. ASSUME NEW j \in Pending, CaptionStep(j) PROVE TypeOK'
  <2>1. IsABag(jobs') /\ Pending' \subseteq Job
    BY <1>3, CaptionAdds DEF CaptionStep, Adds
  <2>2. doc' \in Documents
    BY <1>3 DEF CaptionStep, CaptionTake, CaptionPoll, CaptionGivesUp,
                CaptionVectors, CaptionDone, Documents
  <2>3. vectors' \in [Chunks -> VectorStates]
    BY <1>3 DEF CaptionStep, CaptionTake, CaptionPoll, CaptionGivesUp,
                CaptionVectors, CaptionDone, VectorStates
  <2>4. UNCHANGED <<file, happened>>
    BY <1>3 DEF CaptionStep, CaptionTake, CaptionPoll, CaptionGivesUp,
                CaptionVectors, CaptionDone
  <2> QED BY <2>1, <2>2, <2>3, <2>4
<1>4. ASSUME NEW j \in Pending, KgStep(j) PROVE TypeOK'
  <2>1. IsABag(jobs') /\ Pending' \subseteq Job
    BY <1>4, KgAdds DEF KgStep, Adds
  <2>2. doc' \in Documents
    BY <1>4 DEF KgStep, KgTake, KgDone, Documents
  <2> QED BY <1>4, <2>1, <2>2 DEF KgStep, KgTake, KgDone
<1>5. ASSUME NEW j \in Pending, Finalize(j) \/ Ack(j) \/ Settle(j) PROVE TypeOK'
  <2>1. IsABag(jobs') /\ Pending' \subseteq Job
    BY <1>5, LoopAdds DEF Adds
  <2>2. doc' \in Documents
    BY <1>5, FinalizedIsDocument DEF Finalize, Ack, Settle
  <2> QED BY <1>5, <2>1, <2>2 DEF Finalize, Ack, Settle
<1>6. ASSUME NEW j \in Pending, Rollback(j) PROVE TypeOK'
  <2>1. IsABag(jobs') /\ Pending' \subseteq Job
    BY <1>6, LoopAdds DEF Adds
  <2>2. j \in Job /\ j.saw \in Documents /\ j.stage \in {"parse", "kg"}
    BY <1>6, JobFields DEF Rollback
  <2>3. doc' \in Documents
    BY <1>6, <2>2, CommitIsDocument, RolledBackIsDocument DEF Rollback
  <2> QED BY <1>6, <2>1, <2>3 DEF Rollback
<1>7. ASSUME NEW j \in Pending, Timeout(j) \/ Crash(j) \/ Lose(j) PROVE TypeOK'
  <2>1. IsABag(jobs') /\ Pending' \subseteq Job
    BY <1>7, LoopAdds DEF Adds
  <2>2. UNCHANGED <<file, doc, vectors>> /\ happened' \subseteq Events
    BY <1>7, EventsGrow DEF Timeout, Crash, Lose
  <2> QED BY <2>1, <2>2
<1>8. ASSUME NEW j \in Pending, ApiStep(j) PROVE TypeOK'
  <2>1. IsABag(jobs') /\ Pending' \subseteq Job
    BY <1>8, ApiAdds DEF ApiStep, Adds
  <2>2. j.saw \in Documents
    BY JobFields
  <2>3. doc' \in Documents
    BY <1>8, <2>2, CommitIsDocument, ResetIsDocument
       DEF ApiStep, Load, ResetRow, PublishParse, CleanUp
  <2>4. vectors' \in [Chunks -> VectorStates]
    BY <1>8 DEF ApiStep, Load, ResetRow, PublishParse, CleanUp, Deleted, VectorStates
  <2> QED BY <1>8, <2>1, <2>3, <2>4 DEF ApiStep, Load, ResetRow, PublishParse, CleanUp
<1>9. ASSUME Duplicate \/ ApiRequest PROVE TypeOK'
  <2>1. IsABag(jobs') /\ Pending' \subseteq Job
    BY <1>9, ApiAdds DEF ApiRequest, Adds
  <2>2. doc' \in Documents
    <3>1. CASE Cancel
      BY <3>1, ResetIsDocument DEF Cancel, Documents, Statuses
    <3>2. CASE Duplicate \/ Reprocess \/ Reindex \/ ReindexWorkspace
      BY <3>2, ResetIsDocument DEF Duplicate, Reprocess, Reindex, ReindexWorkspace
    <3> QED BY <1>9, <3>1, <3>2 DEF ApiRequest
  <2>3. vectors' \in [Chunks -> VectorStates]
    BY <1>9 DEF Duplicate, ApiRequest, Reprocess, Reindex, ReindexWorkspace, Cancel,
                Deleted, VectorStates
  <2>4. UNCHANGED file /\ happened' \subseteq Events
    BY <1>9, EventsGrow DEF Duplicate, ApiRequest, Reprocess, Reindex,
                            ReindexWorkspace, Cancel
  <2> QED BY <2>1, <2>2, <2>3, <2>4
<1>10. ASSUME UNCHANGED vars PROVE TypeOK'
  BY <1>10 DEF vars, Pending
<1> QED BY <1>1, <1>2, <1>3, <1>4, <1>5, <1>6, <1>7, <1>8, <1>9, <1>10
        DEF Next, Step, Fault

\* Rows, vectors and jobs are always of their types: in particular a job is only
\* ever at a point its own handler can reach (the handlers of backend/app/workers).
THEOREM PipelineTypeOK == Spec => []TypeOK
<1> QED BY InitTypeOK, NextTypeOK, PTL DEF Spec

-----------------------------------------------------------------------------
(* Chunks: who rests on them, and when they are there.                     *)

LEMMA EventsStay == [Next]_vars => happened \subseteq happened' /\ UNCHANGED file
<1>1. ASSUME NEW j \in Pending, Step(j) PROVE UNCHANGED <<happened, file>>
  BY <1>1, Zenon DEF Step, ParseStep, ParseStart, ParseStore, ParseDispatch, ParseFails,
     EmbedStep, EmbedTake, EmbedVectors, EmbedDone, EmbedFails, Fail,
     CaptionStep, CaptionTake, CaptionPoll, CaptionGivesUp, CaptionVectors, CaptionDone,
     KgStep, KgTake, KgDone, ApiStep, Load, ResetRow, PublishParse, CleanUp,
     Finalize, Ack, Settle, Rollback
<1>2. ASSUME NEW j \in Pending, Fault(j)
      PROVE  happened \subseteq happened' /\ UNCHANGED file
  BY <1>2, EventsGrow DEF Fault, DispatchFails, Fail, Timeout, Crash, Lose
<1>3. ASSUME Duplicate \/ ApiRequest
      PROVE  happened \subseteq happened' /\ UNCHANGED file
  BY <1>3, EventsGrow DEF Duplicate, ApiRequest, Reprocess, Reindex, ReindexWorkspace, Cancel
<1> QED BY <1>1, <1>2, <1>3 DEF Next, vars

\* A worker's step adds no request of the API.
LEMMA WorkersAddNoRequest ==
    ASSUME TypeOK, NEW j \in Pending, Step(j) \/ Fault(j), j.stage # "api",
           NEW l \in Pending', l.stage = "api"
    PROVE  l \in Pending /\ jobs'[l] <= jobs[l]
<1>1. CASE ParseStep(j) \/ DispatchFails(j)
  BY <1>1, ParseAdds DEF ParseStep, Adds
<1>2. CASE EmbedStep(j)
  BY <1>2, EmbedAdds DEF EmbedStep, Adds
<1>3. CASE CaptionStep(j)
  BY <1>3, CaptionAdds DEF CaptionStep, Adds
<1>4. CASE KgStep(j)
  BY <1>4, KgAdds DEF KgStep, Adds
<1>5. CASE Finalize(j) \/ Ack(j) \/ Settle(j) \/ Rollback(j) \/ Timeout(j) \/ Crash(j) \/ Lose(j)
  BY <1>5, LoopAdds DEF Adds
<1>6. ~ApiStep(j)
  BY DEF ApiStep, Load, ResetRow, PublishParse, CleanUp, At
<1> QED BY <1>1, <1>2, <1>3, <1>4, <1>5, <1>6 DEF Step, Fault

\* A job that rests on the chunks comes from one that did, or finds them there.
LEMMA RestersArise ==
    ASSUME TypeOK, NEW j \in Pending, Step(j) \/ Fault(j),
           NEW l \in Pending', l \notin Pending, RestsOnChunks(l)
    PROVE  RestsOnChunks(j) \/ doc.raw \/ doc'.raw
<1> USE DEF RestsOnChunks, ToDispatch, At
<1>1. CASE ParseStart(j)
  BY <1>1, ParseAdds DEF Adds
<1>2. CASE ParseStore(j)
  <2>1. CASE j.saw.raw
    BY <1>2, <2>1 DEF ParseStore
  <2>2. CASE ~j.saw.raw
    <3>1. doc' = [doc EXCEPT !.status = "chunking", !.raw = TRUE]
      BY <1>2, <2>2 DEF ParseStore
    <3> QED BY <3>1 DEF TypeOK, Documents
  <2> QED BY <2>1, <2>2
<1>3. CASE ParseDispatch(j)
  BY <1>3 DEF ParseDispatch
<1>4. CASE ParseFails(j) \/ DispatchFails(j)
  BY <1>4, ParseAdds DEF Adds
<1>5. CASE EmbedStep(j)
  BY <1>5 DEF EmbedStep, EmbedTake, EmbedVectors, EmbedDone, EmbedFails
<1>6. CASE CaptionStep(j)
  BY <1>6, CaptionAdds DEF CaptionStep, Adds
<1>7. CASE KgStep(j)
  BY <1>7, KgAdds DEF KgStep, Adds
<1>8. CASE ApiStep(j)
  BY <1>8, ApiAdds DEF ApiStep, Adds
<1>9. CASE Finalize(j) \/ Ack(j) \/ Settle(j) \/ Rollback(j) \/ Timeout(j) \/ Crash(j) \/ Lose(j)
  <2>1. l.stage = j.stage \/ l.stage # "embed"
    BY <1>9, LoopAdds DEF Adds
  <2>2. l.pc \in {"ack", "queue", "settle", "rollback", "finalize"}
    BY <1>9, LoopAdds DEF Adds
  <2> QED BY <2>1, <2>2
<1> QED BY <1>1, <1>2, <1>3, <1>4, <1>5, <1>6, <1>7, <1>8, <1>9 DEF Step, Fault, ParseStep

\* What a step of a worker does to the two columns that tell whether there is
\* anything to search: chunks only go where embed_done is set, and stay set.
LEMMA ColumnsKept ==
    ASSUME TypeOK, NEW j \in Pending, Step(j) \/ Fault(j), ~ApiStep(j)
    PROVE  /\ doc.embed => doc'.embed
           /\ doc.raw => \/ doc'.raw
                         \/ doc.embed /\ doc'.embed
                         \/ j.pc = "embedded" /\ doc'.embed
<1> USE DEF TypeOK
<1>1. CASE ParseStore(j)
  <2>1. PICK raw \in {TRUE} \cup (IF j.saw.raw THEN {doc.raw} ELSE {}) :
           doc' = [doc EXCEPT !.status = "chunking", !.raw = raw]
    BY <1>1, Zenon DEF ParseStore
  <2> QED BY <2>1 DEF Documents
<1>2. CASE EmbedDone(j)
  BY <1>2 DEF EmbedDone, Documents
<1>3. CASE Finalize(j)
  BY <1>3 DEF Finalize, Finalized, Documents
<1>4. CASE Rollback(j)
  <2>1. j \in Job /\ j.saw \in Documents /\ j.stage \in {"parse", "kg"}
    BY <1>4, JobFields DEF Rollback
  <2>2. doc'.embed = doc.embed /\ doc'.raw = doc.raw
    BY <1>4, <2>1, CommitIsDocument, RolledBackIsDocument DEF Rollback
  <2> QED BY <2>2
<1>5. CASE \/ ParseStart(j) \/ ParseDispatch(j) \/ ParseFails(j) \/ DispatchFails(j)
           \/ EmbedTake(j) \/ EmbedVectors(j) \/ EmbedFails(j)
           \/ CaptionStep(j) \/ KgStep(j)
           \/ Ack(j) \/ Settle(j) \/ Timeout(j) \/ Crash(j) \/ Lose(j)
  <2>1. doc'.embed = doc.embed /\ doc'.raw = doc.raw
    BY <1>5 DEF ParseStart, ParseDispatch, ParseFails, DispatchFails, Fail,
       EmbedTake, EmbedVectors, EmbedFails, CaptionStep, CaptionTake, CaptionPoll,
       CaptionGivesUp, CaptionVectors, CaptionDone, KgStep, KgTake, KgDone,
       Ack, Settle, Timeout, Crash, Lose, Documents
  <2> QED BY <2>1
<1> QED BY <1>1, <1>2, <1>3, <1>4, <1>5 DEF Step, Fault, ParseStep, EmbedStep

\* Only what the API does with a document makes it rest on anything anew.
LEMMA NoRestersFromOutside ==
    ASSUME TypeOK, Duplicate \/ ApiRequest, NEW l \in Pending', l \notin Pending
    PROVE  ~RestsOnChunks(l) /\ (l.stage = "api" => ApiRequest)
BY ApiAdds DEF ApiRequest, Adds, RestsOnChunks, ToDispatch, At

LEMMA ChunksKeptInductive == TypeOK /\ ChunksKept /\ [Next]_vars => ChunksKept'
<1> SUFFICES ASSUME TypeOK, ChunksKept, [Next]_vars, Spared(Requests)',
                    NEW l \in Pending'
             PROVE  /\ l.stage # "api"
                    /\ RestsOnChunks(l) => doc'.raw \/ doc'.embed
  BY DEF ChunksKept
<1>1. /\ Spared(Requests)
      /\ \A k \in Pending : k.stage # "api" /\ (RestsOnChunks(k) => doc.raw \/ doc.embed)
  BY EventsStay DEF Spared, ChunksKept
<1>2. ~ApiRequest
  BY EventsGrow DEF ApiRequest, Reprocess, Reindex, ReindexWorkspace, Cancel, Spared, Requests
<1>3. ASSUME NEW j \in Pending, Step(j) \/ Fault(j)
      PROVE  /\ l.stage # "api"
             /\ RestsOnChunks(l) => doc'.raw \/ doc'.embed
  <2>1. j.stage # "api" /\ ~ApiStep(j)
    BY <1>1, <1>3 DEF ApiStep, Load, ResetRow, PublishParse, CleanUp, At
  <2>2. doc.raw \/ doc.embed => doc'.raw \/ doc'.embed
    BY <1>3, <2>1, ColumnsKept
  <2>3. CASE l \in Pending
    BY <1>1, <2>2, <2>3
  <2>4. CASE l \notin Pending
    <3>1. RestsOnChunks(l) => doc'.raw \/ doc'.embed
      BY <1>1, <1>3, <2>2, <2>4, RestersArise
    <3>2. l.stage # "api"
      BY <1>3, <2>1, <2>4, WorkersAddNoRequest
    <3> QED BY <3>1, <3>2
  <2> QED BY <2>3, <2>4
<1>4. CASE Duplicate
  <2>1. UNCHANGED doc
    BY <1>4 DEF Duplicate
  <2> QED BY <1>1, <1>2, <1>4, <2>1, NoRestersFromOutside
<1>5. CASE UNCHANGED vars
  BY <1>1, <1>5 DEF vars, Pending
<1> QED BY <1>2, <1>3, <1>4, <1>5 DEF Next

\* No embedding of the current run finds its chunks gone (workers/utils.py:72-74),
\* whatever is redelivered, retried or published twice.
THEOREM ChunksAreKept == Spec => []ChunksKeptForEmbed
<1>1. Init => ChunksKept
  BY OneElement DEF Init, ChunksKept, Pending, Message, RestsOnChunks, ToDispatch, At
<1>2. ChunksKept => ChunksKeptForEmbed
  BY DEF ChunksKept, ChunksKeptForEmbed, RestsOnChunks, At
<1> QED BY <1>1, <1>2, ChunksKeptInductive, PipelineTypeOK, PTL DEF Spec

-----------------------------------------------------------------------------
(* Vectors: what claims them, and when they are there.                     *)

\* Only a worker that has embedded the document, or found nothing to embed, sets
\* embed_done, and only a document with embed_done becomes INDEXED.
LEMMA ClaimsArise ==
    ASSUME TypeOK, NEW j \in Pending, Step(j) \/ Fault(j),
           doc'.embed \/ doc'.status = "indexed"
    PROVE  doc.embed \/ doc.status = "indexed" \/ j.pc \in {"embedded", "empty"}
<1> USE DEF TypeOK
<1>1. CASE ParseStore(j)
  <2>1. doc'.embed = doc.embed /\ doc'.status = "chunking"
    BY <1>1 DEF ParseStore, Documents
  <2> QED BY <2>1
<1>2. CASE EmbedDone(j)
  BY <1>2 DEF EmbedDone
<1>3. CASE Finalize(j)
  BY <1>3 DEF Finalize, Finalized, Documents
<1>4. CASE Rollback(j)
  <2>1. j \in Job /\ j.saw \in Documents /\ j.stage \in {"parse", "kg"}
    BY <1>4, JobFields DEF Rollback
  <2>2. doc' = Commit(j.saw, RolledBack(j))
    BY <1>4 DEF Rollback
  <2> QED BY <2>1, <2>2, CommitIsDocument, RolledBackIsDocument
<1>5. CASE ApiStep(j)
  <2>1. CASE ResetRow(j)
    <3>1. j.saw \in Documents
      BY JobFields
    <3>2. doc' = Commit(j.saw, Reset(j.saw))
      BY <2>1 DEF ResetRow
    <3> QED BY <3>1, <3>2, CommitIsDocument, ResetIsDocument
  <2>2. CASE Load(j) \/ PublishParse(j) \/ CleanUp(j)
    BY <2>2 DEF Load, PublishParse, CleanUp
  <2> QED BY <1>5, <2>1, <2>2 DEF ApiStep
<1>6. CASE \/ ParseStart(j) \/ ParseFails(j) \/ DispatchFails(j) \/ EmbedTake(j)
           \/ EmbedFails(j) \/ CaptionStep(j) \/ KgStep(j)
  <2>1. /\ doc'.embed = doc.embed
        /\ doc'.status \in {doc.status, "parsing", "failed", "embedding"}
    BY <1>6 DEF ParseStart, ParseFails, DispatchFails, Fail, EmbedTake, EmbedFails,
       CaptionStep, CaptionTake, CaptionPoll, CaptionGivesUp, CaptionVectors, CaptionDone,
       KgStep, KgTake, KgDone, Documents
  <2> QED BY <2>1
<1>7. CASE \/ ParseDispatch(j) \/ EmbedVectors(j) \/ Ack(j) \/ Settle(j)
           \/ Timeout(j) \/ Crash(j) \/ Lose(j)
  BY <1>7 DEF ParseDispatch, EmbedVectors, Ack, Settle, Timeout, Crash, Lose
<1> QED BY <1>1, <1>2, <1>3, <1>4, <1>5, <1>6, <1>7 DEF Step, Fault, ParseStep, EmbedStep

\* Where the jobs come from that rely on vectors or delete them.
LEMMA SearchersArise ==
    ASSUME TypeOK, NEW j \in Pending, Step(j) \/ Fault(j),
           NEW l \in Pending', l \notin Pending
    PROVE  /\ l.pc \notin {"load", "clean"}
           /\ l.pc = "embedded" => EmbedVectors(j)
           /\ l.pc = "empty" => j.stage = "embed" /\ ~doc.raw
           /\ l.pc = "enriching" => doc.embed
<1>1. CASE ParseStep(j) \/ DispatchFails(j)
  BY <1>1, ParseAdds DEF ParseStep, Adds
<1>2. CASE EmbedTake(j)
  BY <1>2, EmbedAdds DEF EmbedTake, Adds, At
<1>3. CASE EmbedVectors(j) \/ EmbedDone(j) \/ EmbedFails(j)
  BY <1>3, EmbedAdds DEF Adds
<1>4. CASE CaptionPoll(j)
  <2>1. CASE doc.status # "failed" /\ doc.raw
    <3>1. doc.embed
      BY <1>4, <2>1 DEF CaptionPoll
    <3>2. l.pc = "enriching"
      BY <1>4, <2>1, CaptionAdds DEF Adds
    <3> QED BY <3>1, <3>2
  <2>2. CASE ~(doc.status # "failed" /\ doc.raw)
    BY <1>4, <2>2, CaptionAdds DEF Adds
  <2> QED BY <2>1, <2>2
<1>5. CASE CaptionTake(j) \/ CaptionGivesUp(j) \/ CaptionVectors(j) \/ CaptionDone(j)
  BY <1>5, CaptionAdds DEF Adds
<1>6. CASE KgStep(j)
  BY <1>6, KgAdds DEF KgStep, Adds
<1>7. CASE ApiStep(j)
  BY <1>7, ApiAdds DEF ApiStep, Adds
<1>8. CASE Finalize(j) \/ Ack(j) \/ Settle(j) \/ Rollback(j) \/ Timeout(j) \/ Crash(j) \/ Lose(j)
  BY <1>8, LoopAdds DEF Adds
<1> QED BY <1>1, <1>2, <1>3, <1>4, <1>5, <1>6, <1>7, <1>8
        DEF Step, Fault, EmbedStep, CaptionStep

LEMMA VectorsKeptInductive ==
    TypeOK /\ VectorsKept /\ UpdatesExistingVectors /\ [Next]_vars
        => VectorsKept' /\ UpdatesExistingVectors'
<1> DEFINE Untagged == \A c \in Chunks : vectors[c] # "untagged"
<1> SUFFICES ASSUME TypeOK, VectorsKept, UpdatesExistingVectors, [Next]_vars,
                    Spared({"reindex", "cancel"})'
             PROVE  /\ doc'.embed \/ doc'.status = "indexed" => Searchable'
                    /\ Untagged'
                    /\ \A l \in Pending' :
                          /\ l.pc \notin {"load", "clean"}
                          /\ l.pc \in {"embedded", "empty", "enriching"} => Searchable'
                          /\ RestsOnChunks(l) => doc'.raw \/ Searchable'
  BY DEF VectorsKept, UpdatesExistingVectors
<1>1. /\ doc.embed \/ doc.status = "indexed" => Searchable
      /\ Untagged
      /\ \A l \in Pending :
            /\ l.pc \notin {"load", "clean"}
            /\ l.pc \in {"embedded", "empty", "enriching"} => Searchable
            /\ RestsOnChunks(l) => doc.raw \/ Searchable
  BY EventsStay DEF Spared, VectorsKept, UpdatesExistingVectors
<1>2. ~Reindex /\ ~ReindexWorkspace /\ ~Cancel
  BY EventsGrow DEF Reindex, ReindexWorkspace, Cancel, Spared
<1>3. ASSUME NEW j \in Pending, Step(j) \/ Fault(j)
      PROVE  /\ doc'.embed \/ doc'.status = "indexed" => Searchable'
             /\ Untagged'
             /\ \A l \in Pending' :
                   /\ l.pc \notin {"load", "clean"}
                   /\ l.pc \in {"embedded", "empty", "enriching"} => Searchable'
                   /\ RestsOnChunks(l) => doc'.raw \/ Searchable'
  <2>1. /\ Searchable => Searchable'
        /\ Untagged'
        /\ EmbedVectors(j) => Searchable'
    <3>1. CASE EmbedVectors(j)
      BY <1>1, <3>1 DEF EmbedVectors, Searchable, TypeOK, VectorStates
    <3>2. CASE CaptionVectors(j)
      <4>1. Searchable
        BY <1>1, <3>2 DEF CaptionVectors, At
      <4>2. \A c \in Chunks : vectors'[c] \in {"plain", "captioned"}
        BY <3>2, <4>1 DEF CaptionVectors, Searchable, TypeOK
      <4>3. ~EmbedVectors(j)
        BY <3>2 DEF CaptionVectors, EmbedVectors, At
      <4> QED BY <4>2, <4>3 DEF Searchable
    <3>3. CASE ~EmbedVectors(j) /\ ~CaptionVectors(j)
      <4>1. ~Load(j) /\ ~CleanUp(j)
        BY <1>1 DEF Load, CleanUp, At
      <4>2. UNCHANGED vectors
        BY <1>3, <3>3, <4>1 DEF Step, Fault, ParseStep, ParseStart, ParseStore,
           ParseDispatch, ParseFails, DispatchFails, Fail, EmbedStep, EmbedTake, EmbedDone,
           EmbedFails, CaptionStep, CaptionTake, CaptionPoll, CaptionGivesUp, CaptionDone,
           KgStep, KgTake, KgDone, ApiStep, ResetRow, PublishParse, Finalize, Ack, Settle,
           Rollback, Timeout, Crash, Lose
      <4> QED BY <1>1, <3>3, <4>2 DEF Searchable
    <3> QED BY <3>1, <3>2, <3>3
  <2> HIDE DEF Untagged
  <2>2. doc'.embed \/ doc'.status = "indexed" => Searchable'
    BY <1>1, <1>3, <2>1, ClaimsArise
  <2>3. doc.raw \/ Searchable => doc'.raw \/ Searchable'
    <3>1. CASE ApiStep(j)
      <4>1. doc'.raw = doc.raw
        <5>1. j.saw \in Documents
          BY JobFields DEF TypeOK
        <5>2. CASE ResetRow(j)
          BY <5>1, <5>2, CommitIsDocument, ResetIsDocument DEF ResetRow, TypeOK
        <5>3. CASE Load(j) \/ PublishParse(j) \/ CleanUp(j)
          BY <5>3 DEF Load, PublishParse, CleanUp
        <5> QED BY <3>1, <5>2, <5>3 DEF ApiStep
      <4> QED BY <2>1, <4>1
    <3>2. CASE ~ApiStep(j)
      BY <1>1, <1>3, <2>1, <3>2, ColumnsKept
    <3> QED BY <3>1, <3>2
  <2>4. ASSUME NEW l \in Pending'
        PROVE  /\ l.pc \notin {"load", "clean"}
               /\ l.pc \in {"embedded", "empty", "enriching"} => Searchable'
               /\ RestsOnChunks(l) => doc'.raw \/ Searchable'
    <3>1. CASE l \in Pending
      BY <1>1, <2>1, <2>3, <3>1
    <3>2. CASE l \notin Pending
      <4>1. RestsOnChunks(l) => doc'.raw \/ Searchable'
        BY <1>1, <1>3, <2>3, <3>2, RestersArise
      <4>2. j.stage = "embed" /\ ~doc.raw => Searchable'
        BY <1>1, <2>1 DEF RestsOnChunks
      <4> QED BY <1>1, <1>3, <2>1, <3>2, <4>1, <4>2, SearchersArise
    <3> QED BY <3>1, <3>2
  <2> QED BY <2>1, <2>2, <2>4
<1>4. CASE Duplicate \/ Reprocess
  <2>1. UNCHANGED <<doc, vectors>>
    BY <1>4 DEF Duplicate, Reprocess
  <2>2. ASSUME NEW l \in Pending'
        PROVE  l \in Pending \/ (l.pc \in {"queue", "reset"} /\ ~RestsOnChunks(l))
    BY <1>4, <2>2, ApiAdds, NoRestersFromOutside DEF ApiRequest, Adds
  <2> QED BY <1>1, <2>1, <2>2 DEF Searchable
<1>5. CASE UNCHANGED vars
  BY <1>1, <1>5 DEF vars, Pending, Searchable
<1> QED BY <1>2, <1>3, <1>4, <1>5 DEF Next, ApiRequest

\* The vectors and the claims on them, as long as no request deletes vectors.
LEMMA VectorsAreKept == Spec => [](VectorsKept /\ UpdatesExistingVectors)
<1>1. Init => VectorsKept /\ UpdatesExistingVectors
  <2> SUFFICES ASSUME Init PROVE VectorsKept /\ UpdatesExistingVectors
    OBVIOUS
  <2>1. Pending = {Message("parse")}
    BY OneElement DEF Init, Pending
  <2>2. VectorsKept
    BY <2>1 DEF Init, VectorsKept, NewDocument, Message, RestsOnChunks, ToDispatch, At
  <2>3. UpdatesExistingVectors
    BY DEF Init, UpdatesExistingVectors
  <2> QED BY <2>2, <2>3
<1> QED BY <1>1, VectorsKeptInductive, PipelineTypeOK, PTL DEF Spec

\* An INDEXED document is found by a search, as long as no request deletes
\* vectors: through crashes, timeouts, duplicates and reprocessing.
THEOREM IndexedDocumentsAreSearchable == Spec => []IndexedIsSearchable
<1>1. VectorsKept => IndexedIsSearchable
  BY DEF VectorsKept, IndexedIsSearchable
<1> QED BY <1>1, VectorsAreKept, PTL

\* No upsert of the caption worker (workers/caption_worker.py:304-305,384) inserts
\* a vector, as long as no request deletes vectors.
THEOREM CaptionsUpdateVectors == Spec => []UpdatesExistingVectors
<1> QED BY VectorsAreKept, PTL

-----------------------------------------------------------------------------
(* Requests: one at a time, and what it does to the flags.                 *)

\* A job that takes the place of a request is the only one being served.
LEMMA SuccessorRequest ==
    ASSUME TypeOK, OneRequest, RequestedOnce,
           NEW j \in Pending, j.stage = "api",
           NEW k, k.stage = "api", k # j, jobs' = Become(j, k)
    PROVE  /\ k \in Pending' /\ jobs'[k] = 1
           /\ \A l \in Pending' : l.stage = "api" => l = k
<1>1. jobs[j] = 1 /\ \A l \in Pending : l.stage = "api" => l = j
  BY DEF OneRequest
<1>2. k \notin Pending
  BY <1>1
<1>3. IsABag(jobs)
  BY DEF TypeOK
<1> QED BY <1>1, <1>2, <1>3, BecomeElements DEF Pending

LEMMA FirstRequest ==
    ASSUME TypeOK, OneRequest, ApiRequest, RequestedOnce'
    PROVE  Spared(Requests) /\ \A l \in Pending : l.stage # "api"
<1>1. PICK e \in Requests : e \notin happened /\ happened' = happened \cup {e}
  BY DEF ApiRequest, Reprocess, Reindex, ReindexWorkspace, Cancel, Occurs, Requests
<1>2. Spared(Requests) /\ RequestedOnce
  BY <1>1 DEF RequestedOnce, Spared
<1> QED BY <1>2 DEF OneRequest

\* An API job only takes steps of the API, or those of a consume loop.
LEMMA ApiSteps ==
    ASSUME TypeOK, NEW j \in Pending, Step(j) \/ Fault(j), j.stage = "api"
    PROVE  ApiStep(j) \/ Ack(j) \/ Settle(j) \/ Crash(j)
<1>1. j.pc # "finalize"
  BY JobFields DEF TypeOK, Progress, Handling
<1> QED BY <1>1 DEF Step, Fault, ParseStep, ParseStart, ParseStore, ParseDispatch,
           ParseFails, DispatchFails, EmbedStep, EmbedTake, EmbedVectors, EmbedDone,
           EmbedFails, CaptionStep, CaptionTake, CaptionPoll, CaptionGivesUp,
           CaptionVectors, CaptionDone, KgStep, KgTake, KgDone, Finalize, Rollback,
           Timeout, Lose, At

LEMMA OneRequestInductive == TypeOK /\ OneRequest /\ [Next]_vars => OneRequest'
<1> SUFFICES ASSUME TypeOK, OneRequest, [Next]_vars, RequestedOnce',
                    NEW l \in Pending', l.stage = "api"
             PROVE  /\ ~Spared(Requests)'
                    /\ jobs'[l] = 1
                    /\ \A k \in Pending' : k.stage = "api" => k = l
  BY DEF OneRequest
<1> DEFINE Alone == /\ ~Spared(Requests)'
                    /\ jobs'[l] = 1
                    /\ \A k \in Pending' : k.stage = "api" => k = l
<1>1. /\ RequestedOnce
      /\ ~Spared(Requests) => ~Spared(Requests)'
  BY EventsStay DEF RequestedOnce, Spared
<1>2. \A j \in Pending : j.stage = "api" =>
          /\ ~Spared(Requests)
          /\ jobs[j] = 1
          /\ \A k \in Pending : k.stage = "api" => k = j
  BY <1>1 DEF OneRequest
<1>3. jobs'[l] \in Nat /\ jobs'[l] > 0
  BY NextTypeOK, Counts DEF TypeOK, Pending
<1>4. ASSUME \A k \in Pending' : k.stage = "api" => k \in Pending /\ jobs'[k] <= jobs[k]
      PROVE  Alone
  <2>1. l \in Pending /\ jobs'[l] <= 1
    BY <1>2, <1>4
  <2> QED BY <1>1, <1>2, <1>3, <1>4, <2>1
<1>5. ASSUME NEW j \in Pending, j.stage = "api",
             NEW k, k.stage = "api", k.pc # j.pc, jobs' = Become(j, k)
      PROVE  Alone
  BY <1>1, <1>2, <1>5, SuccessorRequest
<1>6. ASSUME NEW j \in Pending, Step(j) \/ Fault(j), j.stage = "api"
      PROVE  Alone
  <2>1. ApiStep(j) \/ Ack(j) \/ Settle(j) \/ Crash(j)
    BY <1>6, ApiSteps
  <2>2. CASE Load(j)
    <3>1. j.pc = "load" /\ jobs' = Become(j, Request("reset", doc))
      BY <2>2 DEF Load, At
    <3> QED BY <1>5, <1>6, <3>1 DEF Request
  <2>3. CASE ResetRow(j)
    <3>1. j.pc = "reset" /\ jobs' = Become(j, Request("publish", NewDocument))
      BY <2>3 DEF ResetRow, At
    <3> QED BY <1>5, <1>6, <3>1 DEF Request
  <2>4. CASE PublishParse(j) \/ CleanUp(j)
    BY <1>4, <2>4, ApiAdds DEF Adds
  <2>5. CASE Ack(j) \/ Crash(j)
    BY <1>4, <1>6, <2>5, LoopAdds DEF Adds
  <2>6. CASE Settle(j)
    <3>1. CASE jobs' = Without(j)
      BY <1>4, <3>1, RemoveEffect
    <3>2. CASE jobs' # Without(j)
      <4> DEFINE k == [Message(j.stage) EXCEPT !.rc = j.rc + 1]
      <4>1. jobs' = Become(j, k) /\ j.pc = "settle"
        BY <2>6, <3>2 DEF Settle
      <4>2. k.stage = "api" /\ k.pc = "queue"
        BY <1>6 DEF Message
      <4> HIDE DEF k
      <4> QED BY <1>5, <1>6, <4>1, <4>2
    <3> QED BY <3>1, <3>2
  <2> QED BY <2>1, <2>2, <2>3, <2>4, <2>5, <2>6 DEF ApiStep
<1>7. ASSUME NEW j \in Pending, Step(j) \/ Fault(j), j.stage # "api"
      PROVE  Alone
  BY <1>4, <1>7, WorkersAddNoRequest
<1>8. CASE Duplicate
  BY <1>4, <1>8, ApiAdds DEF Adds
<1>9. CASE ApiRequest
  <2>1. PICK k : jobs' = With(jobs, k) /\ k.stage = "api"
    BY <1>9 DEF ApiRequest, Reprocess, Reindex, ReindexWorkspace, Cancel, Request
  <2>2. k \notin Pending /\ \A m \in Pending : m.stage # "api"
    BY <1>9, <2>1, FirstRequest
  <2>3. ~Spared(Requests)'
    BY <1>9, EventsGrow DEF ApiRequest, Reprocess, Reindex, ReindexWorkspace, Cancel,
       Spared, Requests
  <2>4. jobs'[k] = 1 /\ Pending' = Pending \cup {k}
    BY <2>1, <2>2, WithElements DEF TypeOK, Pending
  <2> QED BY <2>2, <2>3, <2>4
<1>10. CASE UNCHANGED vars
  <2>1. \A k \in Pending' : k \in Pending /\ jobs'[k] = jobs[k]
    BY <1>10 DEF vars, Pending
  <2>2. jobs[l] = 1 /\ l \in Pending
    BY <1>2, <2>1
  <2> QED BY <1>1, <1>2, <2>1, <2>2
<1> QED BY <1>6, <1>7, <1>8, <1>9, <1>10 DEF Next

\* Where the jobs come from that reset a row or roll it back.
LEMMA ResettersArise ==
    ASSUME TypeOK, NEW j \in Pending, Step(j) \/ Fault(j),
           NEW l \in Pending', l \notin Pending
    PROVE  /\ l.pc # "load"
           /\ l.pc = "reset" => Load(j) /\ l.saw = doc
           /\ l.pc = "rollback" => Timeout(j)
<1>1. CASE ParseStep(j) \/ DispatchFails(j)
  BY <1>1, ParseAdds DEF ParseStep, Adds
<1>2. CASE EmbedStep(j)
  BY <1>2, EmbedAdds DEF EmbedStep, Adds
<1>3. CASE CaptionStep(j)
  BY <1>3, CaptionAdds DEF CaptionStep, Adds
<1>4. CASE KgStep(j)
  BY <1>4, KgAdds DEF KgStep, Adds
<1>5. CASE Load(j)
  <2>1. l = Request("reset", doc)
    BY <1>5, BecomeElements DEF Load, TypeOK, Pending
  <2> QED BY <1>5, <2>1 DEF Request
<1>6. CASE ResetRow(j) \/ PublishParse(j) \/ CleanUp(j)
  BY <1>6, ApiAdds DEF Adds
<1>7. CASE Finalize(j) \/ Ack(j) \/ Settle(j) \/ Rollback(j) \/ Timeout(j) \/ Crash(j) \/ Lose(j)
  BY <1>7, LoopAdds DEF Adds
<1> QED BY <1>1, <1>2, <1>3, <1>4, <1>5, <1>6, <1>7 DEF Step, Fault, ApiStep

\* A document all of whose messages are waiting to be parsed does not stay PENDING
\* when a worker takes a step.
LEMMA WorkersLeavePending ==
    ASSUME TypeOK, NEW j \in Pending, Step(j) \/ Fault(j), At(j, "parse", "queue")
    PROVE  doc'.status = "parsing"
<1>1. ParseStart(j)
  BY DEF Step, Fault, ParseStep, ParseStart, ParseStore, ParseDispatch, ParseFails,
     DispatchFails, ToDispatch, EmbedStep, EmbedTake, EmbedVectors, EmbedDone, EmbedFails,
     CaptionStep, CaptionTake, CaptionPoll, CaptionGivesUp, CaptionVectors, CaptionDone,
     KgStep, KgTake, KgDone, ApiStep, Load, ResetRow, PublishParse, CleanUp,
     Finalize, Ack, Settle, Rollback, Timeout, Crash, Lose, Handling, At
<1> QED BY <1>1 DEF ParseStart, TypeOK, Documents

LEMMA ApiLeavesRow ==
    ASSUME TypeOK, NEW j \in Pending, Step(j) \/ Fault(j), j.stage = "api", ~ResetRow(j)
    PROVE  UNCHANGED doc
BY ApiSteps DEF ApiStep, Load, PublishParse, CleanUp, Ack, Settle, Crash

\* What the workers make of the row, but for roll-backs.
LEMMA StatusWritten ==
    ASSUME TypeOK, NEW j \in Pending, Step(j) \/ Fault(j), j.stage # "api",
           j.pc # "rollback"
    PROVE  /\ doc.embed => doc'.embed
           /\ doc.captions => doc'.captions
           /\ doc.kg => doc'.kg
           /\ \/ doc'.status \in {doc.status, "parsing", "chunking", "failed", "embedding"}
              \/ /\ doc'.status = "indexed"
                 /\ AllDone(doc')
              \/ /\ doc'.status = "building_kg"
                 /\ doc'.embed /\ doc'.captions
<1> USE DEF TypeOK, Documents
<1>1. CASE ParseStore(j)
  <2>1. PICK raw \in BOOLEAN : doc' = [doc EXCEPT !.status = "chunking", !.raw = raw]
    BY <1>1, Zenon DEF ParseStore
  <2> QED BY <2>1
<1>2. CASE Finalize(j)
  BY <1>2 DEF Finalize, Finalized, AllDone
<1>3. CASE \/ ParseStart(j) \/ ParseDispatch(j) \/ ParseFails(j) \/ DispatchFails(j)
           \/ EmbedStep(j) \/ CaptionStep(j) \/ KgStep(j)
           \/ Ack(j) \/ Settle(j) \/ Timeout(j) \/ Crash(j) \/ Lose(j)
  BY <1>3 DEF ParseStart, ParseDispatch, ParseFails, DispatchFails, Fail,
     EmbedStep, EmbedTake, EmbedVectors, EmbedDone, EmbedFails,
     CaptionStep, CaptionTake, CaptionPoll, CaptionGivesUp, CaptionVectors, CaptionDone,
     KgStep, KgTake, KgDone, Ack, Settle, Timeout, Crash, Lose
<1>4. ~ApiStep(j) /\ ~Rollback(j)
  BY DEF ApiStep, Load, ResetRow, PublishParse, CleanUp, Rollback, At
<1> QED BY <1>1, <1>2, <1>3, <1>4 DEF Step, Fault, ParseStep

LEMMA ResetsAreWholeInductive ==
    TypeOK /\ OneRequest /\ ResetsAreWhole /\ [Next]_vars => ResetsAreWhole'
<1> DEFINE Fresh == /\ ~Flagged(doc)
                    /\ \A j \in Pending : At(j, "parse", "queue") \/ j.stage = "api"
           Resetting == Spared(Requests) \/ \E j \in Pending : j.pc \in {"load", "reset"}
<1> SUFFICES ASSUME TypeOK, OneRequest, ResetsAreWhole, [Next]_vars,
                    Spared({"timeout"})', RequestedOnce'
             PROVE  /\ doc'.status = "pending" /\ Resetting' => Fresh'
                    /\ \A l \in Pending' :
                          /\ l.pc # "rollback"
                          /\ l.pc = "reset" /\ l.saw.status = "pending" => ~Flagged(l.saw)
  BY DEF ResetsAreWhole
<1>1. Spared({"timeout"}) /\ RequestedOnce /\ (Spared(Requests)' => Spared(Requests))
  BY EventsStay DEF Spared, RequestedOnce
<1>2. /\ doc.status = "pending" /\ Resetting => Fresh
      /\ \A j \in Pending :
            /\ j.pc # "rollback"
            /\ j.pc = "reset" /\ j.saw.status = "pending" => ~Flagged(j.saw)
  BY <1>1 DEF ResetsAreWhole
<1>3. \A j : ~Timeout(j)
  BY EventsGrow DEF Timeout, Spared
<1> HIDE DEF Fresh, Resetting
<1>4. ASSUME NEW j \in Pending, Step(j) \/ Fault(j)
      PROVE  /\ doc'.status = "pending" /\ Resetting' => Fresh'
             /\ \A l \in Pending' :
                   /\ l.pc # "rollback"
                   /\ l.pc = "reset" /\ l.saw.status = "pending" => ~Flagged(l.saw)
  <2>1. Load(j) => Resetting
    BY DEF Load, At, Resetting
  <2>2. ASSUME NEW l \in Pending'
        PROVE  /\ l.pc # "rollback"
               /\ l.pc = "reset" /\ l.saw.status = "pending" => ~Flagged(l.saw)
    <3>1. CASE l \in Pending
      BY <1>2, <3>1
    <3>2. CASE l \notin Pending
      BY <1>2, <1>3, <1>4, <2>1, <3>2, ResettersArise DEF Fresh
    <3> QED BY <3>1, <3>2
  <2>3. ASSUME doc'.status = "pending", Resetting', ~ResetRow(j) PROVE Fresh'
    <3>1. Resetting
      BY <1>1, <1>4, <2>1, <2>3, ResettersArise DEF Resetting
    <3>2. CASE j.stage # "api"
      <4>1. doc.status # "pending"
        <5>1. doc.status = "pending" => At(j, "parse", "queue")
          BY <1>2, <3>1, <3>2 DEF Fresh
        <5> QED BY <1>4, <2>3, <5>1, WorkersLeavePending
      <4>2. doc'.status \in {doc.status, "parsing", "chunking", "failed", "embedding",
                            "indexed", "building_kg"}
        BY <1>2, <1>4, <2>3, <3>2, StatusWritten
      <4> QED BY <2>3, <4>1, <4>2
    <3>3. CASE j.stage = "api"
      <4>1. doc' = doc
        BY <1>4, <2>3, <3>3, ApiLeavesRow
      <4>2. ASSUME NEW l \in Pending', l \notin Pending
            PROVE  At(l, "parse", "queue") \/ l.stage = "api"
        BY <1>4, <3>3, <4>2, ApiSteps, ApiAdds, LoopAdds DEF ApiStep, Adds, At
      <4> QED BY <1>2, <2>3, <3>1, <4>1, <4>2 DEF Fresh
    <3> QED BY <3>2, <3>3
  <2>4. CASE ResetRow(j)
    <3>1. j.stage = "api" /\ jobs' = Become(j, Request("publish", NewDocument)) /\ j.pc = "reset"
      BY <2>4 DEF ResetRow, At
    <3>2. \A l \in Pending' : l.stage = "api" => l.pc = "publish"
      BY <1>1, <3>1, SuccessorRequest DEF Request
    <3>3. \A l \in Pending' : l.pc \in {"load", "reset"} => l.stage = "api"
      BY NextTypeOK, JobFields DEF TypeOK, Progress, Handling, ToDispatch, Stages
    <3>4. ~Spared(Requests)'
      BY <1>1, <3>1 DEF OneRequest
    <3>5. ~Resetting'
      BY <3>2, <3>3, <3>4 DEF Resetting
    <3> QED BY <2>2, <3>5
  <2> QED BY <2>2, <2>3, <2>4
<1>5. CASE Duplicate
  <2>1. UNCHANGED doc /\ Adds({<<"parse", "queue">>})
    BY <1>5, ApiAdds DEF Duplicate
  <2> QED BY <1>1, <1>2, <2>1 DEF Fresh, Resetting, Adds, At
<1>6. CASE ApiRequest
  <2>1. Spared(Requests)
    BY <1>6, FirstRequest
  <2>2. doc.status = "pending" => Fresh
    BY <1>2, <2>1 DEF Resetting
  <2>3. CASE Cancel
    <3>1. doc'.status = "failed"
      BY <2>3, ResetIsDocument DEF Cancel, TypeOK, Documents
    <3> QED BY <1>2, <2>3, <3>1, ApiAdds DEF Adds
  <2>4. CASE ~Cancel
    <3>1. UNCHANGED doc
      BY <1>6, <2>4 DEF ApiRequest, Reprocess, Reindex, ReindexWorkspace
    <3>2. PICK k : /\ jobs' = With(jobs, k) /\ k.stage = "api" /\ k.pc # "rollback"
                   /\ k.pc = "reset" => k.saw = doc
      BY <1>6, <2>4 DEF ApiRequest, Reprocess, Reindex, ReindexWorkspace, Request
    <3>3. Pending' = Pending \cup {k}
      BY <3>2, WithElements DEF TypeOK, Pending
    <3> QED BY <1>2, <2>2, <3>1, <3>2, <3>3 DEF Fresh
  <2> QED BY <2>3, <2>4
<1>7. CASE UNCHANGED vars
  BY <1>2, <1>7 DEF vars, Pending, Fresh, Resetting, Spared
<1> QED BY <1>4, <1>5, <1>6, <1>7 DEF Next, Fresh

\* What an INDEXED or BUILDING_KG status claims of the flags.
LEMMA ClaimsKept ==
    TypeOK /\ ResetsAreWhole /\ IndexedIsComplete /\ BuildingKgIsLast /\ [Next]_vars
        => IndexedIsComplete' /\ BuildingKgIsLast'
<1> DEFINE Claims(d) == /\ d.status = "indexed" => AllDone(d)
                        /\ d.status = "building_kg" => d.embed /\ d.captions
<1> SUFFICES ASSUME TypeOK, ResetsAreWhole, IndexedIsComplete, BuildingKgIsLast,
                    [Next]_vars, Spared({"timeout"})', RequestedOnce'
             PROVE  Claims(doc)'
  BY DEF IndexedIsComplete, BuildingKgIsLast
<1>1. Spared({"timeout"}) /\ RequestedOnce /\ UNCHANGED file
  BY EventsStay DEF Spared, RequestedOnce
<1>2. Claims(doc)
  BY <1>1 DEF IndexedIsComplete, BuildingKgIsLast
<1>3. ASSUME NEW j \in Pending, Step(j) \/ Fault(j) PROVE Claims(doc)'
  <2>1. /\ j.pc # "rollback"
        /\ j.pc = "reset" /\ j.saw.status = "pending" => ~Flagged(j.saw)
    BY <1>1 DEF ResetsAreWhole
  <2>2. CASE j.stage # "api"
    BY <1>1, <1>2, <1>3, <2>1, <2>2, StatusWritten DEF AllDone
  <2>3. CASE ResetRow(j)
    <3>1. j.saw \in Documents /\ doc \in Documents
      BY JobFields DEF TypeOK
    <3>2. doc' = Commit(j.saw, Reset(j.saw)) /\ j.pc = "reset"
      BY <2>3 DEF ResetRow, At
    <3>3. CASE j.saw.status = "pending"
      <4>1. ~j.saw.embed /\ ~j.saw.captions /\ ~j.saw.kg
        BY <2>1, <3>2, <3>3 DEF Flagged
      <4>2. /\ doc'.status = doc.status /\ doc'.embed = doc.embed
            /\ doc'.captions = doc.captions /\ doc'.kg = doc.kg
        BY <3>1, <3>2, <3>3, <4>1, CommitIsDocument, ResetIsDocument DEF Documents
      <4> QED BY <1>1, <1>2, <4>2 DEF AllDone
    <3>4. CASE j.saw.status # "pending"
      <4>1. doc'.status = "pending"
        BY <3>1, <3>2, <3>4, CommitIsDocument, ResetIsDocument
      <4> QED BY <4>1
    <3> QED BY <3>3, <3>4
  <2>4. CASE j.stage = "api" /\ ~ResetRow(j)
    <3>1. doc' = doc
      BY <1>3, <2>4, ApiLeavesRow
    <3> QED BY <1>1, <1>2, <3>1 DEF AllDone
  <2> QED BY <2>2, <2>3, <2>4
<1>4. CASE Duplicate \/ Reprocess \/ Reindex \/ ReindexWorkspace
  BY <1>1, <1>2, <1>4 DEF Duplicate, Reprocess, Reindex, ReindexWorkspace, AllDone
<1>5. CASE Cancel
  <2>1. doc'.status = "failed"
    BY <1>5, ResetIsDocument DEF Cancel, TypeOK, Documents
  <2> QED BY <2>1
<1>6. CASE UNCHANGED vars
  BY <1>1, <1>2, <1>6 DEF vars, AllDone
<1> QED BY <1>3, <1>4, <1>5, <1>6 DEF Next, ApiRequest

\* What the two claims of the status rest on, with one request at any moment.
StatusEarned == /\ TypeOK /\ OneRequest /\ ResetsAreWhole
                /\ IndexedIsComplete /\ BuildingKgIsLast

LEMMA StatusIsEarned == Spec => []StatusEarned
<1> USE DEF StatusEarned
<1>1. Init => StatusEarned
  <2> SUFFICES ASSUME Init PROVE StatusEarned
    OBVIOUS
  <2>1. Pending = {Message("parse")} /\ doc = NewDocument
    BY OneElement DEF Init, Pending
  <2>2. OneRequest
    BY <2>1 DEF OneRequest, Message
  <2>3. ResetsAreWhole
    BY <2>1 DEF ResetsAreWhole, NewDocument, Flagged, Message, At
  <2>4. IndexedIsComplete /\ BuildingKgIsLast
    BY <2>1 DEF IndexedIsComplete, BuildingKgIsLast, NewDocument
  <2> QED BY <2>2, <2>3, <2>4, InitTypeOK
<1>2. StatusEarned /\ [Next]_vars => StatusEarned'
  BY NextTypeOK, OneRequestInductive, ResetsAreWholeInductive, ClaimsKept
<1> QED BY <1>1, <1>2, PTL DEF Spec

\* An INDEXED document is embedded, captioned and in the graph
\* (workers/utils.py:22-28), in whatever order the workers finish and fail.
\* And BUILDING_KG means that only the graph is missing (workers/utils.py:24).
THEOREM StatusesMeanDone == Spec => []StatusMeansDone
<1>1. StatusEarned => StatusMeansDone
  BY DEF StatusEarned, StatusMeansDone
<1> QED BY <1>1, StatusIsEarned, PTL

-----------------------------------------------------------------------------
(* One pass: why an INDEXED document stays INDEXED.                        *)

\* What gives a document a second chance to be parsed, or rolls its row back.
SecondChances == {"crash", "timeout", "dispatch", "duplicate", "reprocess", "reindex"}

\* One job of the stage at most.
Sole(stage) ==
    \A j \in Pending : j.stage = stage =>
        jobs[j] = 1 /\ \A k \in Pending : k.stage = stage => k = j

\* A parse job that has not yet published to the embed queue.
BeforeEmbed == {"queue", "parsing", "settle", "to_embed"}

\* As long as nothing of the kind happens there is one parse job, which comes to
\* publish one embed job, and embed_done is only set by that one: whatever the
\* three workers still have in flight once the document is INDEXED comes after.
OnePass ==
    Spared(SecondChances) =>
        /\ \A j \in Pending : j.pc # "rollback" /\ (j.stage = "api" => j.pc = "clean")
        /\ Sole("parse") /\ Sole("embed")
        /\ \A j \in Pending : j.stage = "parse" /\ j.pc \in BeforeEmbed =>
              ~doc.embed /\ \A k \in Pending : k.stage # "embed"
        /\ \A j \in Pending : j.stage = "embed" /\ j.pc \notin {"finalize", "ack"} =>
              ~doc.embed

\* A stage has one job after a step that adds none of it.
LEMMA NoneAdded ==
    ASSUME NEW stage, Sole(stage), IsABag(jobs), IsABag(jobs'),
           \A l \in Pending' : l.stage = stage => l \in Pending /\ jobs'[l] <= jobs[l]
    PROVE  Sole(stage)'
<1> SUFFICES ASSUME NEW l \in Pending', l.stage = stage
             PROVE  jobs'[l] = 1 /\ \A k \in Pending' : k.stage = stage => k = l
  BY DEF Sole
<1>1. jobs[l] = 1 /\ jobs'[l] <= jobs[l]
  BY DEF Sole
<1>2. jobs'[l] \in Nat /\ jobs'[l] > 0
  BY Counts DEF Pending
<1>3. \A k \in Pending' : k.stage = stage => k = l
  BY DEF Sole
<1> QED BY <1>1, <1>2, <1>3

\* The only job of its stage is replaced by the only job of its stage.
LEMMA SoleSuccessor ==
    ASSUME TypeOK, NEW j \in Pending, Sole(j.stage),
           NEW k, k.stage = j.stage, k # j
    PROVE  /\ IsABag(Become(j, k))
           /\ k \in BagToSet(Become(j, k)) /\ Become(j, k)[k] = 1
           /\ \A l \in BagToSet(Become(j, k)) :
                 \/ l = k
                 \/ l \in Pending /\ l.stage # j.stage /\ Become(j, k)[l] <= jobs[l]
<1>1. jobs[j] = 1 /\ \A l \in Pending : l.stage = j.stage => l = j
  BY DEF Sole
<1>2. k \notin Pending /\ IsABag(jobs)
  BY <1>1 DEF TypeOK
<1>3. /\ IsABag(Become(j, k))
      /\ \A l \in BagToSet(Become(j, k)) :
            l = k \/ (l \in Pending /\ Become(j, k)[l] <= jobs[l])
      /\ k \in BagToSet(Become(j, k))
      /\ Become(j, k)[k] = 1 /\ j \notin BagToSet(Become(j, k))
  BY <1>1, <1>2, BecomeElements
<1> QED BY <1>1, <1>3

\* A step that turns a job into another of its stage leaves one job of each stage
\* that had one.
LEMMA SoleStays ==
    ASSUME TypeOK, Sole("parse"), Sole("embed"),
           NEW j \in Pending, NEW k, k.stage = j.stage, k # j, jobs' = Become(j, k)
    PROVE  /\ Sole("parse")' /\ Sole("embed")'
           /\ \A l \in Pending' :
                 \/ l = k
                 \/ l \in Pending /\ (j.stage \in {"parse", "embed"} => l.stage # j.stage)
<1>1. IsABag(jobs) /\ Pending \subseteq Job
  BY DEF TypeOK
<1>2. CASE j.stage \in {"parse", "embed"}
  <2>1. Sole(j.stage)
    BY <1>2
  <2>2. /\ IsABag(jobs') /\ jobs'[k] = 1
        /\ \A l \in Pending' :
              l = k \/ (l \in Pending /\ l.stage # j.stage /\ jobs'[l] <= jobs[l])
    BY <2>1, SoleSuccessor DEF Pending
  <2>3. Sole(j.stage)'
    BY <2>2 DEF Sole
  <2>4. ASSUME NEW stage \in {"parse", "embed"}, stage # j.stage
        PROVE  Sole(stage)'
    <3>1. Sole(stage)
      BY <2>4
    <3> QED BY <1>1, <2>2, <2>4, <3>1, NoneAdded
  <2> QED BY <1>2, <2>2, <2>3, <2>4
<1>3. CASE j.stage \notin {"parse", "embed"}
  <2>1. /\ IsABag(jobs')
        /\ \A l \in Pending' : l = k \/ (l \in Pending /\ jobs'[l] <= jobs[l])
    BY <1>1, BecomeElements DEF Pending
  <2>2. Sole("parse")' /\ Sole("embed")'
    BY <1>1, <1>3, <2>1, NoneAdded
  <2> QED BY <1>3, <2>1, <2>2
<1> QED BY <1>2, <1>3

\* What publishing to the next stage adds: to the embed queue only, and only in the
\* first of the three, a message of that stage.
LEMMA DispatchSuccessors ==
    ASSUME TypeOK, NEW j \in Pending, ParseDispatch(j)
    PROVE  \E k, m : /\ jobs' = With(Become(j, k), m)
                     /\ k.stage = "parse" /\ k.pc \notin BeforeEmbed \cup {"rollback"}
                     /\ k.pc # j.pc
                     /\ m.stage \in {"embed", "caption", "kg"} /\ m.pc = "queue"
                     /\ m.stage = "embed" => j.pc = "to_embed"
<1> DEFINE pc == AfterDispatch(j.pc)
           k == [j EXCEPT !.pc = pc]
           m == Message(Target(j.pc))
<1>1. j \in Job /\ j.stage = "parse" /\ j.pc \in ToDispatch
  BY DEF ParseDispatch, TypeOK
<1>2. pc \in {"to_caption", "to_kg", "ack"} /\ pc # j.pc
  BY <1>1 DEF AfterDispatch, ToDispatch
<1>3. pc \in Progress(j.stage)
  BY <1>1, <1>2 DEF Progress, Handling, ToDispatch
<1>4. k.stage = "parse" /\ k.pc = pc
  BY <1>1, <1>3, AdvancedJob
<1>5. /\ Target(j.pc) \in {"embed", "caption", "kg"}
      /\ Target(j.pc) = "embed" => j.pc = "to_embed"
  BY <1>1 DEF Target, ToDispatch
<1>6. m.stage = Target(j.pc) /\ m.pc = "queue"
  BY DEF Message
<1>7. jobs' = With(Become(j, k), m)
  BY DEF ParseDispatch, Advance
<1> HIDE DEF pc, k, m
<1> QED BY <1>2, <1>4, <1>5, <1>6, <1>7 DEF BeforeEmbed

\* A fault-free step other than a publish turns a job into another of its stage or
\* removes it.
LEMMA Successors ==
    ASSUME TypeOK, NEW j \in Pending, Step(j), ~ParseDispatch(j), j.stage # "api",
           j.pc # "rollback"
    PROVE  \/ jobs' = Without(j)
           \/ \E k : /\ jobs' = Become(j, k) /\ k.stage = j.stage /\ k.pc # j.pc
                     /\ k.pc # "rollback"
                     /\ j.stage = "parse" /\ k.pc \in BeforeEmbed => j.pc \in BeforeEmbed
                     /\ j.stage = "embed" /\ k.pc \notin {"finalize", "ack"} =>
                           /\ j.pc \notin {"finalize", "ack"}
                           /\ j.pc = "queue" => ~doc.embed
<1>1. j \in Job /\ j.pc \in Progress(j.stage)
  BY JobFields DEF TypeOK
<1> DEFINE Goal(k) == /\ jobs' = Become(j, k) /\ k.stage = j.stage /\ k.pc # j.pc
                      /\ k.pc # "rollback"
                      /\ j.stage = "parse" /\ k.pc \in BeforeEmbed => j.pc \in BeforeEmbed
                      /\ j.stage = "embed" /\ k.pc \notin {"finalize", "ack"} =>
                            /\ j.pc \notin {"finalize", "ack"}
                            /\ j.pc = "queue" => ~doc.embed
<1>2. ASSUME NEW pc, pc # j.pc, pc # "rollback", jobs' = Advance(j, pc),
             j.stage = "parse" /\ pc \in BeforeEmbed => j.pc \in BeforeEmbed,
             j.stage = "embed" /\ pc \notin {"finalize", "ack"} =>
                j.pc \notin {"finalize", "ack"} /\ (j.pc = "queue" => ~doc.embed)
      PROVE  \E k : Goal(k)
  <2> DEFINE k == [j EXCEPT !.pc = pc]
  <2>1. k.stage = j.stage /\ k.pc = pc
    BY <1>1 DEF Job
  <2>2. jobs' = Become(j, k)
    BY <1>2 DEF Advance
  <2> HIDE DEF k
  <2>3. Goal(k)
    BY <1>2, <2>1, <2>2
  <2> QED BY <2>3
<1>3. CASE ParseStart(j) \/ ParseStore(j)
  <2>1. PICK pc \in {"parsing", "to_embed"} :
           \E d : jobs' = Become(j, WithRow(j, pc, d)) /\ pc # j.pc /\ j.pc \in BeforeEmbed
    BY <1>3 DEF ParseStart, ParseStore, At, BeforeEmbed
  <2>3. PICK d : jobs' = Become(j, WithRow(j, pc, d)) /\ pc # j.pc /\ j.pc \in BeforeEmbed
    BY <2>1
  <2>2. Goal(WithRow(j, pc, d))
    BY <1>3, <2>3 DEF WithRow, ParseStart, ParseStore, At
  <2> QED BY <2>2
<1>4. CASE ParseFails(j)
  BY <1>2, <1>4 DEF ParseFails, Fail, At, BeforeEmbed
<1>5. CASE EmbedStep(j)
  <2>1. CASE EmbedTake(j)
    BY <1>2, <2>1 DEF EmbedTake, At
  <2>2. CASE EmbedVectors(j)
    BY <1>2, <2>2 DEF EmbedVectors, At
  <2>3. CASE EmbedDone(j)
    BY <1>2, <2>3 DEF EmbedDone
  <2>4. CASE EmbedFails(j)
    BY <1>2, <2>4 DEF EmbedFails, Fail
  <2> QED BY <1>5, <2>1, <2>2, <2>3, <2>4 DEF EmbedStep
<1>6. CASE CaptionStep(j)
  <2>1. CASE CaptionTake(j)
    BY <1>2, <2>1 DEF CaptionTake, At
  <2>2. CASE CaptionPoll(j)
    BY <1>2, <2>2 DEF CaptionPoll, At
  <2>3. CASE CaptionGivesUp(j) \/ CaptionVectors(j) \/ CaptionDone(j)
    BY <1>2, <2>3 DEF CaptionGivesUp, CaptionVectors, CaptionDone, At
  <2> QED BY <1>6, <2>1, <2>2, <2>3 DEF CaptionStep
<1>7. CASE KgStep(j)
  BY <1>2, <1>7 DEF KgStep, KgTake, KgDone, At
<1>8. CASE Finalize(j)
  BY <1>2, <1>8 DEF Finalize, BeforeEmbed
<1>9. CASE Ack(j)
  BY <1>9 DEF Ack
<1>10. CASE Settle(j)
  <2>1. CASE jobs' = Without(j)
    BY <2>1
  <2>2. CASE jobs' # Without(j)
    <3> DEFINE k == [Message(j.stage) EXCEPT !.rc = j.rc + 1]
    <3>1. jobs' = Become(j, k) /\ j.pc = "settle"
      BY <1>10, <2>2 DEF Settle
    <3>2. k.stage = j.stage /\ k.pc = "queue"
      BY DEF Message
    <3> HIDE DEF k
    <3>3. Goal(k)
      BY <3>1, <3>2 DEF BeforeEmbed
    <3> QED BY <3>3
  <2> QED BY <2>1, <2>2
<1>11. ~ApiStep(j) /\ ~Rollback(j)
  BY DEF ApiStep, Load, ResetRow, PublishParse, CleanUp, Rollback, At
<1> QED BY <1>3, <1>4, <1>5, <1>6, <1>7, <1>8, <1>9, <1>10, <1>11
        DEF Step, ParseStep

\* Only the embed worker sets embed_done, and it is then at its end.
LEMMA EmbedWritten ==
    ASSUME TypeOK, NEW j \in Pending, Step(j), j.stage # "api", j.pc # "rollback"
    PROVE  doc'.embed => doc.embed \/ EmbedDone(j)
<1> USE DEF TypeOK, Documents
<1>1. CASE ParseStore(j)
  <2>1. PICK raw \in BOOLEAN : doc' = [doc EXCEPT !.status = "chunking", !.raw = raw]
    BY <1>1, Zenon DEF ParseStore
  <2> QED BY <2>1
<1>2. CASE \/ ParseStart(j) \/ ParseDispatch(j) \/ ParseFails(j)
           \/ EmbedTake(j) \/ EmbedVectors(j) \/ EmbedFails(j)
           \/ CaptionStep(j) \/ KgStep(j) \/ Finalize(j) \/ Ack(j) \/ Settle(j)
  BY <1>2 DEF ParseStart, ParseDispatch, ParseFails, Fail,
     EmbedTake, EmbedVectors, EmbedFails, CaptionStep, CaptionTake, CaptionPoll,
     CaptionGivesUp, CaptionVectors, CaptionDone, KgStep, KgTake, KgDone,
     Finalize, Finalized, Ack, Settle
<1>3. ~ApiStep(j) /\ ~Rollback(j)
  BY DEF ApiStep, Load, ResetRow, PublishParse, CleanUp, Rollback, At
<1> QED BY <1>1, <1>2, <1>3 DEF Step, ParseStep, EmbedStep

LEMMA OnePassInductive == TypeOK /\ OnePass /\ [Next]_vars => OnePass'
<1> SUFFICES ASSUME TypeOK, OnePass, [Next]_vars, Spared(SecondChances)'
             PROVE  /\ \A l \in Pending' : l.pc # "rollback" /\ (l.stage = "api" => l.pc = "clean")
                    /\ Sole("parse")' /\ Sole("embed")'
                    /\ \A l \in Pending' : l.stage = "parse" /\ l.pc \in BeforeEmbed =>
                          ~doc'.embed /\ \A k \in Pending' : k.stage # "embed"
                    /\ \A l \in Pending' : l.stage = "embed" /\ l.pc \notin {"finalize", "ack"} =>
                          ~doc'.embed
  BY DEF OnePass
<1> DEFINE Places == \A l \in Pending' : l.pc # "rollback" /\ (l.stage = "api" => l.pc = "clean")
           Early  == \A l \in Pending' : l.stage = "parse" /\ l.pc \in BeforeEmbed =>
                        ~doc'.embed /\ \A k \in Pending' : k.stage # "embed"
           Undone == \A l \in Pending' : l.stage = "embed" /\ l.pc \notin {"finalize", "ack"} =>
                        ~doc'.embed
           Goal == Places /\ Sole("parse")' /\ Sole("embed")' /\ Early /\ Undone
<1> SUFFICES Goal
  OBVIOUS
<1>1. /\ \A j \in Pending : j.pc # "rollback" /\ (j.stage = "api" => j.pc = "clean")
      /\ Sole("parse") /\ Sole("embed")
      /\ \A j \in Pending : j.stage = "parse" /\ j.pc \in BeforeEmbed =>
            ~doc.embed /\ \A k \in Pending : k.stage # "embed"
      /\ \A j \in Pending : j.stage = "embed" /\ j.pc \notin {"finalize", "ack"} => ~doc.embed
  BY EventsStay DEF Spared, OnePass
<1>2. /\ \A j : ~DispatchFails(j) /\ ~Timeout(j) /\ ~Crash(j)
      /\ ~Duplicate /\ ~Reprocess /\ ~Reindex /\ ~ReindexWorkspace
  BY EventsGrow DEF DispatchFails, Timeout, Crash, Duplicate, Reprocess, Reindex,
     ReindexWorkspace, Spared, SecondChances
<1>3. IsABag(jobs) /\ IsABag(jobs')
  BY NextTypeOK DEF TypeOK
<1>4. ASSUME doc'.embed => doc.embed,
             \A l \in Pending' : l \in Pending /\ jobs'[l] <= jobs[l]
      PROVE  Goal
  <2>1. Sole("parse")' /\ Sole("embed")'
    BY <1>1, <1>3, <1>4, NoneAdded
  <2> QED BY <1>1, <1>4, <2>1
<1>5. ASSUME NEW j \in Pending, Step(j), ~ParseDispatch(j), j.stage # "api"
      PROVE  Goal
  <2>1. j.pc # "rollback"
    BY <1>1
  <2>2. doc'.embed => doc.embed \/ EmbedDone(j)
    BY <1>5, <2>1, EmbedWritten
  <2>3. CASE jobs' = Without(j)
    <3>1. ~EmbedDone(j) \/ jobs' = Advance(j, "finalize")
      BY DEF EmbedDone
    <3>2. CASE EmbedDone(j)
      <4>1. j.stage = "embed"
        BY <3>2 DEF EmbedDone
      <4>2. \A l \in Pending' : l \in Pending /\ jobs'[l] <= jobs[l]
        BY <2>3, RemoveEffect
      <4>3. jobs[j] = 1 /\ \A k \in Pending : k.stage = "embed" => k = j
        BY <1>1, <4>1 DEF Sole
      <4>4. j \notin Pending'
        BY <1>3, <2>3, <4>3, WithoutElements DEF Pending
      <4>5. Sole("parse")' /\ Sole("embed")'
        BY <1>1, <1>3, <4>2, NoneAdded
      <4> QED BY <1>1, <4>1, <4>2, <4>3, <4>4, <4>5
    <3>3. CASE ~EmbedDone(j)
      <4>1. \A l \in Pending' : l \in Pending /\ jobs'[l] <= jobs[l]
        BY <2>3, RemoveEffect
      <4> QED BY <1>4, <2>2, <3>3, <4>1
    <3> QED BY <3>2, <3>3
  <2>4. CASE jobs' # Without(j)
    <3>1. PICK k : /\ jobs' = Become(j, k) /\ k.stage = j.stage /\ k.pc # j.pc
                   /\ k.pc # "rollback"
                   /\ j.stage = "parse" /\ k.pc \in BeforeEmbed => j.pc \in BeforeEmbed
                   /\ j.stage = "embed" /\ k.pc \notin {"finalize", "ack"} =>
                         /\ j.pc \notin {"finalize", "ack"}
                         /\ j.pc = "queue" => ~doc.embed
      BY <1>5, <2>1, <2>4, Successors
    <3>2. k # j
      BY <3>1
    <3>3. /\ Sole("parse")' /\ Sole("embed")'
          /\ \A l \in Pending' :
                \/ l = k
                \/ l \in Pending /\ (j.stage \in {"parse", "embed"} => l.stage # j.stage)
      BY <1>1, <3>1, <3>2, SoleStays
    <3>4. Places
      BY <1>1, <1>5, <3>1, <3>3
    <3>5. Early
      <4>1. SUFFICES ASSUME NEW l \in Pending', l.stage = "parse", l.pc \in BeforeEmbed
                     PROVE  ~doc'.embed /\ \A m \in Pending' : m.stage # "embed"
        OBVIOUS
      <4>2. PICK i \in Pending : i.stage = "parse" /\ i.pc \in BeforeEmbed
        BY <3>1, <3>3, <4>1
      <4>3. ~doc.embed /\ \A m \in Pending : m.stage # "embed"
        BY <1>1, <4>2
      <4>4. j.stage # "embed" /\ ~EmbedDone(j)
        BY <4>3 DEF EmbedDone
      <4> QED BY <2>2, <3>1, <3>3, <4>3, <4>4
    <3>6. Undone
      <4>1. SUFFICES ASSUME NEW l \in Pending', l.stage = "embed",
                            l.pc \notin {"finalize", "ack"}
                     PROVE  ~doc'.embed
        OBVIOUS
      <4>2. CASE l = k
        <5>1. j.stage = "embed" /\ j.pc \notin {"finalize", "ack"}
          BY <3>1, <4>1, <4>2
        <5>2. ~doc.embed
          BY <1>1, <5>1
        <5>3. ~EmbedDone(j)
          <6>1. SUFFICES ASSUME EmbedDone(j) PROVE FALSE
            OBVIOUS
          <6>2. jobs' = Become(j, [j EXCEPT !.pc = "finalize"])
            BY <6>1 DEF EmbedDone, Advance
          <6>3. [j EXCEPT !.pc = "finalize"].pc = "finalize"
                /\ [j EXCEPT !.pc = "finalize"].stage = "embed"
            BY <5>1 DEF TypeOK, Job
          <6> DEFINE f == [j EXCEPT !.pc = "finalize"]
          <6> HIDE DEF f
          <6>4. f \in BagToSet(Become(j, f))
            BY <1>3, BecomeElements
          <6>5. f \in Pending' /\ f.stage = "embed" /\ f.pc = "finalize"
            BY <6>2, <6>3, <6>4 DEF Pending, f
          <6> QED BY <3>3, <4>1, <4>2, <5>1, <6>5 DEF Sole
        <5> QED BY <2>2, <5>2, <5>3
      <4>3. CASE l # k
        <5>1. l \in Pending /\ j.stage # "embed"
          BY <3>3, <4>1, <4>3
        <5> QED BY <1>1, <2>2, <4>1, <5>1 DEF EmbedDone
      <4> QED BY <4>2, <4>3
    <3> QED BY <3>3, <3>4, <3>5, <3>6
  <2> QED BY <2>3, <2>4
<1>6. ASSUME NEW j \in Pending, ParseDispatch(j)
      PROVE  Goal
  <2>1. PICK k, m : /\ jobs' = With(Become(j, k), m)
                    /\ k.stage = "parse" /\ k.pc \notin BeforeEmbed \cup {"rollback"}
                    /\ k.pc # j.pc
                    /\ m.stage \in {"embed", "caption", "kg"} /\ m.pc = "queue"
                    /\ m.stage = "embed" => j.pc = "to_embed"
    BY <1>6, DispatchSuccessors
  <2>2. j.stage = "parse" /\ doc' = doc
    BY <1>6 DEF ParseDispatch
  <2> DEFINE B == Become(j, k)
  <2>3. /\ IsABag(B) /\ B[k] = 1 /\ k \in BagToSet(B)
        /\ \A l \in BagToSet(B) :
              l = k \/ (l \in Pending /\ l.stage # "parse" /\ B[l] <= jobs[l])
    BY <1>1, <2>1, <2>2, SoleSuccessor
  <2>4. jobs' = With(B, m)
    BY <2>1
  <2> HIDE DEF B
  <2>5. /\ Pending' = BagToSet(B) \cup {m}
        /\ \A l \in BagToSet(B) : l # m => jobs'[l] = B[l]
        /\ m \notin BagToSet(B) => jobs'[m] = 1
    BY <2>3, <2>4, WithElements DEF Pending
  <2>6. Sole("parse")'
    BY <2>1, <2>3, <2>5 DEF Sole
  <2>7. m.stage = "embed" => ~doc.embed /\ \A l \in Pending : l.stage # "embed"
    BY <1>1, <2>1, <2>2 DEF BeforeEmbed
  <2>8. Sole("embed")'
    <3>1. CASE m.stage = "embed"
      <4>1. m \notin BagToSet(B)
        BY <2>1, <2>3, <2>7, <3>1
      <4> QED BY <2>1, <2>3, <2>5, <2>7, <3>1, <4>1 DEF Sole
    <3>2. CASE m.stage # "embed"
      <4>1. \A l \in Pending' : l.stage = "embed" => l \in Pending /\ jobs'[l] <= jobs[l]
        BY <2>1, <2>3, <2>5, <3>2
      <4> QED BY <1>1, <1>3, <4>1, NoneAdded
    <3> QED BY <3>1, <3>2
  <2>9. Places
    BY <1>1, <2>1, <2>3, <2>5
  <2>10. Early
    BY <2>1, <2>3, <2>5
  <2>11. Undone
    BY <1>1, <2>1, <2>2, <2>3, <2>5, <2>7
  <2> QED BY <2>6, <2>8, <2>9, <2>10, <2>11
<1>7. ASSUME NEW j \in Pending, Step(j), j.stage = "api"
      PROVE  Goal
  <2>1. CleanUp(j)
    <3>1. ApiStep(j) \/ Ack(j) \/ Settle(j) \/ Crash(j)
      BY <1>7, ApiSteps
    <3>2. j.pc = "clean"
      BY <1>1, <1>7
    <3> QED BY <1>2, <3>1, <3>2 DEF ApiStep, Load, ResetRow, PublishParse, Ack, Settle, At
  <2> QED BY <1>4, <2>1, ApiAdds DEF Adds, CleanUp
<1>8. ASSUME NEW j \in Pending, Fault(j)
      PROVE  Goal
  <2>1. Lose(j)
    BY <1>2, <1>8 DEF Fault
  <2> QED BY <1>4, <2>1, LoopAdds DEF Adds, Lose
<1>9. CASE Cancel
  <2>1. ~doc'.embed
    BY <1>9 DEF Cancel, Reset, TypeOK, Documents
  <2>2. PICK k : jobs' = With(jobs, k) /\ k.stage = "api" /\ k.pc = "clean"
    BY <1>9 DEF Cancel, Request
  <2>3. Pending' = Pending \cup {k} /\ \A l \in Pending : l # k => jobs'[l] = jobs[l]
    BY <1>3, <2>2, WithElements DEF Pending
  <2>4. Sole("parse")' /\ Sole("embed")'
    BY <1>1, <2>2, <2>3 DEF Sole
  <2> QED BY <1>1, <2>1, <2>2, <2>3, <2>4
<1>10. CASE UNCHANGED vars
  BY <1>1, <1>10 DEF vars, Pending, Sole
<1> QED BY <1>2, <1>5, <1>6, <1>7, <1>8, <1>9, <1>10 DEF Next, ApiRequest

\* With one pass the messages in flight leave an INDEXED document alone.
LEMMA IndexedStays ==
    ASSUME TypeOK, OnePass, IndexedIsComplete, [Next]_vars,
           doc.status = "indexed", Spared(SecondChances)'
    PROVE  doc'.status = "indexed"
<1>1. Spared(SecondChances)
  BY EventsStay DEF Spared
<1>2. doc.embed
  <2>1. RequestedOnce /\ Spared({"timeout"})
    BY <1>1 DEF Spared, SecondChances, RequestedOnce, Requests
  <2> QED BY <2>1 DEF IndexedIsComplete, AllDone
<1>3. /\ \A j \in Pending : j.pc # "rollback" /\ (j.stage = "api" => j.pc = "clean")
      /\ \A j \in Pending : j.stage = "parse" => j.pc \notin BeforeEmbed
      /\ \A j \in Pending : j.stage = "embed" => j.pc \in {"finalize", "ack"}
  BY <1>1, <1>2 DEF OnePass
<1>4. /\ \A j : ~DispatchFails(j) /\ ~Timeout(j) /\ ~Crash(j)
      /\ ~Duplicate /\ ~Reprocess /\ ~Reindex /\ ~ReindexWorkspace
  BY EventsGrow DEF DispatchFails, Timeout, Crash, Duplicate, Reprocess, Reindex,
     ReindexWorkspace, Spared, SecondChances
<1>5. ~Cancel
  BY DEF Cancel, Cancellable, InProgress
<1>6. ASSUME NEW j \in Pending, Step(j)
      PROVE  doc'.status = "indexed"
  <2>1. CASE ParseStep(j)
    <3>1. ~ParseStart(j) /\ ~ParseStore(j) /\ ~ParseFails(j)
      BY <1>3 DEF ParseStart, ParseStore, ParseFails, At, BeforeEmbed
    <3> QED BY <2>1, <3>1 DEF ParseStep, ParseDispatch
  <2>2. ~EmbedStep(j)
    BY <1>3 DEF EmbedStep, EmbedTake, EmbedVectors, EmbedDone, EmbedFails, At
  <2>3. CASE CaptionStep(j) \/ KgStep(j)
    BY <2>3 DEF CaptionStep, CaptionTake, CaptionPoll, CaptionGivesUp, CaptionVectors,
       CaptionDone, KgStep, KgTake, KgDone, TypeOK, Documents
  <2>4. CASE ApiStep(j)
    BY <1>3, <2>4 DEF ApiStep, Load, ResetRow, PublishParse, CleanUp, At
  <2>5. CASE Finalize(j)
    BY <2>5 DEF Finalize, Finalized, TypeOK, Documents
  <2>6. CASE Ack(j) \/ Settle(j)
    BY <2>6 DEF Ack, Settle
  <2>7. ~Rollback(j)
    BY <1>3 DEF Rollback
  <2> QED BY <1>6, <2>1, <2>2, <2>3, <2>4, <2>5, <2>6, <2>7 DEF Step
<1>7. ASSUME NEW j \in Pending, Fault(j)
      PROVE  doc'.status = "indexed"
  BY <1>4, <1>7 DEF Fault, Lose
<1>8. CASE UNCHANGED vars
  BY <1>8 DEF vars
<1> QED BY <1>4, <1>5, <1>6, <1>7, <1>8 DEF Next, ApiRequest

LEMMA OnePassHolds == Spec => []OnePass
<1>1. Init => OnePass
  <2> SUFFICES ASSUME Init PROVE OnePass
    OBVIOUS
  <2>1. Pending = {Message("parse")} /\ jobs[Message("parse")] = 1
    BY OneElement DEF Init, Pending
  <2> QED BY <2>1 DEF Init, OnePass, Sole, Message, NewDocument
<1> QED BY <1>1, OnePassInductive, PipelineTypeOK, PTL DEF Spec

\* Once INDEXED a document stays INDEXED, for every file and every number of
\* retries, unless a fault or a request gives it a second pass: neither a late
\* message of the three workers, nor one that is lost or fails, nor a cancellation
\* takes the status away.
THEOREM IndexedIsForGood == Spec => IndexedForGood
<1>1. /\ TypeOK /\ OnePass /\ IndexedIsComplete /\ [Next]_vars
      => [doc.status = "indexed" /\ doc'.status # "indexed"
             => happened' \cap {"crash", "timeout", "dispatch", "duplicate",
                                "reprocess", "reindex"} # {}]_vars
  BY IndexedStays DEF Spared, SecondChances
<1>2. StatusEarned => IndexedIsComplete
  BY DEF StatusEarned
<1> QED BY <1>1, <1>2, OnePassHolds, PipelineTypeOK, StatusIsEarned, PTL
        DEF Spec, IndexedForGood

-----------------------------------------------------------------------------
(* The refinement of Ingestion: with no fault and no request a document    *)
(* comes to one outcome at most, and is never left without one.            *)

Before(stage) ==
    CASE stage = "embed"   -> BeforeEmbed
      [] stage = "caption" -> BeforeEmbed \cup {"to_caption"}
      [] stage = "kg"      -> BeforeEmbed \cup {"to_caption", "to_kg"}

\* The stage has a job at work on the document, or the parse job has yet to publish
\* one.
Carries(j, stage) ==
    \/ j.stage = stage /\ j.pc \notin {"finalize", "ack"}
    \/ j.stage = "parse" /\ j.pc \in Before(stage)

Owed(stage) == \E j \in Pending : Carries(j, stage)

\* Every flag is set, or some job will set it, or the document has failed for good;
\* and whoever sets the last flag has yet to finalize the document.
OnTrack ==
    /\ doc.embed \/ Owed("embed") \/ doc.status = "failed"
    /\ file.chat \/ doc.captions \/ Owed("caption") \/ Pending = {}
    /\ file.chat \/ doc.kg \/ Owed("kg") \/ Pending = {}
    /\ AllDone(doc) =>
          doc.status \in {"indexed", "failed"} \/ \E j \in Pending : j.pc = "finalize"
    /\ Pending = {} => doc.status \in {"indexed", "failed"}
    /\ \A j \in Pending : j.pc = "settle" =>
          j.stage \in {"parse", "embed"} /\ doc.status = "failed"
    /\ \A j \in Pending : j.stage = "parse" /\ j.pc \in BeforeEmbed =>
          \A k \in Pending : k = j

LEMMA KeptElements ==
    ASSUME NEW A, NEW B, IsABag(A), IsABag(B)
    PROVE  \A x \in BagToSet(A) : x \notin BagToSet(B) => x \in BagToSet(A (-) B)
BY SMT DEF (-), IsABag, BagToSet

\* The other jobs stay when one goes.
LEMMA OthersStay ==
    ASSUME TypeOK, NEW j
    PROVE  /\ \A l \in Pending : l # j => l \in BagToSet(Without(j))
           /\ \A k : \A l \in Pending : l # j => l \in BagToSet(Become(j, k))
<1>1. IsABag(jobs) /\ IsABag(One(j)) /\ BagToSet(One(j)) = {j}
  BY OneElement DEF TypeOK
<1>2. \A l \in Pending : l # j => l \in BagToSet(Without(j))
  <2> HIDE DEF One
  <2> QED BY <1>1, KeptElements DEF Without, Pending
<1>3. IsABag(Without(j))
  BY <1>1, WithoutElements
<1>4. \A k : BagToSet(Become(j, k)) = BagToSet(Without(j)) \cup {k}
  BY <1>3, WithElements DEF Become
<1> QED BY <1>2, <1>4

\* What a step changes of OnTrack: a job hands what it carries to its successor.
LEMMA HandedOn ==
    ASSUME TypeOK, NEW j \in Pending, NEW k, jobs' = Become(j, k), NEW stage,
           Carries(j, stage) => Carries(k, stage)
    PROVE  Owed(stage) => Owed(stage)'
<1>1. k \in Pending' /\ \A l \in Pending : l # j => l \in Pending'
  BY OthersStay, BecomeElements DEF TypeOK, Pending
<1> QED BY <1>1 DEF Owed

LEMMA EmptyJobs ==
    ASSUME NEW bag, IsABag(bag)
    PROVE  bag = EmptyBag <=> BagToSet(bag) = {}
<1>1. BagToSet(bag) = DOMAIN bag
  BY DEF BagToSet
<1>2. EmptyBag = [e \in {} |-> 1]
  BY DEF EmptyBag, SetToBag
<1>3. bag = [e \in DOMAIN bag |-> bag[e]]
  BY DEF IsABag
<1>4. bag = EmptyBag => BagToSet(bag) = {}
  BY <1>1, <1>2
<1>5. BagToSet(bag) = {} => bag = EmptyBag
  BY <1>1, <1>2, <1>3
<1> QED BY <1>4, <1>5

\* With no fault and no request there is one parse job, then one embed job, and no
\* job of the API.
LEMMA Undisturbed ==
    ASSUME Events = {}, TypeOK, OneRequest, OnePass
    PROVE  /\ \A j \in Pending : j.stage # "api" /\ j.pc # "rollback"
           /\ Sole("parse") /\ Sole("embed")
           /\ \A j \in Pending : j.stage = "parse" /\ j.pc \in BeforeEmbed => ~doc.embed
           /\ \A j \in Pending : j.stage = "embed" /\ j.pc \notin {"finalize", "ack"} =>
                 ~doc.embed
<1>1. happened = {}
  BY DEF TypeOK
<1> QED BY <1>1 DEF OneRequest, OnePass, Spared, RequestedOnce

LEMMA OnTrackInductive ==
    ASSUME Events = {}, TypeOK, OneRequest, OnePass, OnTrack, [Next]_vars
    PROVE  OnTrack'
<1> DEFINE Embedded == doc'.embed \/ Owed("embed")' \/ doc'.status = "failed"
           Captioned == file'.chat \/ doc'.captions \/ Owed("caption")' \/ Pending' = {}
           Ingested == file'.chat \/ doc'.kg \/ Owed("kg")' \/ Pending' = {}
           Finishing == AllDone(doc)' =>
              doc'.status \in {"indexed", "failed"} \/ \E l \in Pending' : l.pc = "finalize"
           Ended == Pending' = {} => doc'.status \in {"indexed", "failed"}
           Settled == \A l \in Pending' : l.pc = "settle" =>
              l.stage \in {"parse", "embed"} /\ doc'.status = "failed"
           Early == \A l \in Pending' : l.stage = "parse" /\ l.pc \in BeforeEmbed =>
              \A k \in Pending' : k = l
           Goal == Embedded /\ Captioned /\ Ingested /\ Finishing /\ Ended /\ Settled /\ Early
<1> SUFFICES Goal
  BY DEF OnTrack
<1>1. /\ \A j \in Pending : j.stage # "api" /\ j.pc # "rollback"
      /\ Sole("parse") /\ Sole("embed")
      /\ \A j \in Pending : j.stage = "parse" /\ j.pc \in BeforeEmbed => ~doc.embed
      /\ \A j \in Pending : j.stage = "embed" /\ j.pc \notin {"finalize", "ack"} => ~doc.embed
  BY Undisturbed
<1>2. /\ doc.embed \/ Owed("embed") \/ doc.status = "failed"
      /\ file.chat \/ doc.captions \/ Owed("caption") \/ Pending = {}
      /\ file.chat \/ doc.kg \/ Owed("kg") \/ Pending = {}
      /\ AllDone(doc) =>
            doc.status \in {"indexed", "failed"} \/ \E j \in Pending : j.pc = "finalize"
      /\ \A j \in Pending : j.pc = "settle" =>
            j.stage \in {"parse", "embed"} /\ doc.status = "failed"
      /\ \A j \in Pending : j.stage = "parse" /\ j.pc \in BeforeEmbed =>
            \A k \in Pending : k = j
  BY DEF OnTrack
<1>3. file' = file /\ doc \in Documents /\ IsABag(jobs) /\ Pending \subseteq Job
  BY EventsStay DEF TypeOK
<1>4. /\ \A j : ~Fault(j)
      /\ ~Duplicate /\ ~ApiRequest
  BY DEF Fault, DispatchFails, Timeout, Crash, Lose, Duplicate, ApiRequest, Reprocess,
     Reindex, ReindexWorkspace, Cancel, Occurs
<1> HIDE DEF Goal
<1>5. ASSUME NEW j \in Pending, NEW k, jobs' = Become(j, k)
      PROVE  /\ k \in Pending'
             /\ \A l \in Pending : l # j => l \in Pending'
             /\ \A l \in Pending' : l = k \/ l \in Pending
  BY <1>3, <1>5, OthersStay, BecomeElements DEF Pending
\* The parse job before it has published anything.
<1>6. ASSUME NEW j \in Pending, j.stage = "parse", j.pc \in BeforeEmbed,
             NEW k, k.stage = "parse", k.pc \in BeforeEmbed, k # j, jobs' = Become(j, k),
             ~doc'.embed, k.pc = "settle" => doc'.status = "failed"
      PROVE  Goal
  <2>1. \A l \in Pending' : l = k \/ (l \in Pending /\ l.stage # "parse")
    BY <1>1, <1>6, SoleStays
  <2>2. Pending' = {k}
    BY <1>2, <1>5, <1>6, <2>1
  <2>3. Carries(k, "embed") /\ Carries(k, "caption") /\ Carries(k, "kg")
    BY <1>6 DEF Carries, Before
  <2>4. Owed("embed")' /\ Owed("caption")' /\ Owed("kg")'
    BY <2>2, <2>3 DEF Owed
  <2> QED BY <1>6, <2>2, <2>4 DEF Goal, AllDone
\* A job that is handed on, and the row with it.
<1>7. ASSUME NEW j \in Pending, NEW k, jobs' = Become(j, k), k.stage = j.stage, k # j,
             j.stage # "parse",
             Carries(j, "embed") => Carries(k, "embed") \/ doc'.embed,
             Carries(j, "caption") => Carries(k, "caption") \/ doc'.captions,
             Carries(j, "kg") => Carries(k, "kg") \/ doc'.kg,
             doc.embed => doc'.embed, doc.captions => doc'.captions, doc.kg => doc'.kg,
             k.pc = "settle" => j.stage = "embed" /\ doc'.status = "failed",
             doc.status = "failed" => doc'.status = "failed" \/ Carries(j, "embed"),
             AllDone(doc)' => \/ doc'.status \in {"indexed", "failed"}
                              \/ k.pc = "finalize"
                              \/ AllDone(doc) /\ doc' = doc /\ j.pc # "finalize"
      PROVE  Goal
  <2>1. k \in Pending' /\ \A l \in Pending : l # j => l \in Pending'
    BY <1>5, <1>7
  <2>2. ASSUME NEW stage, Carries(j, stage) => Carries(k, stage)
        PROVE  Owed(stage) => Owed(stage)'
    BY <1>7, <2>2, HandedOn
  <2>3. \A l \in Pending' : l = k \/ (l \in Pending /\ (j.stage = "embed" => l.stage # "embed"))
    BY <1>1, <1>7, SoleStays
  <2>4. \A l \in Pending : l.stage = "parse" => l.pc \notin BeforeEmbed
    BY <1>2, <1>7
  <2>5. Early
    BY <1>7, <2>3, <2>4
  <2>6. Settled
    <3>1. SUFFICES ASSUME NEW l \in Pending', l.pc = "settle", l # k
                   PROVE  l.stage \in {"parse", "embed"} /\ doc'.status = "failed"
      BY <1>7
    <3>2. l \in Pending /\ l.stage \in {"parse", "embed"} /\ doc.status = "failed"
      BY <1>2, <2>3, <3>1
    <3>3. l.stage = "embed"
      BY <2>4, <3>1, <3>2 DEF BeforeEmbed
    <3>4. Carries(j, "embed") => j.stage = "embed"
      BY <1>7 DEF Carries
    <3> QED BY <1>7, <2>3, <3>1, <3>2, <3>3, <3>4
  <2>7. Embedded
    <3>1. CASE Carries(j, "embed")
      <4>1. doc'.embed \/ Owed("embed")'
        BY <1>7, <2>1, <3>1 DEF Owed
      <4> QED BY <4>1
    <3>2. CASE ~Carries(j, "embed")
      <4>1. doc.status = "failed" => doc'.status = "failed"
        BY <1>7, <3>2 DEF Carries
      <4> QED BY <1>2, <1>7, <2>2, <3>2, <4>1
    <3> QED BY <3>1, <3>2
  <2>8. Captioned
    <3>1. CASE Carries(j, "caption")
      <4>1. doc'.captions \/ Owed("caption")'
        BY <1>7, <2>1, <3>1 DEF Owed
      <4> QED BY <4>1
    <3>2. CASE ~Carries(j, "caption")
      BY <1>2, <1>3, <1>7, <2>2, <3>2
    <3> QED BY <3>1, <3>2
  <2>9. Ingested
    <3>1. CASE Carries(j, "kg")
      <4>1. doc'.kg \/ Owed("kg")'
        BY <1>7, <2>1, <3>1 DEF Owed
      <4> QED BY <4>1
    <3>2. CASE ~Carries(j, "kg")
      BY <1>2, <1>3, <1>7, <2>2, <3>2
    <3> QED BY <3>1, <3>2
  <2>10. Finishing
    <3>1. SUFFICES ASSUME AllDone(doc)', doc'.status \notin {"indexed", "failed"},
                          k.pc # "finalize"
                   PROVE  \E l \in Pending' : l.pc = "finalize"
      BY <2>1
    <3>2. AllDone(doc) /\ doc' = doc /\ j.pc # "finalize"
      BY <1>7, <3>1
    <3>3. PICK l \in Pending : l.pc = "finalize"
      BY <1>2, <3>1, <3>2
    <3> QED BY <2>1, <3>2, <3>3
  <2> QED BY <2>1, <2>5, <2>6, <2>7, <2>8, <2>9, <2>10 DEF Goal

\* A job that goes.
<1>8. ASSUME NEW j \in Pending, jobs' = Without(j), doc' = doc,
             \/ j.pc = "ack"
             \/ j.pc = "settle"
      PROVE  Goal
  <2>1. \A l \in Pending : l # j => l \in Pending'
    BY <1>8, OthersStay DEF Pending
  <2>2. \A l \in Pending' : l \in Pending
    BY <1>8, RemoveEffect
  <2>3. CASE j.pc = "ack"
    <3>1. \A stage \in {"embed", "caption", "kg"} : ~Carries(j, stage)
      BY <2>3 DEF Carries, Before, BeforeEmbed
    <3>2. \A stage \in {"embed", "caption", "kg"} : Owed(stage) => Owed(stage)'
      BY <2>1, <3>1 DEF Owed
    <3>3. (\E l \in Pending : l.pc = "finalize") => \E l \in Pending' : l.pc = "finalize"
      BY <2>1, <2>3
    <3>4. Embedded /\ Captioned /\ Ingested
      BY <1>2, <1>3, <1>8, <3>2
    <3>5. Finishing
      BY <1>2, <1>3, <1>8, <3>3 DEF AllDone
    <3>6. Ended
      <4>1. SUFFICES ASSUME Pending' = {} PROVE doc.status \in {"indexed", "failed"}
        BY <1>8
      <4>2. \A stage : ~Owed(stage)'
        BY <4>1 DEF Owed
      <4>3. ~Owed("embed") /\ ~Owed("caption") /\ ~Owed("kg")
        BY <3>2, <4>2
      <4>4. AllDone(doc) \/ doc.status = "failed"
        BY <1>2, <4>3 DEF AllDone
      <4> QED BY <1>2, <3>3, <4>1, <4>4
    <3>7. Settled /\ Early
      BY <1>2, <1>8, <2>2
    <3> QED BY <3>4, <3>5, <3>6, <3>7 DEF Goal
  <2>4. CASE j.pc = "settle"
    <3>1. j.stage \in {"parse", "embed"} /\ doc.status = "failed"
      BY <1>2, <2>4
    <3>2. Settled /\ Early
      BY <1>2, <1>8, <2>2
    <3>3. Captioned /\ Ingested
      <4>1. CASE j.stage = "parse"
        <5>1. \A l \in Pending : l = j
          BY <1>2, <2>4, <4>1 DEF BeforeEmbed
        <5>2. jobs[j] = 1
          BY <1>1, <4>1 DEF Sole
        <5>3. j \notin Pending'
          BY <1>3, <1>8, <5>2, WithoutElements DEF Pending
        <5> QED BY <2>2, <5>1, <5>3
      <4>2. CASE j.stage = "embed"
        <5>1. ~Carries(j, "caption") /\ ~Carries(j, "kg")
          BY <4>2 DEF Carries
        <5>2. /\ Owed("caption") => Owed("caption")'
              /\ Owed("kg") => Owed("kg")'
          BY <2>1, <5>1 DEF Owed
        <5> QED BY <1>2, <1>3, <1>8, <5>2
      <4> QED BY <3>1, <4>1, <4>2
    <3> QED BY <1>8, <3>1, <3>2, <3>3 DEF Goal
  <2> QED BY <1>8, <2>3, <2>4
<1>9. ASSUME NEW j \in Pending, ParseDispatch(j)
      PROVE  Goal
  <2> DEFINE pc == AfterDispatch(j.pc)
             k == [j EXCEPT !.pc = pc]
             m == Message(Target(j.pc))
             B == Become(j, k)
  <2>1. j \in Job /\ j.stage = "parse" /\ j.pc \in ToDispatch /\ doc' = doc
    BY <1>9 DEF ParseDispatch, TypeOK
  <2>2. pc \in {"to_caption", "to_kg", "ack"} /\ pc # j.pc
    BY <2>1 DEF AfterDispatch, ToDispatch
  <2>3. pc \in Progress(j.stage)
    BY <2>1, <2>2 DEF Progress, Handling, ToDispatch
  <2>4. k.stage = "parse" /\ k.pc = pc
    BY <2>1, <2>3, AdvancedJob
  <2>5. m.stage = Target(j.pc) /\ m.pc = "queue"
    BY DEF Message
  <2>6. jobs' = With(B, m)
    BY <1>9 DEF ParseDispatch, Advance
  <2>7. /\ file.chat \/ Carries(k, "caption") \/ j.pc # "to_embed"
        /\ file.chat \/ Carries(k, "kg") \/ j.pc = "to_kg"
    BY <2>1, <2>4 DEF AfterDispatch, Carries, Before, ToDispatch
  <2>8. /\ j.pc = "to_embed" => Carries(m, "embed")
        /\ j.pc = "to_caption" => Carries(m, "caption")
        /\ j.pc = "to_kg" => Carries(m, "kg")
    BY <2>5 DEF Target, Carries
  <2>9. m.stage \in {"embed", "caption", "kg"}
    BY <2>1, <2>5 DEF Target, ToDispatch
  <2> HIDE DEF pc, k, m
  <2>10. IsABag(B) /\ k \in BagToSet(B) /\ \A l \in Pending : l # j => l \in BagToSet(B)
    BY <1>3, OthersStay, BecomeElements
  <2>11. \A l \in BagToSet(B) : l = k \/ (l \in Pending /\ l.stage # "parse")
    BY <1>1, <2>1, <2>2, <2>4, SoleSuccessor
  <2> HIDE DEF B
  <2>12. Pending' = BagToSet(B) \cup {m}
    BY <2>6, <2>10, WithElements DEF Pending
  <2>13. ASSUME NEW stage, ~Carries(j, stage) PROVE Owed(stage) => Owed(stage)'
    BY <2>10, <2>12, <2>13 DEF Owed
  <2>14. Embedded
    <3>1. j.pc # "to_embed" => ~Carries(j, "embed")
      BY <2>1 DEF Carries, Before, BeforeEmbed, ToDispatch
    <3>2. Carries(m, "embed") => Owed("embed")'
      BY <2>12 DEF Owed
    <3> QED BY <1>2, <2>1, <2>8, <2>13, <3>1, <3>2
  <2>15. Captioned
    <3>1. j.pc = "to_kg" => ~Carries(j, "caption")
      BY <2>1 DEF Carries, Before, BeforeEmbed
    <3>2. Carries(m, "caption") \/ Carries(k, "caption") => Owed("caption")'
      BY <2>10, <2>12 DEF Owed
    <3>3. j.pc \in {"to_embed", "to_caption", "to_kg"}
      BY <2>1 DEF ToDispatch
    <3> QED BY <1>2, <1>3, <2>1, <2>7, <2>8, <2>13, <3>1, <3>2, <3>3
  <2>16. Ingested
    <3>1. Carries(m, "kg") \/ Carries(k, "kg") => Owed("kg")'
      BY <2>10, <2>12 DEF Owed
    <3> QED BY <1>3, <2>7, <2>8, <3>1
  <2>17. Finishing
    <3>1. j.pc # "finalize"
      BY <2>1 DEF ToDispatch
    <3>2. (\E l \in Pending : l.pc = "finalize") => \E l \in Pending' : l.pc = "finalize"
      BY <2>10, <2>12, <3>1
    <3> QED BY <1>2, <1>3, <2>1, <3>2 DEF AllDone
  <2>18. Settled
    BY <1>2, <2>1, <2>2, <2>4, <2>5, <2>11, <2>12
  <2>19. Early
    BY <2>2, <2>4, <2>9, <2>11, <2>12 DEF BeforeEmbed
  <2>20. Ended
    BY <2>12
  <2> QED BY <2>14, <2>15, <2>16, <2>17, <2>18, <2>19, <2>20 DEF Goal
<1>10. ASSUME NEW j \in Pending, j.stage = "parse", Step(j), ~ParseDispatch(j)
       PROVE  Goal
  <2>1. CASE ParseStart(j)
    <3>1. j.pc = "queue" /\ doc'.embed = doc.embed
      BY <1>3, <2>1 DEF ParseStart, At, Documents
    <3>2. jobs' = Become(j, WithRow(j, "parsing", [NewDocument EXCEPT !.raw = doc.raw]))
      BY <2>1 DEF ParseStart
    <3> DEFINE k == WithRow(j, "parsing", [NewDocument EXCEPT !.raw = doc.raw])
    <3>3. k.stage = "parse" /\ k.pc = "parsing"
      BY <1>10 DEF WithRow
    <3>4. jobs' = Become(j, k)
      BY <3>2
    <3> HIDE DEF k
    <3> QED BY <1>1, <1>6, <1>10, <3>1, <3>3, <3>4 DEF BeforeEmbed
  <2>2. CASE ParseStore(j)
    <3>1. PICK raw \in BOOLEAN : doc' = [doc EXCEPT !.status = "chunking", !.raw = raw]
      BY <1>3, <2>2, Zenon DEF ParseStore, Documents
    <3>2. j.pc = "parsing" /\ doc'.embed = doc.embed
      BY <1>3, <2>2, <3>1 DEF ParseStore, At, Documents
    <3> DEFINE k == WithRow(j, "to_embed", NewDocument)
    <3>3. k.stage = "parse" /\ k.pc = "to_embed"
      BY <1>10 DEF WithRow
    <3>4. jobs' = Become(j, k)
      BY <2>2 DEF ParseStore
    <3> HIDE DEF k
    <3> QED BY <1>1, <1>6, <1>10, <3>2, <3>3, <3>4 DEF BeforeEmbed
  <2>3. CASE ParseFails(j)
    <3>1. j.pc = "parsing" /\ doc'.embed = doc.embed /\ doc'.status = "failed"
      BY <1>3, <2>3 DEF ParseFails, Fail, At, Documents
    <3> DEFINE k == [j EXCEPT !.pc = "settle"]
    <3>2. k.stage = "parse" /\ k.pc = "settle"
      BY <1>3, <1>10 DEF Job
    <3>3. jobs' = Become(j, k)
      BY <2>3 DEF ParseFails, Fail, Advance
    <3> HIDE DEF k
    <3> QED BY <1>1, <1>6, <1>10, <3>1, <3>2, <3>3 DEF BeforeEmbed
  <2>4. CASE Settle(j)
    <3>1. CASE jobs' = Without(j)
      BY <1>8, <2>4, <3>1 DEF Settle
    <3>2. CASE jobs' # Without(j)
      <4> DEFINE k == [Message(j.stage) EXCEPT !.rc = j.rc + 1]
      <4>1. jobs' = Become(j, k) /\ j.pc = "settle" /\ doc' = doc
        BY <2>4, <3>2 DEF Settle
      <4>2. k.stage = j.stage /\ k.pc = "queue"
        BY DEF Message
      <4> HIDE DEF k
      <4> QED BY <1>1, <1>6, <1>10, <4>1, <4>2 DEF BeforeEmbed
    <3> QED BY <3>1, <3>2
  <2>5. CASE Ack(j)
    BY <1>8, <2>5 DEF Ack
  <2>6. j.pc \in Progress("parse")
    BY <1>3, <1>10, JobFields
  <2>7. ~Finalize(j)
    BY <2>6 DEF Finalize, Progress, Handling, ToDispatch
  <2> QED BY <1>1, <1>10, <2>1, <2>2, <2>3, <2>4, <2>5, <2>7
          DEF Step, ParseStep, EmbedStep, EmbedTake, EmbedVectors, EmbedDone, EmbedFails,
              CaptionStep, CaptionTake, CaptionPoll, CaptionGivesUp, CaptionVectors,
              CaptionDone, KgStep, KgTake, KgDone, ApiStep, Load, ResetRow, PublishParse,
              CleanUp, Rollback, At
<1>11. ASSUME NEW j \in Pending, j.stage # "parse", NEW pc, pc # j.pc,
              jobs' = Advance(j, pc)
       PROVE  \E k : jobs' = Become(j, k) /\ k.stage = j.stage /\ k.pc = pc /\ k # j
  <2> DEFINE k == [j EXCEPT !.pc = pc]
  <2>1. k.stage = j.stage /\ k.pc = pc
    BY <1>3 DEF Job
  <2>2. jobs' = Become(j, k)
    BY <1>11 DEF Advance
  <2> HIDE DEF k
  <2> QED BY <1>11, <2>1, <2>2
<1>12. ASSUME NEW j \in Pending, EmbedStep(j)
       PROVE  Goal
  <2>1. j.stage = "embed"
    BY <1>12 DEF EmbedStep, EmbedTake, EmbedVectors, EmbedDone, EmbedFails, At
  <2>2. j.pc \notin {"finalize", "ack"} /\ Carries(j, "embed") /\ ~doc.embed
        /\ ~Carries(j, "caption") /\ ~Carries(j, "kg")
    BY <1>1, <1>12, <2>1 DEF Carries, EmbedStep, EmbedTake, EmbedVectors, EmbedDone,
       EmbedFails, At
  <2>3. CASE EmbedTake(j) \/ EmbedVectors(j) \/ EmbedFails(j)
    <3>1. PICK pc : /\ jobs' = Advance(j, pc) /\ pc # j.pc /\ pc \notin {"finalize", "ack"}
                    /\ pc = "settle" => doc'.status = "failed"
      BY <1>3, <2>2, <2>3 DEF EmbedTake, EmbedVectors, EmbedFails, Fail, At, Documents
    <3>2. /\ ~doc'.embed
          /\ doc'.captions = doc.captions /\ doc'.kg = doc.kg
      BY <1>3, <2>2, <2>3 DEF EmbedTake, EmbedVectors, EmbedFails, Fail, Documents
    <3>3. PICK k : jobs' = Become(j, k) /\ k.stage = j.stage /\ k.pc = pc /\ k # j
      BY <1>11, <2>1, <3>1
    <3>4. Carries(k, "embed")
      BY <2>1, <3>1, <3>3 DEF Carries
    <3> QED BY <1>7, <2>1, <2>2, <3>1, <3>2, <3>3, <3>4 DEF AllDone
  <2>4. CASE EmbedDone(j)
    <3>1. /\ doc'.embed /\ doc'.status = doc.status
          /\ doc'.captions = doc.captions /\ doc'.kg = doc.kg
      BY <1>3, <2>4 DEF EmbedDone, Documents
    <3>2. PICK k : jobs' = Become(j, k) /\ k.stage = j.stage /\ k.pc = "finalize" /\ k # j
      BY <1>11, <2>1, <2>2, <2>4 DEF EmbedDone
    <3> QED BY <1>7, <2>1, <2>2, <3>1, <3>2
  <2> QED BY <1>12, <2>3, <2>4 DEF EmbedStep
<1>13. ASSUME NEW j \in Pending, CaptionStep(j)
       PROVE  Goal
  <2>1. j.stage = "caption"
    BY <1>13 DEF CaptionStep, CaptionTake, CaptionPoll, CaptionGivesUp, CaptionVectors,
       CaptionDone, At
  <2>2. j.pc \notin {"finalize", "ack"} /\ ~Carries(j, "embed") /\ ~Carries(j, "kg")
    BY <1>13, <2>1 DEF Carries, CaptionStep, CaptionTake, CaptionPoll, CaptionGivesUp,
       CaptionVectors, CaptionDone, At
  <2>3. CASE CaptionDone(j)
    <3>1. /\ doc'.captions /\ doc'.status = doc.status
          /\ doc'.embed = doc.embed /\ doc'.kg = doc.kg
      BY <1>3, <2>3 DEF CaptionDone, Documents
    <3>2. PICK k : jobs' = Become(j, k) /\ k.stage = j.stage /\ k.pc = "finalize" /\ k # j
      BY <1>11, <2>1, <2>2, <2>3 DEF CaptionDone
    <3> QED BY <1>7, <2>1, <2>2, <3>1, <3>2
  <2>4. CASE ~CaptionDone(j)
    <3>1. PICK pc : /\ jobs' = Advance(j, pc) /\ pc # j.pc
                    /\ pc \notin {"settle", "finalize"}
                    /\ pc = "ack" => doc.captions
      BY <1>13, <2>4 DEF CaptionStep, CaptionTake, CaptionPoll, CaptionGivesUp,
         CaptionVectors, At
    <3>2. doc' = doc
      BY <1>13, <2>4 DEF CaptionStep, CaptionTake, CaptionPoll, CaptionGivesUp, CaptionVectors
    <3>3. PICK k : jobs' = Become(j, k) /\ k.stage = j.stage /\ k.pc = pc /\ k # j
      BY <1>11, <2>1, <3>1
    <3>4. Carries(k, "caption") \/ doc.captions
      BY <2>1, <3>1, <3>3 DEF Carries
    <3> QED BY <1>3, <1>7, <2>1, <2>2, <3>1, <3>2, <3>3, <3>4 DEF AllDone
  <2> QED BY <2>3, <2>4
<1>14. ASSUME NEW j \in Pending, KgStep(j)
       PROVE  Goal
  <2>1. j.stage = "kg"
    BY <1>14 DEF KgStep, KgTake, KgDone, At
  <2>2. j.pc \notin {"finalize", "ack"} /\ ~Carries(j, "embed") /\ ~Carries(j, "caption")
    BY <1>14, <2>1 DEF Carries, KgStep, KgTake, KgDone, At
  <2>3. CASE KgDone(j)
    <3>1. /\ doc'.kg /\ doc'.status = doc.status
          /\ doc'.embed = doc.embed /\ doc'.captions = doc.captions
      BY <1>3, <2>3 DEF KgDone, Documents
    <3>2. PICK k : jobs' = Become(j, k) /\ k.stage = j.stage /\ k.pc = "finalize" /\ k # j
      BY <1>11, <2>1, <2>2, <2>3 DEF KgDone
    <3> QED BY <1>7, <2>1, <2>2, <3>1, <3>2
  <2>4. CASE KgTake(j)
    <3>1. PICK pc : /\ jobs' = Advance(j, pc) /\ pc # j.pc
                    /\ pc \notin {"settle", "finalize"}
                    /\ pc = "ack" => doc.kg
      BY <2>4 DEF KgTake, At
    <3>2. doc' = doc
      BY <2>4 DEF KgTake
    <3>3. PICK k : jobs' = Become(j, k) /\ k.stage = j.stage /\ k.pc = pc /\ k # j
      BY <1>11, <2>1, <3>1
    <3>4. Carries(k, "kg") \/ doc.kg
      BY <2>1, <3>1, <3>3 DEF Carries
    <3> QED BY <1>3, <1>7, <2>1, <2>2, <3>1, <3>2, <3>3, <3>4 DEF AllDone
  <2> QED BY <1>14, <2>3, <2>4 DEF KgStep
<1>15. ASSUME NEW j \in Pending, j.stage # "parse", Finalize(j)
       PROVE  Goal
  <2>1. j.pc = "finalize" /\ jobs' = Advance(j, "ack") /\ doc' = Finalized(doc)
    BY <1>15 DEF Finalize
  <2>2. PICK k : jobs' = Become(j, k) /\ k.stage = j.stage /\ k.pc = "ack" /\ k # j
    BY <1>11, <1>15, <2>1
  <2>3. \A stage : ~Carries(j, stage)
    BY <1>15, <2>1 DEF Carries
  <2>4. /\ doc'.embed = doc.embed /\ doc'.captions = doc.captions /\ doc'.kg = doc.kg
        /\ doc.status = "failed" => doc'.status = "failed"
        /\ AllDone(doc) => doc'.status \in {"indexed", "failed"}
    BY <1>3, <2>1 DEF Finalized, AllDone, Documents
  <2>5. AllDone(doc)' => AllDone(doc)
    BY <1>3, <2>4 DEF AllDone
  <2> QED BY <1>7, <1>15, <2>2, <2>3, <2>4, <2>5
<1>16. ASSUME NEW j \in Pending, j.stage # "parse", Settle(j)
       PROVE  Goal
  <2>1. j.pc = "settle" /\ doc' = doc /\ j.stage = "embed" /\ doc.status = "failed"
    BY <1>2, <1>15, <1>16 DEF Settle
  <2>2. CASE jobs' = Without(j)
    BY <1>8, <2>1, <2>2
  <2>3. CASE jobs' # Without(j)
    <3> DEFINE k == [Message(j.stage) EXCEPT !.rc = j.rc + 1]
    <3>1. jobs' = Become(j, k)
      BY <1>16, <2>3 DEF Settle
    <3>2. k.stage = j.stage /\ k.pc = "queue"
      BY DEF Message
    <3> HIDE DEF k
    <3>3. Carries(k, "embed") /\ ~Carries(j, "caption") /\ ~Carries(j, "kg")
      BY <2>1, <3>2 DEF Carries
    <3> QED BY <1>7, <2>1, <3>1, <3>2, <3>3
  <2> QED BY <2>2, <2>3
<1>17. ASSUME NEW j \in Pending, Ack(j)
       PROVE  Goal
  BY <1>8, <1>17 DEF Ack
<1>18. CASE UNCHANGED vars
  <2>1. Pending' = Pending /\ doc' = doc
    BY <1>18 DEF vars, Pending
  <2> QED BY <1>3, <2>1 DEF OnTrack, Goal, Owed, AllDone
<1>19. ASSUME NEW j \in Pending, Step(j)
       PROVE  Goal
  <2>1. ~ApiStep(j) /\ ~Rollback(j)
    BY <1>1 DEF ApiStep, Load, ResetRow, PublishParse, CleanUp, Rollback, At
  <2>2. ParseStep(j) => j.stage = "parse"
    BY DEF ParseStep, ParseStart, ParseStore, ParseDispatch, ParseFails, At
  <2> QED BY <1>9, <1>10, <1>12, <1>13, <1>14, <1>15, <1>16, <1>17, <1>19, <2>1, <2>2
          DEF Step
<1> QED BY <1>4, <1>18, <1>19 DEF Next

\* A document whose jobs are all done is INDEXED or FAILED; one with no jobs left
\* stays as it is.
LEMMA OutcomeChanges ==
    ASSUME Events = {}, TypeOK, OneRequest, OnePass, OnTrack, [Next]_vars,
           TypeOK', OnTrack'
    PROVE  [Abstract!Finish]_Outcome
<1>1. /\ jobs = EmptyBag <=> Pending = {}
      /\ (jobs = EmptyBag)' <=> Pending' = {}
  <2>1. IsABag(jobs) /\ IsABag(jobs')
    BY DEF TypeOK
  <2>2. \A bag : IsABag(bag) => (bag = EmptyBag <=> BagToSet(bag) = {})
    BY EmptyJobs
  <2> QED BY <2>1, <2>2 DEF Pending
<1>2. CASE Pending = {}
  <2>1. /\ ~Duplicate /\ ~ApiRequest
    BY DEF Duplicate, ApiRequest, Reprocess, Reindex, ReindexWorkspace, Cancel, Occurs
  <2>2. UNCHANGED vars
    BY <1>2, <2>1 DEF Next
  <2> QED BY <2>2 DEF vars, Outcome
<1>3. CASE Pending # {} /\ Pending' # {}
  <2>1. Outcome = "working" /\ Outcome' = "working"
    BY <1>1, <1>3 DEF Outcome
  <2> QED BY <2>1
<1>4. CASE Pending # {} /\ Pending' = {}
  <2>1. Outcome = "working"
    BY <1>1, <1>4 DEF Outcome
  <2>2. doc'.status \in {"indexed", "failed"}
    BY <1>4 DEF OnTrack
  <2>3. Outcome' = doc'.status
    BY <1>1, <1>4, <2>2 DEF Outcome
  <2> QED BY <2>1, <2>2, <2>3 DEF Abstract!Finish, Abstract!Outcomes
<1> QED BY <1>2, <1>3, <1>4

\* With no fault and no request a document that has been uploaded is worked on
\* until it is INDEXED or FAILED, keeps that outcome, and is never left without
\* one, whatever the workers' interleavings and retries: the safety part of
\* ComesToAnOutcome.
THEOREM PipelineImplementsIngestion ==
    ASSUME Events = {}
    PROVE  Spec => Abstract!Spec
<1>1. Init => OnTrack /\ Abstract!Init
  <2> SUFFICES ASSUME Init PROVE OnTrack /\ Abstract!Init
    OBVIOUS
  <2>1. Pending = {Message("parse")} /\ IsABag(jobs) /\ doc = NewDocument
    BY OneElement DEF Init, Pending
  <2>2. Message("parse").stage = "parse" /\ Message("parse").pc = "queue"
    BY DEF Message
  <2>3. Owed("embed") /\ Owed("caption") /\ Owed("kg")
    BY <2>1, <2>2 DEF Owed, Carries, Before, BeforeEmbed
  <2>4. OnTrack
    BY <2>1, <2>2, <2>3 DEF OnTrack, NewDocument, AllDone
  <2>5. jobs # EmptyBag
    BY <2>1, EmptyJobs DEF Pending
  <2> QED BY <2>4, <2>5 DEF Outcome, Abstract!Init
<1>2. TypeOK /\ OneRequest /\ OnePass /\ OnTrack /\ [Next]_vars => OnTrack'
  BY OnTrackInductive
<1>3. /\ TypeOK /\ OneRequest /\ OnePass /\ OnTrack /\ [Next]_vars
      /\ TypeOK' /\ OnTrack'
      => [Abstract!Finish]_Outcome
  BY OutcomeChanges
<1>4. StatusEarned => TypeOK /\ OneRequest
  BY DEF StatusEarned
<1> QED BY <1>1, <1>2, <1>3, <1>4, StatusIsEarned, OnePassHolds, PTL
        DEF Spec, Abstract!Spec
=============================================================================
