--------------------------- MODULE ServicesProofs ---------------------------
(***************************************************************************)
(* Theorems about the components that a run asks remote services through:  *)
(* RemoteSource, for any spaces, sizes and changes of the credentials,     *)
(* Shield, for runs of any length, ModelCall, for any answers, and         *)
(* ServiceTools, for any calls at once.                                    *)
(***************************************************************************)
EXTENDS RemoteSource, Shield, ModelCall, ServiceTools, FiniteSetTheorems, SequenceTheorems,
        TLAPS

(***************************************************************************)
(* RemoteSource: which requests are repeated, how often, and with which    *)
(* credential                                                              *)
(***************************************************************************)

\* A request that was sent.
Sent == [fresh : BOOLEAN, status : {"none"} \cup Statuses]

\* A record with the fields of a job.
Whole(j) ==
    j \in [pc : {j.pc}, op : {j.op}, credential : {j.credential}, sent : {j.sent},
           size : {j.size}, written : {j.written}, result : {j.result},
           listing : {j.listing}, counted : {j.counted}]

\* The requests before the n-th have had transient answers.
Repeats(sent, n) ==
    /\ sent \in Seq(Sent)
    /\ \A i \in 1 .. Len(sent) : sent[i].fresh
    /\ \A i \in 1 .. Len(sent) : i < n => sent[i].status = "transient"

\* What is left to send, and what is known of the requests that were sent.
JobOK(j, inForce, attempts) ==
    /\ Whole(j)
    /\ Len(j.sent) <= attempts
    /\ Repeats(j.sent, Len(j.sent))
    /\ j.pc \in {"idle", "credential", "send", "backoff"} =>
          Len(j.sent) < attempts /\ Repeats(j.sent, Len(j.sent) + 1)
    /\ j.pc = "wait" => Len(j.sent) > 0
    /\ j.pc = "send" => j.credential.from = "custom" \/ j.credential \in inForce

SourceInv ==
    /\ source.attempts \in 1 .. 3
    /\ RoleCredential \in witness.inForce
    /\ witness \in [inForce : {witness.inForce}, spaces : {witness.spaces}]
    /\ JobOK(job, witness.inForce, source.attempts)

LEMMA RetriesImplied == SourceInv => RetryIsFresh
BY DEF SourceInv, JobOK, Repeats, RetryIsFresh

LEMMA SourceInvInit == SourceInit => SourceInv
<1> SUFFICES ASSUME SourceInit PROVE SourceInv
  OBVIOUS
<1>1. PICK c \in Configs : Accepted(c) /\ source = NewRemoteSource(c)
  BY DEF SourceInit, Sources
<1>2. source.attempts \in 1 .. 3
  BY <1>1 DEF Accepted
<1>3. witness = [inForce |-> {RoleCredential}, spaces |-> {space}] /\ job = Waiting
  BY DEF SourceInit
<1>4. /\ RoleCredential \in witness.inForce
      /\ witness \in [inForce : {witness.inForce}, spaces : {witness.spaces}]
  BY <1>3
<1>5. Whole(job) /\ job.sent = <<>> /\ job.pc = "idle"
  BY <1>3 DEF Whole, Waiting
<1>6. JobOK(job, witness.inForce, source.attempts)
  BY <1>2, <1>5 DEF JobOK, Repeats
<1> QED BY <1>2, <1>4, <1>6 DEF SourceInv

\* The credential in force depends on what does not change here.
LEMMA RoleSame == UNCHANGED <<source, environment, file>> => RoleCredential' = RoleCredential
BY DEF RoleCredential

\* The call goes on, and nothing else does.
LEMMA JobStep ==
    ASSUME SourceInv, NEW j, job' = j, JobOK(j, witness.inForce, source.attempts),
           UNCHANGED <<source, environment, file, witness>>
    PROVE  SourceInv'
BY RoleSame DEF SourceInv

\* A step that sends nothing.
LEMMA QuietStep ==
    ASSUME SourceInv, NEW j, job' = j, Whole(j), j.sent = job.sent,
           j.pc \notin {"wait", "send", "idle", "backoff"},
           j.pc = "credential" => job.pc \in {"idle", "backoff"},
           UNCHANGED <<source, environment, file, witness>>
    PROVE  SourceInv'
<1>1. JobOK(j, witness.inForce, source.attempts)
  BY DEF SourceInv, JobOK
<1> QED BY <1>1, JobStep

LEMMA FailStep ==
    ASSUME SourceInv, Fail, UNCHANGED <<source, environment, file, witness>>
    PROVE  SourceInv'
<1> DEFINE j == [job EXCEPT !.pc = "returned", !.result = "error"]
<1>1. job' = j /\ Whole(job) BY DEF Fail, SourceInv, JobOK
<1>2. Whole(j) /\ j.sent = job.sent /\ j.pc = "returned" BY <1>1 DEF Whole
<1> HIDE DEF j
<1> QED BY <1>1, <1>2, QuietStep

\* The last request has its answer.
LEMMA StatusOK ==
    ASSUME NEW sent, Repeats(sent, Len(sent)), Len(sent) > 0, NEW status \in Statuses,
           NEW new, new = [sent EXCEPT ![Len(sent)] = [fresh |-> sent[Len(sent)].fresh,
                                                       status |-> status]]
    PROVE  /\ Len(new) = Len(sent) /\ Repeats(new, Len(new))
           /\ status = "transient" => Repeats(new, Len(new) + 1)
<1> DEFINE n == Len(sent)
           r == [fresh |-> sent[n].fresh, status |-> status]
<1>1. sent \in Seq(Sent) /\ n \in 1 .. n /\ n \in Nat
  BY DEF Repeats
<1>2. sent[n].fresh = TRUE
  BY <1>1 DEF Repeats
<1>3. r \in Sent /\ r.fresh /\ r.status = status
  BY <1>2 DEF Sent
<1>4. new = [sent EXCEPT ![n] = r]
  OBVIOUS
<1>5. /\ new \in Seq(Sent) /\ Len(new) = n
      /\ \A i \in 1 .. n : new[i] = IF i = n THEN r ELSE sent[i]
  <2> HIDE DEF r
  <2> QED BY <1>1, <1>3, <1>4, ExceptSeq
<1> HIDE DEF r
<1> QED BY <1>1, <1>3, <1>5 DEF Repeats

\* An answer ends the call, or the request is repeated for a transient one.
LEMMA AnswerStep ==
    ASSUME SourceInv, HasAnswer, NEW j, job' = j, Whole(j), NEW status \in Statuses,
           j.sent = Answered(status),
           \/ j.pc \in {"returned", "get"}
           \/ j.pc = "backoff" /\ status = "transient" /\ Len(job.sent) < source.attempts
    PROVE  SourceInv'
<1>1. /\ witness' = [witness EXCEPT !.inForce = {RoleCredential}]
      /\ UNCHANGED <<source, environment, file>> /\ job.pc = "wait"
  BY DEF HasAnswer, Around, On
<1>2. Repeats(job.sent, Len(job.sent)) /\ Len(job.sent) > 0 /\ Len(job.sent) <= source.attempts
  BY <1>1 DEF SourceInv, JobOK
<1>3. /\ Len(j.sent) = Len(job.sent) /\ Repeats(j.sent, Len(j.sent))
      /\ status = "transient" => Repeats(j.sent, Len(j.sent) + 1)
  BY <1>2, StatusOK DEF Answered
<1>4. /\ witness'.inForce = {RoleCredential}
      /\ witness' \in [inForce : {witness'.inForce}, spaces : {witness'.spaces}]
  BY <1>1 DEF SourceInv
<1>5. RoleCredential' \in witness'.inForce
  BY <1>1, <1>4, RoleSame
<1>6. JobOK(j, witness'.inForce, source.attempts)
  BY <1>2, <1>3 DEF JobOK
<1> QED BY <1>1, <1>4, <1>5, <1>6 DEF SourceInv

\* An answer that ends the call.
LEMMA FailWithStep ==
    ASSUME SourceInv, HasAnswer, NEW status \in Statuses, FailWith(status)
    PROVE  SourceInv'
<1> DEFINE j == [job EXCEPT !.sent = Answered(status), !.pc = "returned", !.result = "error"]
<1>1. job' = j /\ Whole(job) BY DEF FailWith, SourceInv, JobOK
<1>2. Whole(j) /\ j.sent = Answered(status) /\ j.pc = "returned" BY <1>1 DEF Whole
<1> HIDE DEF j
<1> QED BY <1>1, <1>2, AnswerStep

LEMMA SourceInvNext == SourceInv /\ [SourceNext]_sourceVars => SourceInv'
<1> SUFFICES ASSUME SourceInv, [SourceNext]_sourceVars PROVE SourceInv'
  OBVIOUS
<1>0. Whole(job) BY DEF SourceInv, JobOK
<1>1. CASE Discover
  <2> DEFINE j == [job EXCEPT !.pc = "credential", !.op = "list"]
  <2>1. job' = j /\ job.pc = "idle" /\ UNCHANGED <<Around, witness>> BY <1>1 DEF Discover, On
  <2>2. Whole(j) /\ j.sent = job.sent /\ j.pc = "credential" BY <1>0 DEF Whole
  <2> HIDE DEF j
  <2> QED BY <2>1, <2>2, QuietStep DEF Around
<1>2. CASE Download
  <2>1. UNCHANGED <<Around, witness>> /\ job.pc = "idle" BY <1>2 DEF Download, On
  <2>2. ASSUME NEW size, NEW op, job' = [job EXCEPT !.pc = "credential", !.size = size, !.op = op]
        PROVE  SourceInv'
    <3> DEFINE j == [job EXCEPT !.pc = "credential", !.size = size, !.op = op]
    <3>1. Whole(j) /\ j.sent = job.sent /\ j.pc = "credential" BY <1>0 DEF Whole
    <3>2. job' = j BY <2>2
    <3> HIDE DEF j
    <3> QED BY <2>1, <3>1, <3>2, QuietStep DEF Around
  <2> QED BY <1>2, <2>1, <2>2, FailStep DEF Download, Around
<1>3. CASE ResolveCredential
  <2>1. UNCHANGED <<Around, witness>> /\ job.pc = "credential"
    BY <1>3 DEF ResolveCredential, On
  <2>2. PICK c \in Resolutions :
           IF c = NoCredential \/ (job.op # "object" /\ ~ Signs(c))
           THEN Fail
           ELSE job' = [job EXCEPT !.credential = c,
                                   !.pc = IF job.op = "object" THEN "get" ELSE "send"]
    BY <1>3 DEF ResolveCredential
  <2>3. CASE Fail
    BY <2>1, <2>3, FailStep DEF Around
  <2>4. CASE /\ c # NoCredential /\ (job.op = "object" \/ Signs(c))
             /\ job' = [job EXCEPT !.credential = c,
                                   !.pc = IF job.op = "object" THEN "get" ELSE "send"]
    <3> DEFINE j == [job EXCEPT !.credential = c,
                                !.pc = IF job.op = "object" THEN "get" ELSE "send"]
    <3>1. /\ Whole(j) /\ j.sent = job.sent /\ j.credential = c
          /\ j.pc = IF job.op = "object" THEN "get" ELSE "send"
      BY <1>0 DEF Whole
    <3>2. job.op # "object" => c.from = "custom" \/ c \in witness.inForce
      BY <2>4 DEF Resolutions, Signs, Credential, SourceInv
    <3>3. JobOK(j, witness.inForce, source.attempts)
      BY <2>1, <3>1, <3>2 DEF SourceInv, JobOK
    <3>4. job' = j BY <2>4
    <3> HIDE DEF j
    <3> QED BY <2>1, <3>3, <3>4, JobStep DEF Around
  <2> QED BY <2>2, <2>3, <2>4
<1>4. CASE Send
  <2>1. UNCHANGED <<Around, witness>> /\ job.pc = "send" BY <1>4 DEF Send, On
  <2>2. CASE context = "done"
    BY <1>4, <2>1, <2>2, FailStep DEF Send, Around
  <2>3. CASE context # "done"
    <3> DEFINE r == [fresh |-> Fresh(job.credential), status |-> "none"]
               new == Append(job.sent, r)
               j == [job EXCEPT !.pc = "wait", !.sent = new]
    <3>1. job' = j BY <1>4, <2>3 DEF Send
    <3>2. Fresh(job.credential) = TRUE
      BY <2>1 DEF SourceInv, JobOK, Fresh
    <3>3. r \in Sent /\ r.fresh BY <3>2 DEF Sent
    <3>4. /\ Repeats(job.sent, Len(job.sent) + 1) /\ Len(job.sent) < source.attempts
          /\ Len(job.sent) \in Nat
      BY <2>1 DEF SourceInv, JobOK, Repeats
    <3>5. /\ new \in Seq(Sent) /\ Len(new) = Len(job.sent) + 1 /\ new[Len(job.sent) + 1] = r
          /\ \A i \in 1 .. Len(job.sent) : new[i] = job.sent[i]
      <4> HIDE DEF r
      <4> QED BY <3>3, <3>4, AppendProperties DEF Repeats
    <3>6. Repeats(new, Len(new))
      <4> HIDE DEF r, new
      <4> QED BY <3>3, <3>4, <3>5 DEF Repeats
    <3>7. Whole(j) /\ j.sent = new /\ j.pc = "wait"
      <4> HIDE DEF new
      <4> QED BY <1>0 DEF Whole
    <3>8. JobOK(j, witness.inForce, source.attempts)
      <4> HIDE DEF new, j
      <4> QED BY <3>4, <3>5, <3>6, <3>7 DEF JobOK, SourceInv
    <3> HIDE DEF j
    <3> QED BY <2>1, <3>1, <3>8, JobStep DEF Around
  <2> QED BY <2>2, <2>3
<1>5. CASE RequestFails
  BY <1>5, FailStep DEF RequestFails, Around
<1>6. CASE Transient
  <2>1. HasAnswer /\ "transient" \in Statuses BY <1>6 DEF Transient, Statuses
  <2>2. CASE Len(job.sent) < source.attempts
    <3> DEFINE j == [job EXCEPT !.sent = Answered("transient"), !.pc = "backoff"]
    <3>1. job' = j BY <1>6, <2>2 DEF Transient
    <3>2. Whole(j) /\ j.sent = Answered("transient") /\ j.pc = "backoff" BY <1>0 DEF Whole
    <3> HIDE DEF j
    <3> QED BY <2>1, <2>2, <3>1, <3>2, AnswerStep
  <2>3. CASE ~ (Len(job.sent) < source.attempts)
    BY <1>6, <2>1, <2>3, FailWithStep DEF Transient
  <2> QED BY <2>2, <2>3
<1>7. CASE Rejected
  BY <1>7, FailWithStep DEF Rejected, Statuses
<1>8. CASE Backoff
  <2>1. UNCHANGED <<Around, witness>> /\ job.pc = "backoff" BY <1>8 DEF Backoff, On
  <2>2. CASE Goes("credential")
    <3> DEFINE j == [job EXCEPT !.pc = "credential"]
    <3>1. job' = j BY <2>2 DEF Goes
    <3>2. Whole(j) /\ j.sent = job.sent /\ j.pc = "credential" BY <1>0 DEF Whole
    <3> HIDE DEF j
    <3> QED BY <2>1, <3>1, <3>2, QuietStep DEF Around
  <2>3. CASE Fail
    BY <2>1, <2>3, FailStep DEF Around
  <2> QED BY <1>8, <2>2, <2>3 DEF Backoff
<1>9. CASE Listed
  <2>1. HasAnswer /\ "ok" \in Statuses BY <1>9 DEF Listed, Statuses
  <2>2. ASSUME NEW items, NEW counted,
               job' = [job EXCEPT !.sent = Answered("ok"), !.pc = "returned",
                                  !.result = "listing", !.listing = items, !.counted = counted]
        PROVE  SourceInv'
    <3> DEFINE j == [job EXCEPT !.sent = Answered("ok"), !.pc = "returned",
                                !.result = "listing", !.listing = items, !.counted = counted]
    <3>1. job' = j BY <2>2
    <3>2. Whole(j) /\ j.sent = Answered("ok") /\ j.pc = "returned" BY <1>0 DEF Whole
    <3> HIDE DEF j
    <3> QED BY <2>1, <3>1, <3>2, AnswerStep
  <2>3. CASE FailWith("ok")
    BY <2>1, <2>3, FailWithStep
  <2> QED BY <1>9, <2>2, <2>3 DEF Listed
<1>10. CASE UrlGiven
  <2>1. HasAnswer /\ "ok" \in Statuses BY <1>10 DEF UrlGiven, Statuses
  <2>2. CASE job' = [job EXCEPT !.sent = Answered("ok"), !.pc = "get"]
    <3> DEFINE j == [job EXCEPT !.sent = Answered("ok"), !.pc = "get"]
    <3>1. job' = j BY <2>2
    <3>2. Whole(j) /\ j.sent = Answered("ok") /\ j.pc = "get" BY <1>0 DEF Whole
    <3> HIDE DEF j
    <3> QED BY <2>1, <3>1, <3>2, AnswerStep
  <2>3. CASE FailWith("ok")
    BY <2>1, <2>3, FailWithStep
  <2> QED BY <1>10, <2>2, <2>3 DEF UrlGiven
<1>11. CASE GetObject
  <2>1. UNCHANGED <<Around, witness>> /\ job.pc = "get" BY <1>11 DEF GetObject, On
  <2>2. CASE Goes("copy")
    <3> DEFINE j == [job EXCEPT !.pc = "copy"]
    <3>1. job' = j BY <2>2 DEF Goes
    <3>2. Whole(j) /\ j.sent = job.sent /\ j.pc = "copy" BY <1>0 DEF Whole
    <3> HIDE DEF j
    <3> QED BY <2>1, <3>1, <3>2, QuietStep DEF Around
  <2>3. CASE Fail
    BY <2>1, <2>3, FailStep DEF Around
  <2> QED BY <1>11, <2>2, <2>3 DEF GetObject
<1>12. CASE Copy
  <2>1. UNCHANGED <<Around, witness>> /\ job.pc = "copy" BY <1>12 DEF Copy, On
  <2>2. CASE job' = [job EXCEPT !.written = @ + 1]
    <3> DEFINE j == [job EXCEPT !.written = job.written + 1]
    <3>1. job' = j BY <2>2
    <3>2. Whole(j) /\ j.sent = job.sent /\ j.pc = "copy" BY <1>0, <2>1 DEF Whole
    <3> HIDE DEF j
    <3> QED BY <2>1, <3>1, <3>2, QuietStep DEF Around
  <2>3. CASE job' = [job EXCEPT !.pc = "returned", !.result = "archive"]
    <3> DEFINE j == [job EXCEPT !.pc = "returned", !.result = "archive"]
    <3>1. job' = j BY <2>3
    <3>2. Whole(j) /\ j.sent = job.sent /\ j.pc = "returned" BY <1>0 DEF Whole
    <3> HIDE DEF j
    <3> QED BY <2>1, <3>1, <3>2, QuietStep DEF Around
  <2>4. CASE Fail
    BY <2>1, <2>4, FailStep DEF Around
  <2> QED BY <1>12, <2>2, <2>3, <2>4 DEF Copy
<1>13. CASE Rotate
  <2>1. /\ witness' = [witness EXCEPT !.inForce = @ \cup {RoleCredential'}]
        /\ UNCHANGED <<source, job>>
    BY <1>13 DEF Rotate
  <2>2. /\ witness'.inForce = witness.inForce \cup {RoleCredential'}
        /\ witness' \in [inForce : {witness'.inForce}, spaces : {witness'.spaces}]
    BY <2>1 DEF SourceInv
  <2>3. JobOK(job, witness'.inForce, source.attempts)
    BY <2>2 DEF SourceInv, JobOK
  <2> QED BY <2>1, <2>2, <2>3 DEF SourceInv
<1>14. CASE Update
  <2>1. /\ witness' = [witness EXCEPT !.spaces = @ \cup {space'}]
        /\ UNCHANGED <<source, environment, file, job>>
    BY <1>14 DEF Update
  <2>2. /\ witness'.inForce = witness.inForce
        /\ witness' \in [inForce : {witness'.inForce}, spaces : {witness'.spaces}]
    BY <2>1 DEF SourceInv
  <2> QED BY <2>1, <2>2, RoleSame DEF SourceInv
<1>15. CASE ContextEnds
  BY <1>15, RoleSame DEF SourceInv, ContextEnds
<1>16. CASE UNCHANGED sourceVars
  BY <1>16, RoleSame DEF SourceInv, sourceVars
<1> QED BY <1>1, <1>2, <1>3, <1>4, <1>5, <1>6, <1>7, <1>8, <1>9, <1>10, <1>11, <1>12, <1>13,
           <1>14, <1>15, <1>16 DEF SourceNext

\* A request is repeated only for a transient answer, as often as the
\* configuration allows, and never with a credential that had been replaced
\* before that answer came (RemoteSource.request and requestOnce).
THEOREM RetriesAreFresh == SourceSpec => []RetryIsFresh
<1>1. SourceInit => SourceInv BY SourceInvInit
<1>2. SourceInv /\ [SourceNext]_sourceVars => SourceInv' BY SourceInvNext
<1>3. SourceInv => RetryIsFresh BY RetriesImplied
<1> QED BY <1>1, <1>2, <1>3, PTL DEF SourceSpec

(***************************************************************************)
(* RemoteSource: what a call returns                                       *)
(***************************************************************************)

\* How much of an archive is written; and nothing is returned before the end.
AnswerInv ==
    /\ space \in Spaces /\ space \in witness.spaces
    /\ job.size \in Nat /\ job.written \in 0 .. job.size /\ job.written <= MaxObject
    /\ job.pc = "idle" => job.written = 0
    /\ job.pc # "returned" => job.result = "none"
    /\ AnswersWhole

\* The call goes on, or ends with an error, and has written what fits.
GoesOn ==
    /\ job'.result = job.result \/ job'.result = "error"
    /\ job'.pc # "returned" => job'.result = job.result
    /\ job'.pc # "idle" /\ job.pc # "returned"
    /\ job'.size \in Nat /\ job'.written \in 0 .. job'.size /\ job'.written <= MaxObject

LEMMA GoesOnWhole ==
    ASSUME AnswerInv, GoesOn, UNCHANGED space, witness'.spaces = witness.spaces
    PROVE  AnswerInv'
BY DEF AnswerInv, GoesOn, AnswersWhole

\* An answer to a request leaves what the space has held.
LEMMA AnswerHolds ==
    ASSUME SourceInv, HasAnswer
    PROVE  UNCHANGED space /\ witness'.spaces = witness.spaces /\ job.pc = "wait"
<1>1. witness' = [witness EXCEPT !.inForce = {RoleCredential}] /\ UNCHANGED space /\ job.pc = "wait"
  BY DEF HasAnswer, Around, On
<1> QED BY <1>1 DEF SourceInv

LEMMA FailGoesOn ==
    ASSUME SourceInv, AnswerInv, job.pc # "returned",
           Fail \/ \E status \in Statuses : FailWith(status)
    PROVE  GoesOn
<1>1. Whole(job) BY DEF SourceInv, JobOK
<1>2. /\ job'.size = job.size /\ job'.written = job.written
      /\ job'.pc = "returned" /\ job'.result = "error"
  BY <1>1 DEF Fail, FailWith, Whole
<1> QED BY <1>2 DEF GoesOn, AnswerInv

\* A listing is a part of the space as it is, all of it if it was counted.
LEMMA ListingWhole ==
    ASSUME SourceInv, AnswerInv, HasAnswer, NEW n \in 0 .. Len(space), NEW counted \in BOOLEAN,
           ~ (counted /\ Len(space) # n), Usable(SubSeq(space, 1, n)),
           job' = [job EXCEPT !.sent = Answered("ok"), !.pc = "returned",
                              !.result = "listing", !.listing = SubSeq(space, 1, n),
                              !.counted = counted]
    PROVE  AnswerInv'
<1>1. Whole(job) BY DEF SourceInv, JobOK
<1>2. /\ job'.size = job.size /\ job'.written = job.written /\ job'.pc = "returned"
      /\ job'.result = "listing" /\ job'.listing = SubSeq(space, 1, n)
      /\ job'.counted = counted
  <2> DEFINE items == SubSeq(space, 1, n)
             sent == Answered("ok")
  <2>1. job' = [job EXCEPT !.sent = sent, !.pc = "returned", !.result = "listing",
                           !.listing = items, !.counted = counted]
    OBVIOUS
  <2> HIDE DEF items, sent
  <2>2. /\ job'.size = job.size /\ job'.written = job.written /\ job'.pc = "returned"
        /\ job'.result = "listing" /\ job'.listing = items /\ job'.counted = counted
    BY <1>1, <2>1 DEF Whole
  <2> QED BY <2>2 DEF items
<1>3. space \in Seq(Items) /\ Len(SubSeq(space, 1, n)) = n
  BY SpacesAssumption DEF AnswerInv
<1>4. UNCHANGED space /\ witness'.spaces = witness.spaces
  BY AnswerHolds
<1>5. \E held \in witness'.spaces, m \in 0 .. Len(job'.listing) :
         /\ m <= Len(held) /\ job'.listing = SubSeq(held, 1, m)
         /\ job'.counted => m = Len(held)
  <2>1. /\ space \in witness'.spaces /\ n \in 0 .. Len(job'.listing) /\ n <= Len(space)
        /\ job'.listing = SubSeq(space, 1, n)
        /\ job'.counted => n = Len(space)
    BY <1>2, <1>3, <1>4 DEF AnswerInv
  <2> QED BY <2>1
<1>6. AnswersWhole'
  BY <1>2, <1>5 DEF AnswersWhole
<1> QED BY <1>2, <1>4, <1>6 DEF AnswerInv

LEMMA AnswerInvNext == SourceInv /\ AnswerInv /\ [SourceNext]_sourceVars => AnswerInv'
<1> SUFFICES ASSUME SourceInv, AnswerInv, [SourceNext]_sourceVars PROVE AnswerInv'
  OBVIOUS
<1>0. Whole(job) BY DEF SourceInv, JobOK
<1> DEFINE Same == UNCHANGED space /\ witness'.spaces = witness.spaces
<1>1. CASE Discover
  <2>1. /\ job' = [job EXCEPT !.pc = "credential", !.op = "list"] /\ job.pc = "idle"
        /\ UNCHANGED <<Around, witness>>
    BY <1>1 DEF Discover, On
  <2>2. GoesOn
    BY <1>0, <2>1 DEF Whole, GoesOn, AnswerInv
  <2> QED BY <2>1, <2>2, GoesOnWhole DEF Around
<1>2. CASE Download
  <2>1. UNCHANGED <<Around, witness>> /\ job.pc = "idle"
    BY <1>2 DEF Download, On
  <2>2. ASSUME NEW size \in ObjectSizes, NEW op,
               job' = [job EXCEPT !.pc = "credential", !.size = size, !.op = op]
        PROVE  GoesOn
    <3>1. /\ job'.size = size /\ job'.written = job.written /\ job'.pc = "credential"
          /\ job'.result = job.result
      BY <1>0, <2>2 DEF Whole
    <3> QED BY <2>1, <3>1, RemoteSourceAssumption DEF GoesOn, AnswerInv
  <2>3. GoesOn
    BY <1>2, <2>1, <2>2, FailGoesOn DEF Download
  <2> QED BY <2>1, <2>3, GoesOnWhole DEF Around
<1>3. CASE ResolveCredential
  <2>1. UNCHANGED <<Around, witness>> /\ job.pc = "credential"
    BY <1>3 DEF ResolveCredential, On
  <2>2. ASSUME NEW c, job' = [job EXCEPT !.credential = c,
                                 !.pc = IF job.op = "object" THEN "get" ELSE "send"]
        PROVE  GoesOn
    BY <1>0, <2>1, <2>2 DEF Whole, GoesOn, AnswerInv
  <2>3. GoesOn
    BY <1>3, <2>1, <2>2, FailGoesOn DEF ResolveCredential
  <2> QED BY <2>1, <2>3, GoesOnWhole DEF Around
<1>4. CASE Send
  <2>1. UNCHANGED <<Around, witness>> /\ job.pc = "send" BY <1>4 DEF Send, On
  <2>2. ASSUME NEW sent, job' = [job EXCEPT !.pc = "wait", !.sent = sent] PROVE GoesOn
    BY <1>0, <2>1, <2>2 DEF Whole, GoesOn, AnswerInv
  <2>3. GoesOn
    BY <1>4, <2>1, <2>2, FailGoesOn DEF Send
  <2> QED BY <2>1, <2>3, GoesOnWhole DEF Around
<1>5. CASE RequestFails
  <2>1. UNCHANGED <<Around, witness>> /\ job.pc = "wait" /\ Fail
    BY <1>5 DEF RequestFails, On
  <2> QED BY <2>1, FailGoesOn, GoesOnWhole DEF Around
<1>6. CASE Transient \/ Rejected \/ UrlGiven
  <2>1. HasAnswer /\ Same /\ job.pc = "wait"
    BY <1>6, AnswerHolds DEF Transient, Rejected, UrlGiven
  <2>2. ASSUME NEW sent, NEW place \in {"backoff", "get"},
               job' = [job EXCEPT !.sent = sent, !.pc = place]
        PROVE  GoesOn
    BY <1>0, <2>1, <2>2 DEF Whole, GoesOn, AnswerInv
  <2>3. {"transient", "refused", "ok"} \subseteq Statuses BY DEF Statuses
  <2>4. GoesOn
    BY <1>6, <2>1, <2>2, <2>3, FailGoesOn DEF Transient, Rejected, UrlGiven
  <2> QED BY <2>1, <2>4, GoesOnWhole
<1>7. CASE Backoff
  <2>1. UNCHANGED <<Around, witness>> /\ job.pc = "backoff" BY <1>7 DEF Backoff, On
  <2>2. CASE Goes("credential")
    <3>1. GoesOn
      BY <1>0, <2>1, <2>2 DEF Goes, Whole, GoesOn, AnswerInv
    <3> QED BY <2>1, <3>1, GoesOnWhole DEF Around
  <2>3. CASE Fail
    BY <2>1, <2>3, FailGoesOn, GoesOnWhole DEF Around
  <2> QED BY <1>7, <2>2, <2>3 DEF Backoff
<1>8. CASE Listed
  <2>1. HasAnswer /\ Same /\ job.pc = "wait" /\ "ok" \in Statuses
    BY <1>8, AnswerHolds DEF Listed, Statuses
  <2>2. CASE FailWith("ok")
    BY <2>1, <2>2, FailGoesOn, GoesOnWhole
  <2> QED BY <1>8, <2>1, <2>2, ListingWhole DEF Listed
<1>9. CASE GetObject
  <2>1. UNCHANGED <<Around, witness>> /\ job.pc = "get" BY <1>9 DEF GetObject, On
  <2>2. CASE Goes("copy")
    <3>1. GoesOn
      BY <1>0, <2>1, <2>2 DEF Goes, Whole, GoesOn, AnswerInv
    <3> QED BY <2>1, <3>1, GoesOnWhole DEF Around
  <2>3. CASE Fail
    BY <2>1, <2>3, FailGoesOn, GoesOnWhole DEF Around
  <2> QED BY <1>9, <2>2, <2>3 DEF GetObject
<1>10. CASE Copy
  <2>1. UNCHANGED <<Around, witness>> /\ job.pc = "copy" BY <1>10 DEF Copy, On
  <2>2. CASE job.written < job.size /\ job.written < MaxObject
             /\ job' = [job EXCEPT !.written = @ + 1]
    <3>1. /\ job'.size = job.size /\ job'.written = job.written + 1 /\ job'.pc = "copy"
          /\ job'.result = job.result
      BY <1>0, <2>1, <2>2 DEF Whole
    <3>2. GoesOn
      BY <2>1, <2>2, <3>1, RemoteSourceAssumption DEF GoesOn, AnswerInv
    <3> QED BY <2>1, <3>2, GoesOnWhole DEF Around
  <2>3. CASE /\ job.written = job.size
             /\ job' = [job EXCEPT !.pc = "returned", !.result = "archive"]
    <3>1. /\ job'.size = job.size /\ job'.written = job.written /\ job'.pc = "returned"
          /\ job'.result = "archive"
      BY <1>0, <2>3 DEF Whole
    <3> QED BY <2>1, <2>3, <3>1 DEF AnswerInv, AnswersWhole, Around
  <2>4. CASE Fail
    BY <2>1, <2>4, FailGoesOn, GoesOnWhole DEF Around
  <2> QED BY <1>10, <2>2, <2>3, <2>4 DEF Copy
<1>11. CASE Rotate
  <2>1. /\ witness' = [witness EXCEPT !.inForce = @ \cup {RoleCredential'}]
        /\ UNCHANGED <<space, job>>
    BY <1>11 DEF Rotate
  <2>2. witness'.spaces = witness.spaces BY <2>1 DEF SourceInv
  <2> QED BY <2>1, <2>2 DEF AnswerInv, AnswersWhole
<1>12. CASE Update
  <2>1. /\ witness' = [witness EXCEPT !.spaces = @ \cup {space'}]
        /\ space' \in Spaces /\ UNCHANGED job
    BY <1>12 DEF Update
  <2>2. witness'.spaces = witness.spaces \cup {space'} BY <2>1 DEF SourceInv
  <2> QED BY <2>1, <2>2 DEF AnswerInv, AnswersWhole
<1>13. CASE ContextEnds \/ UNCHANGED sourceVars
  BY <1>13 DEF AnswerInv, AnswersWhole, ContextEnds, sourceVars
<1> QED BY <1>1, <1>2, <1>3, <1>4, <1>5, <1>6, <1>7, <1>8, <1>9, <1>10, <1>11, <1>12, <1>13
        DEF SourceNext

\* A listing that is returned is what the space held during the call, all of it
\* if the service has said how long it is; an archive is whole and within the
\* limit (RemoteSource.Discover, Download and what they read answers with).
THEOREM AnswersAreWhole == SourceSpec => []AnswersWhole
<1>1. SourceInit => AnswerInv
  <2> SUFFICES ASSUME SourceInit PROVE AnswerInv
    OBVIOUS
  <2>1. /\ space \in Spaces /\ witness = [inForce |-> {RoleCredential}, spaces |-> {space}]
        /\ job = Waiting
    BY DEF SourceInit
  <2> QED BY <2>1, RemoteSourceAssumption DEF AnswerInv, AnswersWhole, Waiting
<1>2. SourceInit => SourceInv BY SourceInvInit
<1>3. SourceInv /\ [SourceNext]_sourceVars => SourceInv' BY SourceInvNext
<1>4. SourceInv /\ AnswerInv /\ [SourceNext]_sourceVars => AnswerInv' BY AnswerInvNext
<1>5. AnswerInv => AnswersWhole BY DEF AnswerInv
<1> QED BY <1>1, <1>2, <1>3, <1>4, <1>5, PTL DEF SourceSpec

(***************************************************************************)
(* Shield: what the plugin lets by was permitted, or was to be let by by   *)
(* the policy                                                              *)
(***************************************************************************)

Ways == {"unchanged", "replaced", "unchecked"}

\* What has gone on its way.
Passage == [hook : Hooks, how : Ways, reply : Replies, moderated : BOOLEAN,
            cancelled : BOOLEAN]

PassageOK(p) ==
    /\ p.how = "unchecked" => shield.policy = "fail_open" /\ ~ Permits(p.reply)
    /\ p.moderated => /\ ~ p.cancelled
                      /\ p.how = "unchanged" => Permits(p.reply)
                      /\ Blocks(p.reply) <=> p.how = "replaced"

\* A place of the run; nothing is known of a message before it was judged.
Place == [hook : Hooks, pc : {"arrived", "credential", "asked", "judged", "aborted"},
          message : {"text", "other", "error"}, reply : Replies, cancelled : BOOLEAN]

PlaceOK ==
    \/ at = Between
    \/ at \in Place /\ (at.pc = "arrived" => at.reply = NoReply)

PassedInv ==
    /\ shield \in Shields
    /\ passed \in Seq(Passage)
    /\ \A i \in 1 .. Len(passed) : PassageOK(passed[i])

ShieldInv == PlaceOK /\ PassedInv

\* Without an answer there is neither a permission nor a block, and no answer
\* is both.
LEMMA AskAnswers ==
    /\ NoReply \in Replies /\ ~ Permits(NoReply) /\ ~ Blocks(NoReply)
    /\ \A reply \in Replies : ~ (Permits(reply) /\ Blocks(reply))
    /\ \A reply \in Replies : Decision(reply) = "block" <=> Blocks(reply)
    /\ \A reply \in Replies : Decision(reply) = "permit" <=> Permits(reply)
BY DEF NoReply, Replies, Permits, Blocks, Decision

\* One more passage.
LEMMA PassStep ==
    ASSUME PassedInv, NEW p \in Passage, PassageOK(p), passed' = Append(passed, p),
           at' = Between, shield' = shield
    PROVE  ShieldInv'
<1>1. /\ passed' \in Seq(Passage) /\ Len(passed') = Len(passed) + 1
      /\ passed'[Len(passed) + 1] = p
      /\ \A i \in 1 .. Len(passed) : passed'[i] = passed[i]
      /\ Len(passed) \in Nat
  BY AppendProperties DEF PassedInv
<1>2. ASSUME NEW i \in 1 .. Len(passed') PROVE PassageOK(passed'[i])
  BY <1>1, <1>2 DEF PassedInv
<1>3. \A i \in 1 .. Len(passed') : PassageOK(passed[i])'
  BY <1>2 DEF PassageOK
<1> QED BY <1>1, <1>3 DEF ShieldInv, PlaceOK, PassedInv

\* The run moves on and nothing passes.
LEMMA PlaceStep ==
    ASSUME PassedInv, UNCHANGED <<shield, passed>>, at' \in Place,
           at'.pc = "arrived" => at'.reply = NoReply
    PROVE  ShieldInv'
<1>1. PassedInv' BY DEF PassedInv, PassageOK
<1>2. PlaceOK' BY DEF PlaceOK
<1> QED BY <1>1, <1>2 DEF ShieldInv

\* Nor does it where an error ends the run, or is told to the model.
LEMMA AbortStep ==
    ASSUME PassedInv, at \in Place, shield' = shield, Abort
    PROVE  ShieldInv'
<1>1. UNCHANGED passed BY DEF Abort
<1>2. CASE at' = [at EXCEPT !.pc = "aborted"]
  <2>1. at' \in Place /\ at'.pc = "aborted" BY <1>2 DEF Place
  <2> QED BY <1>1, <2>1, PlaceStep
<1>3. CASE at' = Between
  BY <1>1, <1>3 DEF ShieldInv, PlaceOK, PassedInv, PassageOK
<1> QED BY <1>2, <1>3 DEF Abort

LEMMA ShieldInvNext == ShieldInv /\ [ShieldNext]_shieldVars => ShieldInv'
<1> SUFFICES ASSUME ShieldInv, [ShieldNext]_shieldVars PROVE ShieldInv'
  OBVIOUS
<1> USE DEF ShieldInv
<1>0. ASSUME at.pc # "between" PROVE at \in Place
  BY <1>0 DEF PlaceOK, Between
<1>1. CASE Arrive
  <2>1. /\ at' \in Place /\ at'.reply = NoReply
    BY <1>1, AskAnswers DEF Arrive, Place
  <2> QED BY <1>1, <2>1, PlaceStep DEF Arrive
<1>2. CASE Skip
  <2> DEFINE p == [hook |-> at.hook, how |-> "unchanged", reply |-> at.reply,
                   moderated |-> at.pc # "arrived", cancelled |-> at.cancelled \/ Cancelled]
  <2>1. at \in Place /\ at.pc = "arrived" BY <1>0, <1>2 DEF Skip, Stage
  <2>2. p \in Passage /\ ~ p.moderated /\ p.how = "unchanged"
    BY <2>1 DEF Passage, Place, Ways, Cancelled
  <2>3. passed' = Append(passed, p) /\ at' = Between /\ shield' = shield
    BY <1>2 DEF Skip, Pass
  <2>4. PassageOK(p) BY <2>2 DEF PassageOK
  <2> HIDE DEF p
  <2> QED BY <2>2, <2>3, <2>4, PassStep
<1>3. CASE Unencodable
  <2>1. at \in Place /\ at.pc = "arrived" /\ at.reply = NoReply
    BY <1>0, <1>3 DEF Unencodable, Stage, PlaceOK, Between
  <2>2. CASE shield.policy = "fail_open"
    <3> DEFINE p == [hook |-> at.hook, how |-> "unchecked", reply |-> at.reply,
                     moderated |-> at.pc # "arrived", cancelled |-> at.cancelled \/ Cancelled]
    <3>1. p \in Passage /\ ~ p.moderated /\ p.how = "unchecked" /\ p.reply = NoReply
      BY <2>1 DEF Passage, Place, Ways, Cancelled
    <3>2. passed' = Append(passed, p) /\ at' = Between /\ shield' = shield
      BY <1>3, <2>2 DEF Unencodable, Fails, Pass
    <3>3. PassageOK(p) BY <2>2, <3>1, AskAnswers DEF PassageOK
    <3> HIDE DEF p
    <3> QED BY <3>1, <3>2, <3>3, PassStep
  <2>3. CASE shield.policy # "fail_open"
    <3>1. Abort /\ shield' = shield BY <1>3, <2>3 DEF Unencodable, Fails
    <3> QED BY <2>1, <3>1, AbortStep
  <2> QED BY <2>2, <2>3
<1>4. CASE Enter
  <2>1. at \in Place /\ shield' = shield
    BY <1>0, <1>4 DEF Enter, Stage
  <2>2. CASE Go("credential") /\ UNCHANGED passed
    <3>1. at' \in Place /\ at'.pc # "arrived" BY <2>1, <2>2 DEF Place, Go
    <3> QED BY <2>1, <2>2, <3>1, PlaceStep
  <2> QED BY <1>4, <2>1, <2>2, AbortStep DEF Enter
<1>5. CASE Authorize
  <2>1. at \in Place /\ UNCHANGED <<shield, passed>>
        /\ at' \in {[at EXCEPT !.pc = "asked"],
                    [at EXCEPT !.pc = "judged", !.cancelled = Cancelled]}
    BY <1>0, <1>5 DEF Authorize, Stage, Go
  <2>2. at' \in Place /\ at'.pc # "arrived" BY <2>1 DEF Place, Cancelled
  <2> QED BY <2>1, <2>2, PlaceStep
<1>6. CASE Reply
  <2>1. PICK reply \in Replies :
           at' = [at EXCEPT !.pc = "judged", !.reply = reply, !.cancelled = Cancelled]
    BY <1>6 DEF Reply
  <2>2. at \in Place /\ UNCHANGED <<shield, passed>> BY <1>0, <1>6 DEF Reply, Stage
  <2>3. at' \in Place /\ at'.pc # "arrived" BY <2>1, <2>2 DEF Place, Cancelled
  <2> QED BY <2>2, <2>3, PlaceStep
<1>7. CASE Decide
  <2>1. at \in Place /\ at.pc = "judged" BY <1>0, <1>7 DEF Decide, Stage
  <2>2. at.reply \in Replies /\ shield' = shield BY <1>7, <2>1 DEF Decide, Place
  <2>3. CASE Abort
    BY <2>1, <2>2, <2>3, AbortStep
  <2>4. ASSUME NEW how \in Ways, Pass(how), ~ (at.cancelled \/ Cancelled),
               how = "replaced" <=> Blocks(at.reply),
               how = "unchanged" => Permits(at.reply),
               how = "unchecked" => shield.policy = "fail_open" /\ ~ Permits(at.reply)
        PROVE  ShieldInv'
    <3> DEFINE p == [hook |-> at.hook, how |-> how, reply |-> at.reply,
                     moderated |-> at.pc # "arrived", cancelled |-> at.cancelled \/ Cancelled]
    <3>1. /\ p \in Passage /\ p.how = how /\ p.reply = at.reply
          /\ ~ p.cancelled
      BY <2>1, <2>4 DEF Passage, Place, Cancelled
    <3>2. PassageOK(p) BY <2>4, <3>1 DEF PassageOK
    <3>3. passed' = Append(passed, p) /\ at' = Between BY <2>4 DEF Pass
    <3> HIDE DEF p
    <3> QED BY <2>2, <3>1, <3>2, <3>3, PassStep
  <2>5. CASE Gone /\ Abort
    BY <2>3, <2>5
  <2>6. CASE ~ Gone /\ Decision(at.reply) = "block" /\ Pass("replaced")
    BY <2>2, <2>4, <2>6, AskAnswers DEF Gone, Ways
  <2>7. CASE ~ Gone /\ Decision(at.reply) = "permit" /\ Pass("unchanged")
    BY <2>2, <2>4, <2>7, AskAnswers DEF Gone, Ways
  <2>8. CASE ~ Gone /\ Decision(at.reply) = "failed" /\ Fails
    <3>1. CASE shield.policy = "fail_open" /\ Pass("unchecked")
      BY <2>2, <2>4, <2>8, <3>1, AskAnswers DEF Gone, Ways
    <3> QED BY <2>3, <2>8, <3>1 DEF Fails
  <2> QED BY <1>7, <2>5, <2>6, <2>7, <2>8 DEF Decide
<1>8. CASE Cancel \/ UNCHANGED shieldVars
  BY <1>8 DEF Cancel, shieldVars, PlaceOK, PassedInv, PassageOK
<1> QED
  BY <1>1, <1>2, <1>3, <1>4, <1>5, <1>6, <1>7, <1>8 DEF ShieldNext

\* Nothing that was to be blocked goes on, nothing goes on unchecked but in
\* fail-open mode and after a failure, and no check that saw its caller go lets
\* anything by (check of llm_shield_plugin.go, shieldDecision of llm_shield.go).
THEOREM OnlyPermittedPasses == ShieldSpec => []PassesOnlyPermitted
<1>1. ShieldInit => ShieldInv
  BY DEF ShieldInit, ShieldInv, PlaceOK, PassedInv
<1>2. ShieldInv /\ [ShieldNext]_shieldVars => ShieldInv'
  BY ShieldInvNext
<1>3. ShieldInv => PassesOnlyPermitted
  BY DEF ShieldInv, PassedInv, PassageOK, PassesOnlyPermitted
<1> QED BY <1>1, <1>2, <1>3, PTL DEF ShieldSpec

(***************************************************************************)
(* ModelCall: responses are the answers, and tokens are counted            *)
(***************************************************************************)

Places == {"idle", "asking", "reading", "ended", "over"}
ToolCalls == [need : {0, ArgPieces}, sent : Nat]
Pairs == Nat \X Nat
Slots == [heads : SUBSET Nat, id : Nat, args : Seq(Pairs)]
AnswerType == [text : Nat, reason : Nat, calls : Seq(ToolCalls), deltas : Nat,
               finish : BOOLEAN, usage : Nat, json : BOOLEAN]
Buffers == [text : Nat, reason : Nat, slots : Seq(Slots), usage : Nat, finish : BOOLEAN]
Responses == [kind : {"none", "final", "error"}, text : Nat, reason : Nat,
              calls : SUBSET [heads : SUBSET Nat, id : Nat], usage : Nat]

ModelTyped ==
    /\ service \in Services
    /\ pc \in [Branches -> Places]
    /\ answer \in [Branches -> AnswerType]
    /\ acc \in [Branches -> Buffers]
    /\ got \in [Branches -> Responses]
    /\ meta \in [total : Nat, prev : Nat] /\ spent \in Nat /\ overlap \in BOOLEAN
    /\ collected \in [partial : BOOLEAN, final : BOOLEAN, broken : BOOLEAN]

InCall(b) == pc[b] \in {"asking", "reading", "ended"}

\* Branches that were never in calls at once are so one after the other, and what
\* was counted before the call is all there is.
CountOK ==
    overlap \/ /\ meta.total = spent
               /\ \A b \in Branches : InCall(b) => meta.prev = meta.total
               /\ \A b, c \in Branches : InCall(b) /\ InCall(c) => b = c

\* A text that was shown is in a buffer, or a response that is to come.
TextOK ==
    collected.partial /\ ~ collected.broken =>
        \/ collected.final
        \/ \E b \in Branches :
              \/ pc[b] = "reading" /\ acc[b].text > 0
              \/ pc[b] = "ended" /\ (got[b].kind = "error" \/ got[b].text > 0)

\* The pieces of the k-th call's arguments that were sent.
Pieces(k, n) == [j \in 1 .. n |-> <<k, j>>]

\* The buffers are what the deltas read so far say.
BufferOK(a, f) ==
    /\ f.text = a.text /\ f.reason = a.reason
    /\ Len(a.calls) <= MaxCalls
    /\ \A k \in DOMAIN a.calls : a.calls[k].sent <= a.calls[k].need
    /\ service.indexes \/ Len(a.calls) <= 1 =>
          /\ Len(f.slots) = Len(a.calls)
          /\ \A k \in DOMAIN a.calls :
                f.slots[k] = [heads |-> {k}, id |-> IdOf(k), args |-> Pieces(k, a.calls[k].sent)]

Agrees(a, g) ==
    g.kind = "final" /\ Regular(a) =>
        /\ g.text = a.text /\ g.reason = a.reason
        /\ g.calls = {[heads |-> {k}, id |-> IdOf(k)] : k \in WholeCalls(a)}

\* What one branch has read.
BranchOK(p, a, f, g) ==
    /\ p \in {"idle", "asking"} => a = NoAnswer /\ f = NoBuffers
    /\ p = "ended" => f = NoBuffers
    /\ p # "ended" => g = Nothing
    /\ service.streams => (p = "reading" => BufferOK(a, f)) /\ Agrees(a, g)

ModelInv ==
    /\ ModelTyped /\ CountOK /\ TextOK
    /\ \A b \in Branches : BranchOK(pc[b], answer[b], acc[b], got[b])

LEMMA ModelImplied == ModelInv => StreamAgrees /\ TextNotLost /\ UsageCounted
<1> SUFFICES ASSUME ModelInv PROVE StreamAgrees /\ TextNotLost /\ UsageCounted
  OBVIOUS
<1>1. StreamAgrees
  BY DEF ModelInv, StreamAgrees, BranchOK, Agrees
<1>2. TextNotLost
  BY DEF ModelInv, TextNotLost, TextOK
<1>3. UsageCounted
  BY DEF ModelInv, UsageCounted, CountOK
<1> QED
  BY <1>1, <1>2, <1>3

LEMMA ModelConstants ==
    /\ NoAnswer \in AnswerType /\ NoBuffers \in Buffers /\ Nothing \in Responses
    /\ Failed \in Responses /\ Failed.kind = "error" /\ Nothing.kind = "none"
    /\ Nothing.usage = 0 /\ Nothing.text = 0 /\ NoBuffers.text = 0
BY DEF NoAnswer, AnswerType, NoBuffers, Buffers, Nothing, Responses, Failed

LEMMA ModelInvInit == ModelInit => ModelInv
<1> SUFFICES ASSUME ModelInit PROVE ModelInv
  OBVIOUS
<1> USE DEF ModelInit
<1>1. ModelTyped
  BY ModelConstants DEF ModelTyped, Places
<1>2. CountOK /\ TextOK
  BY DEF CountOK, TextOK, InCall
<1>3. \A b \in Branches : Agrees(answer[b], got[b])
  BY ModelConstants DEF Agrees
<1>4. \A b \in Branches : BranchOK(pc[b], answer[b], acc[b], got[b])
  BY <1>3 DEF BranchOK
<1> QED
  BY <1>1, <1>2, <1>4 DEF ModelInv

\* One branch goes on: what it has become, and what it may not disturb.
LEMMA BranchStep ==
    ASSUME ModelInv, NEW b \in Branches, NEW p \in Places, NEW a \in AnswerType,
           NEW f \in Buffers, NEW g \in Responses,
           pc' = [pc EXCEPT ![b] = p], answer' = [answer EXCEPT ![b] = a],
           acc' = [acc EXCEPT ![b] = f], got' = [got EXCEPT ![b] = g],
           service' = service, BranchOK(p, a, f, g)
    PROVE  /\ \A c \in Branches : BranchOK(pc[c], answer[c], acc[c], got[c])'
           /\ pc' \in [Branches -> Places] /\ answer' \in [Branches -> AnswerType]
           /\ acc' \in [Branches -> Buffers] /\ got' \in [Branches -> Responses]
           /\ pc'[b] = p /\ acc'[b] = f /\ got'[b] = g
           /\ \A c \in Branches \ {b} : pc'[c] = pc[c] /\ acc'[c] = acc[c] /\ got'[c] = got[c]
<1>1. /\ pc' \in [Branches -> Places] /\ answer' \in [Branches -> AnswerType]
      /\ acc' \in [Branches -> Buffers] /\ got' \in [Branches -> Responses]
      /\ pc'[b] = p /\ acc'[b] = f /\ got'[b] = g /\ answer'[b] = a
      /\ \A c \in Branches \ {b} : /\ pc'[c] = pc[c] /\ acc'[c] = acc[c] /\ got'[c] = got[c]
                                   /\ answer'[c] = answer[c]
  BY DEF ModelInv, ModelTyped
<1>2. ASSUME NEW c \in Branches
      PROVE  BranchOK(pc'[c], answer'[c], acc'[c], got'[c])
  <2>1. CASE c = b
    BY <1>1, <2>1
  <2>2. CASE c # b
    BY <1>1, <2>2 DEF ModelInv
  <2> QED
    BY <2>1, <2>2
<1>3. ASSUME NEW q, NEW x, NEW y, NEW z, BranchOK(q, x, y, z)
      PROVE  BranchOK(q, x, y, z)'
  BY <1>3 DEF BranchOK, BufferOK, Agrees, Regular, IdOf
<1>4. ASSUME NEW c \in Branches PROVE BranchOK(pc[c], answer[c], acc[c], got[c])'
  <2>1. PICK q, x, y, z : q = pc'[c] /\ x = answer'[c] /\ y = acc'[c] /\ z = got'[c]
    OBVIOUS
  <2>2. BranchOK(q, x, y, z)'
    BY <1>2, <1>3, <2>1
  <2> QED
    BY <2>1, <2>2 DEF BranchOK, BufferOK, Agrees, Regular, IdOf
<1> QED
  BY <1>1, <1>4

\* Nobody enters a call, and nothing is counted.
LEMMA CountStays ==
    ASSUME CountOK, UNCHANGED <<meta, spent, overlap>>,
           \A b \in Branches : InCall(b)' => InCall(b)
    PROVE  CountOK'
BY DEF CountOK

\* A call ends: what was shown of its answer is in its response.
LEMMA ConcludeStep ==
    ASSUME ModelInv, NEW b \in Branches, pc[b] \in {"asking", "reading"},
           NEW response \in Responses, Conclude(b, response),
           NEW a \in AnswerType, answer' = [answer EXCEPT ![b] = a],
           service.streams => Agrees(a, response),
           pc[b] = "reading" /\ acc[b].text > 0 => response.kind = "error" \/ response.text > 0
    PROVE  ModelInv'
<1>1. BranchOK("ended", a, NoBuffers, response)
  BY DEF BranchOK
<1>2. /\ \A c \in Branches : BranchOK(pc[c], answer[c], acc[c], got[c])'
      /\ pc' \in [Branches -> Places] /\ answer' \in [Branches -> AnswerType]
      /\ acc' \in [Branches -> Buffers] /\ got' \in [Branches -> Responses]
      /\ pc'[b] = "ended" /\ acc'[b] = NoBuffers /\ got'[b] = response
      /\ \A c \in Branches \ {b} : pc'[c] = pc[c] /\ acc'[c] = acc[c] /\ got'[c] = got[c]
  BY <1>1, ModelConstants, BranchStep DEF Conclude, Places
<1>3. UNCHANGED <<service, meta, spent, overlap, collected>>
  BY DEF Conclude
<1>4. ModelTyped'
  BY <1>2, <1>3 DEF ModelInv, ModelTyped
<1>5. CountOK'
  BY <1>2, <1>3, CountStays DEF ModelInv, InCall
<1>6. TextOK'
  <2>1. ASSUME NEW c \in Branches,
               \/ pc[c] = "reading" /\ acc[c].text > 0
               \/ pc[c] = "ended" /\ (got[c].kind = "error" \/ got[c].text > 0)
        PROVE  \/ pc'[c] = "reading" /\ acc'[c].text > 0
               \/ pc'[c] = "ended" /\ (got'[c].kind = "error" \/ got'[c].text > 0)
    <3>1. CASE c = b
      BY <1>2, <2>1, <3>1
    <3>2. CASE c # b
      BY <1>2, <2>1, <3>2
    <3> QED
      BY <3>1, <3>2
  <2> QED
    BY <1>3, <2>1 DEF ModelInv, TextOK
<1> QED
  BY <1>2, <1>4, <1>5, <1>6 DEF ModelInv

LEMMA FailsStep ==
    ASSUME ModelInv, NEW b \in Branches, CallFails(b) PROVE ModelInv'
<1>1. Agrees(NoAnswer, Failed)
  BY ModelConstants DEF Agrees
<1> QED
  BY <1>1, ModelConstants, ConcludeStep DEF CallFails

LEMMA AskStep ==
    ASSUME ModelInv, NEW b \in Branches, Ask(b) PROVE ModelInv'
<1>1. /\ pc[b] = "idle" /\ pc' = [pc EXCEPT ![b] = "asking"]
      /\ UNCHANGED <<service, answer, acc, got, spent, collected>>
      /\ meta' = [meta EXCEPT !.prev = meta.total]
      /\ overlap' = (overlap \/ \E other \in Branches \ {b} : InCall(other))
  BY DEF Ask, BeforeModel, InCall
<1>2. BranchOK("asking", answer[b], acc[b], got[b])
  BY <1>1 DEF ModelInv, BranchOK
<1>3. /\ answer' = [answer EXCEPT ![b] = answer[b]] /\ acc' = [acc EXCEPT ![b] = acc[b]]
      /\ got' = [got EXCEPT ![b] = got[b]]
      /\ answer[b] \in AnswerType /\ acc[b] \in Buffers /\ got[b] \in Responses
  BY <1>1 DEF ModelInv, ModelTyped
<1>4. /\ \A c \in Branches : BranchOK(pc[c], answer[c], acc[c], got[c])'
      /\ pc' \in [Branches -> Places]
      /\ pc'[b] = "asking" /\ \A c \in Branches \ {b} : pc'[c] = pc[c]
  <2>1. /\ service' = service /\ pc' = [pc EXCEPT ![b] = "asking"] /\ "asking" \in Places
    BY <1>1 DEF Places
  <2> QED
    BY <1>2, <1>3, <2>1, BranchStep
<1>5. meta' \in [total : Nat, prev : Nat] /\ meta'.total = meta.total /\ meta'.prev = meta.total
  BY <1>1 DEF ModelInv, ModelTyped
<1>6. ModelTyped'
  BY <1>1, <1>4, <1>5 DEF ModelInv, ModelTyped
<1>7. CountOK'
  BY <1>1, <1>4, <1>5 DEF ModelInv, CountOK, InCall
<1>8. TextOK'
  <2>1. \A c \in Branches : pc[c] \in {"reading", "ended"} => pc'[c] = pc[c]
    BY <1>1, <1>4
  <2> QED
    BY <1>1, <2>1 DEF ModelInv, TextOK
<1> QED
  BY <1>4, <1>6, <1>7, <1>8 DEF ModelInv

LEMMA OpenStep ==
    ASSUME ModelInv, NEW b \in Branches, Open(b) PROVE ModelInv'
<1>1. /\ pc[b] = "asking" /\ pc' = [pc EXCEPT ![b] = "reading"]
      /\ UNCHANGED <<service, answer, acc, got, meta, spent, overlap, collected>>
  BY DEF Open
<1>2. answer[b] = NoAnswer /\ acc[b] = NoBuffers /\ got[b] = Nothing
  BY <1>1 DEF ModelInv, BranchOK
<1>3. BufferOK(NoAnswer, NoBuffers)
  BY ModelAssumption DEF BufferOK, NoAnswer, NoBuffers
<1>4. BranchOK("reading", answer[b], acc[b], got[b])
  BY <1>2, <1>3, ModelConstants DEF BranchOK, Agrees
<1>5. /\ answer' = [answer EXCEPT ![b] = answer[b]] /\ acc' = [acc EXCEPT ![b] = acc[b]]
      /\ got' = [got EXCEPT ![b] = got[b]]
      /\ answer[b] \in AnswerType /\ acc[b] \in Buffers /\ got[b] \in Responses
  BY <1>1 DEF ModelInv, ModelTyped
<1>6. /\ \A c \in Branches : BranchOK(pc[c], answer[c], acc[c], got[c])'
      /\ pc' \in [Branches -> Places]
      /\ pc'[b] = "reading" /\ \A c \in Branches \ {b} : pc'[c] = pc[c]
  <2>1. /\ service' = service /\ pc' = [pc EXCEPT ![b] = "reading"] /\ "reading" \in Places
    BY <1>1 DEF Places
  <2> QED
    BY <1>4, <1>5, <2>1, BranchStep
<1>7. ModelTyped'
  BY <1>1, <1>6 DEF ModelInv, ModelTyped
<1>8. CountOK'
  BY <1>1, <1>6, CountStays DEF ModelInv, InCall
<1>9. TextOK'
  <2>1. \A c \in Branches : pc[c] \in {"reading", "ended"} => pc'[c] = pc[c]
    BY <1>1, <1>6
  <2> QED
    BY <1>1, <2>1 DEF ModelInv, TextOK
<1> QED
  BY <1>6, <1>7, <1>8, <1>9 DEF ModelInv

\* A delta of a stream.
LEMMA DeltaStep ==
    ASSUME ModelInv, NEW b \in Branches, pc[b] = "reading",
           NEW a \in AnswerType, answer' = [answer EXCEPT ![b] = a],
           NEW f \in Buffers, acc' = [acc EXCEPT ![b] = f], StreamUnchanged,
           service.streams => BufferOK(a, f), f.text >= acc[b].text,
           \/ collected' = collected
           \/ collected' = [collected EXCEPT !.partial = TRUE] /\ f.text > 0
    PROVE  ModelInv'
<1>1. UNCHANGED <<service, pc, got, meta, spent, overlap>>
  BY DEF StreamUnchanged
<1>2. got[b] = Nothing /\ pc' = [pc EXCEPT ![b] = "reading"] /\ got' = [got EXCEPT ![b] = got[b]]
      /\ got[b] \in Responses
  BY <1>1 DEF ModelInv, BranchOK, ModelTyped
<1>3. BranchOK("reading", a, f, got[b])
  BY <1>2, ModelConstants DEF BranchOK, Agrees
<1>4. /\ \A c \in Branches : BranchOK(pc[c], answer[c], acc[c], got[c])'
      /\ answer' \in [Branches -> AnswerType] /\ acc' \in [Branches -> Buffers]
      /\ acc'[b] = f /\ \A c \in Branches \ {b} : acc'[c] = acc[c]
  BY <1>1, <1>2, <1>3, BranchStep DEF Places
<1>5. /\ collected' \in [partial : BOOLEAN, final : BOOLEAN, broken : BOOLEAN]
      /\ collected'.final = collected.final /\ collected'.broken = collected.broken
  BY DEF ModelInv, ModelTyped
<1>6. ModelTyped'
  BY <1>1, <1>4, <1>5 DEF ModelInv, ModelTyped
<1>7. CountOK'
  BY <1>1, CountStays DEF ModelInv, InCall
<1>8. TextOK'
  <2>1. f.text \in Nat /\ acc[b].text \in Nat
    BY DEF ModelInv, ModelTyped, Buffers
  <2>2. ASSUME NEW c \in Branches,
               \/ pc[c] = "reading" /\ acc[c].text > 0
               \/ pc[c] = "ended" /\ (got[c].kind = "error" \/ got[c].text > 0)
        PROVE  \/ pc'[c] = "reading" /\ acc'[c].text > 0
               \/ pc'[c] = "ended" /\ (got'[c].kind = "error" \/ got'[c].text > 0)
    <3>1. CASE c = b
      BY <1>1, <1>4, <2>1, <2>2, <3>1
    <3>2. CASE c # b
      BY <1>1, <1>4, <2>2, <3>2
    <3> QED
      BY <3>1, <3>2
  <2>3. CASE collected' = collected
    BY <2>2, <2>3 DEF ModelInv, TextOK
  <2>4. CASE f.text > 0
    BY <1>1, <1>4, <2>4 DEF TextOK
  <2> QED
    BY <2>3, <2>4
<1> QED
  BY <1>4, <1>6, <1>7, <1>8 DEF ModelInv

\* What a branch has while it reads.
LEMMA Reading ==
    ASSUME ModelInv, NEW b \in Branches
    PROVE  /\ answer[b] \in AnswerType /\ acc[b] \in Buffers
           /\ pc[b] = "reading" /\ service.streams => BufferOK(answer[b], acc[b])
BY DEF ModelInv, ModelTyped, BranchOK

LEMMA TextStep ==
    ASSUME ModelInv, NEW b \in Branches, TextDelta(b) \/ ReasoningDelta(b) PROVE ModelInv'
<1>1. answer[b] \in AnswerType /\ acc[b] \in Buffers
  BY Reading
<1>2. CASE TextDelta(b)
  <2>1. PICK a, a1, f : /\ a1 = [answer[b] EXCEPT !.text = answer[b].text + 1]
                        /\ a = [a1 EXCEPT !.deltas = answer[b].deltas + 1]
                        /\ f = [acc[b] EXCEPT !.text = acc[b].text + 1]
    OBVIOUS
  <2>2. /\ a \in AnswerType /\ a.text = answer[b].text + 1 /\ a.reason = answer[b].reason
        /\ a.calls = answer[b].calls
    <3>1. /\ a1 \in AnswerType /\ a1.text = answer[b].text + 1 /\ a1.reason = answer[b].reason
          /\ a1.calls = answer[b].calls /\ answer[b].deltas + 1 \in Nat
      BY <1>1, <2>1 DEF AnswerType
    <3> QED
      BY <2>1, <3>1 DEF AnswerType
  <2>3. /\ f \in Buffers /\ f.text = acc[b].text + 1 /\ f.reason = acc[b].reason
        /\ f.slots = acc[b].slots
    BY <1>1, <2>1 DEF Buffers
  <2>4. answer' = [answer EXCEPT ![b] = a] /\ acc' = [acc EXCEPT ![b] = f]
    <3>1. answer' = [answer EXCEPT ![b] = [answer[b] EXCEPT !.text = answer[b].text + 1,
                                                            !.deltas = answer[b].deltas + 1]]
      BY <1>2 DEF TextDelta
    <3>2. acc' = [acc EXCEPT ![b] = [acc[b] EXCEPT !.text = acc[b].text + 1]]
      BY <1>2 DEF TextDelta
    <3> QED
      BY <2>1, <3>1, <3>2
  <2>5. service.streams => BufferOK(a, f)
    BY <1>2, <2>2, <2>3, Reading DEF BufferOK, TextDelta
  <2>6. f.text >= acc[b].text /\ f.text > 0
    BY <1>1, <2>3 DEF Buffers
  <2>7. pc[b] = "reading" /\ StreamUnchanged /\ collected' = [collected EXCEPT !.partial = TRUE]
    BY <1>2 DEF TextDelta
  <2> QED
    BY <2>2, <2>3, <2>4, <2>5, <2>6, <2>7, DeltaStep
<1>3. CASE ReasoningDelta(b)
  <2>1. PICK a, a1, f : /\ a1 = [answer[b] EXCEPT !.reason = answer[b].reason + 1]
                        /\ a = [a1 EXCEPT !.deltas = answer[b].deltas + 1]
                        /\ f = [acc[b] EXCEPT !.reason = acc[b].reason + 1]
    OBVIOUS
  <2>2. /\ a \in AnswerType /\ a.reason = answer[b].reason + 1 /\ a.text = answer[b].text
        /\ a.calls = answer[b].calls
    <3>1. /\ a1 \in AnswerType /\ a1.reason = answer[b].reason + 1 /\ a1.text = answer[b].text
          /\ a1.calls = answer[b].calls /\ answer[b].deltas + 1 \in Nat
      BY <1>1, <2>1 DEF AnswerType
    <3> QED
      BY <2>1, <3>1 DEF AnswerType
  <2>3. /\ f \in Buffers /\ f.reason = acc[b].reason + 1 /\ f.text = acc[b].text
        /\ f.slots = acc[b].slots
    BY <1>1, <2>1 DEF Buffers
  <2>4. answer' = [answer EXCEPT ![b] = a] /\ acc' = [acc EXCEPT ![b] = f]
    <3>1. answer' = [answer EXCEPT ![b] = [answer[b] EXCEPT !.reason = answer[b].reason + 1,
                                                            !.deltas = answer[b].deltas + 1]]
      BY <1>3 DEF ReasoningDelta
    <3>2. acc' = [acc EXCEPT ![b] = [acc[b] EXCEPT !.reason = acc[b].reason + 1]]
      BY <1>3 DEF ReasoningDelta
    <3> QED
      BY <2>1, <3>1, <3>2
  <2>5. service.streams => BufferOK(a, f)
    BY <1>3, <2>2, <2>3, Reading DEF BufferOK, ReasoningDelta
  <2>6. f.text >= acc[b].text
    BY <1>1, <2>3 DEF Buffers
  <2>7. pc[b] = "reading" /\ StreamUnchanged /\ collected' = collected
    BY <1>3 DEF ReasoningDelta
  <2> QED
    BY <2>2, <2>3, <2>4, <2>5, <2>6, <2>7, DeltaStep
<1> QED
  BY <1>2, <1>3

LEMMA LastStep ==
    ASSUME ModelInv, NEW b \in Branches, LastChunk(b) PROVE ModelInv'
<1>1. answer[b] \in AnswerType /\ acc[b] \in Buffers
  BY Reading
<1>2. PICK finish \in BOOLEAN, usage \in 0 .. 1 :
          /\ answer' = [answer EXCEPT ![b] = [answer[b] EXCEPT !.finish = TRUE]]
          /\ acc' = [acc EXCEPT ![b] = [acc[b] EXCEPT !.finish = finish, !.usage = usage]]
  BY DEF LastChunk
<1>3. PICK a, f1, f : /\ a = [answer[b] EXCEPT !.finish = TRUE]
                      /\ f1 = [acc[b] EXCEPT !.finish = finish]
                      /\ f = [f1 EXCEPT !.usage = usage]
  OBVIOUS
<1>4. /\ a \in AnswerType /\ a.text = answer[b].text /\ a.reason = answer[b].reason
      /\ a.calls = answer[b].calls
  BY <1>1, <1>3 DEF AnswerType
<1>5. /\ f \in Buffers /\ f.text = acc[b].text /\ f.reason = acc[b].reason
      /\ f.slots = acc[b].slots
  <2>1. /\ f1 \in Buffers /\ f1.text = acc[b].text /\ f1.reason = acc[b].reason
        /\ f1.slots = acc[b].slots /\ usage \in Nat
    BY <1>1, <1>3 DEF Buffers
  <2> QED
    BY <1>3, <2>1 DEF Buffers
<1>6. answer' = [answer EXCEPT ![b] = a] /\ acc' = [acc EXCEPT ![b] = f]
  BY <1>2, <1>3
<1>7. pc[b] = "reading" /\ StreamUnchanged /\ collected' = collected
  BY DEF LastChunk
<1>8. service.streams => BufferOK(a, f)
  BY <1>4, <1>5, <1>7, Reading DEF BufferOK
<1>9. f.text >= acc[b].text
  BY <1>1, <1>5 DEF Buffers
<1> QED
  BY <1>4, <1>5, <1>6, <1>7, <1>8, <1>9, DeltaStep

\* The service's answers when they come whole.
LEMMA WholeStep ==
    ASSUME ModelInv, NEW b \in Branches, AnswerWhole(b) PROVE ModelInv'
<1>1. PICK a \in Answers : answer' = [answer EXCEPT ![b] = a] /\ Conclude(b, WholeResponse(a))
  BY DEF AnswerWhole
<1>2. /\ a \in AnswerType /\ a.calls \in Seq(ToolCalls) /\ a.text \in Nat /\ a.reason \in Nat
      /\ a.usage \in Nat
  <2>1. PICK S : S = SeqOf([need : {0, ArgPieces}, sent : {0}], MaxCalls)
    OBVIOUS
  <2>2. a \in [text : 0 .. 1, reason : {1}, deltas : {0}, finish : {TRUE},
               usage : 0 .. 1, json : BOOLEAN, calls : S]
    BY <2>1 DEF Answers
  <2>3. a.calls \in SeqOf([need : {0, ArgPieces}, sent : {0}], MaxCalls)
    BY <2>1, <2>2
  <2>4. a = [text |-> a.text, reason |-> a.reason, calls |-> a.calls, deltas |-> a.deltas,
             finish |-> a.finish, usage |-> a.usage, json |-> a.json]
    BY <2>2
  <2>5. PICK m \in 0 .. MaxCalls : a.calls \in [1 .. m -> [need : {0, ArgPieces}, sent : {0}]]
    BY <2>3 DEF SeqOf
  <2>6. [need : {0, ArgPieces}, sent : {0}] \subseteq ToolCalls
    BY DEF ToolCalls
  <2>7. a.calls \in [1 .. m -> ToolCalls] /\ m \in Nat
    BY <2>5, <2>6, ModelAssumption
  <2>8. a.calls \in Seq(ToolCalls)
    BY <2>7
  <2>9. /\ a.text \in Nat /\ a.reason \in Nat /\ a.deltas \in Nat /\ a.usage \in Nat
        /\ a.finish \in BOOLEAN /\ a.json \in BOOLEAN
    <3>1. /\ a.text \in 0 .. 1 /\ a.reason = 1 /\ a.deltas = 0 /\ a.usage \in 0 .. 1
          /\ a.finish = TRUE /\ a.json \in BOOLEAN
      BY <2>2
    <3>2. 0 .. 1 \subseteq Nat /\ 1 \in Nat /\ 0 \in Nat
      OBVIOUS
    <3> QED
      BY <3>1, <3>2
  <2>10. a \in AnswerType
    <3>1. PICK seqs : seqs = Seq(ToolCalls)
      OBVIOUS
    <3>2. a.calls \in seqs
      BY <2>8, <3>1
    <3>3. PICK text, reason, calls, deltas, finish, usage, json :
             /\ text = a.text /\ reason = a.reason /\ calls = a.calls /\ deltas = a.deltas
             /\ finish = a.finish /\ usage = a.usage /\ json = a.json
      OBVIOUS
    <3>4. a = [text |-> text, reason |-> reason, calls |-> calls, deltas |-> deltas,
               finish |-> finish, usage |-> usage, json |-> json]
      BY <2>4, <3>3
    <3> QED
      BY <2>9, <3>1, <3>2, <3>3, <3>4 DEF AnswerType
  <2> QED
    BY <2>8, <2>9, <2>10
<1>3. \A k \in DOMAIN a.calls : [heads |-> {k}, id |-> IdOf(k)] \in [heads : SUBSET Nat, id : Nat]
  <2>1. DOMAIN a.calls \subseteq Nat
    BY <1>2
  <2> QED
    BY <2>1 DEF IdOf, NoId
<1>4. WholeCallParts(a) \in SUBSET [heads : SUBSET Nat, id : Nat]
  BY <1>3 DEF WholeCallParts
<1>5. WholeResponse(a) \in Responses
  BY <1>2, <1>4, ModelConstants DEF WholeResponse, OpenAIResponse, ArkResponse, Response, Responses
<1>6. pc[b] = "asking" /\ ~ service.streams
  BY DEF AnswerWhole
<1> QED
  BY <1>1, <1>2, <1>5, <1>6, ConcludeStep

\* A slot that is opened, and the slots it is opened in.
LEMMA OpenedSlot ==
    ASSUME NEW s \in Slots, NEW k \in Nat, NEW id \in Nat, NEW filled,
           filled = [s EXCEPT !.heads = s.heads \cup {k}, !.id = IF id = NoId THEN s.id ELSE id]
    PROVE  /\ filled \in Slots
           /\ s = EmptySlot => filled = [heads |-> {k}, id |-> id, args |-> <<>>]
<1>1. PICK s1 : s1 = [s EXCEPT !.heads = s.heads \cup {k}]
  OBVIOUS
<1>2. s1 \in Slots /\ s1.id = s.id
  <2>1. s.heads \cup {k} \in SUBSET Nat
    BY DEF Slots
  <2> QED
    BY <1>1, <2>1 DEF Slots
<1>3. filled = [s1 EXCEPT !.id = IF id = NoId THEN s.id ELSE id]
  BY <1>1 DEF Slots
<1>4. (IF id = NoId THEN s.id ELSE id) \in Nat
  BY DEF Slots
<1>5. filled \in Slots
  BY <1>2, <1>3, <1>4 DEF Slots
<1>6. ASSUME s = EmptySlot PROVE filled = [heads |-> {k}, id |-> id, args |-> <<>>]
  BY <1>6 DEF EmptySlot
<1> QED
  BY <1>5, <1>6

LEMMA PaddedSlots ==
    ASSUME NEW s \in Seq(Slots), NEW n \in Nat, n > 0
    PROVE  /\ Padded(s, n) \in Seq(Slots) /\ n \in DOMAIN Padded(s, n)
           /\ Len(Padded(s, n)) = IF Len(s) < n THEN n ELSE Len(s)
           /\ \A i \in 1 .. Len(s) : Padded(s, n)[i] = s[i]
           /\ n > Len(s) => Padded(s, n)[n] = EmptySlot
<1>1. EmptySlot \in Slots
  BY EmptySeq DEF EmptySlot, Slots, NoId
<1>2. PICK m \in Nat : m = IF Len(s) < n THEN n ELSE Len(s)
  OBVIOUS
<1>3. Padded(s, n) = [i \in 1 .. m |-> IF i <= Len(s) THEN s[i] ELSE EmptySlot]
  BY <1>2 DEF Padded
<1>4. \A i \in 1 .. m : (IF i <= Len(s) THEN s[i] ELSE EmptySlot) \in Slots
  <2> SUFFICES ASSUME NEW i \in 1 .. m, i <= Len(s) PROVE s[i] \in Slots
    BY <1>1
  <2> QED
    BY ElementOfSeq
<1>5. Padded(s, n) \in Seq(Slots) /\ Len(Padded(s, n)) = m
  BY <1>3, <1>4
<1> QED
  BY <1>2, <1>3, <1>5

\* An answer whose tool calls have become others by one more delta.
Grown(x, calls) == [[x EXCEPT !.calls = calls] EXCEPT !.deltas = x.deltas + 1]

LEMMA GrownAnswer ==
    ASSUME NEW x \in AnswerType, NEW calls \in Seq(ToolCalls)
    PROVE  /\ Grown(x, calls) \in AnswerType /\ Grown(x, calls).text = x.text
           /\ Grown(x, calls).reason = x.reason /\ Grown(x, calls).calls = calls
<1>1. PICK S, y, z : /\ S = Seq(ToolCalls) /\ y = [x EXCEPT !.calls = calls]
                     /\ z = [y EXCEPT !.deltas = x.deltas + 1]
  OBVIOUS
<1>2. /\ y \in AnswerType /\ y.text = x.text /\ y.reason = x.reason /\ y.calls = calls
      /\ x.deltas + 1 \in Nat
  BY <1>1 DEF AnswerType
<1>3. z \in AnswerType /\ z.text = x.text /\ z.reason = x.reason /\ z.calls = calls
  BY <1>1, <1>2 DEF AnswerType
<1> QED
  BY <1>1, <1>3 DEF Grown

LEMMA CallStep ==
    ASSUME ModelInv, NEW b \in Branches, CallDelta(b) PROVE ModelInv'
<1>1. /\ answer[b] \in AnswerType /\ acc[b] \in Buffers
      /\ answer[b].calls \in Seq(ToolCalls) /\ acc[b].slots \in Seq(Slots)
  <2>1. answer[b] \in AnswerType /\ acc[b] \in Buffers
    BY Reading
  <2> QED
    BY <2>1 DEF AnswerType, Buffers
<1>2. PICK k \in Nat : k = Len(answer[b].calls) + 1
  BY <1>1
<1>3. PICK n, slots : n = SlotOf(k) /\ slots = Padded(acc[b].slots, n)
  OBVIOUS
<1>4. PICK need \in {0, ArgPieces} :
         /\ answer' = [answer EXCEPT ![b] = [answer[b] EXCEPT
               !.calls = Append(answer[b].calls, ToolCall(need, 0)),
               !.deltas = answer[b].deltas + 1]]
         /\ acc' = [acc EXCEPT ![b] = [acc[b] EXCEPT !.slots = [slots EXCEPT ![n] =
               [slots[n] EXCEPT !.heads = slots[n].heads \cup {k},
                                !.id = IF IdOf(k) = NoId THEN slots[n].id ELSE IdOf(k)]]]]
  BY <1>2, <1>3 DEF CallDelta
<1>5. PICK tc, calls : tc = ToolCall(need, 0) /\ calls = Append(answer[b].calls, tc)
  OBVIOUS
<1>6. PICK filled, opened :
         /\ filled = [slots[n] EXCEPT !.heads = slots[n].heads \cup {k},
                                      !.id = IF IdOf(k) = NoId THEN slots[n].id ELSE IdOf(k)]
         /\ opened = [slots EXCEPT ![n] = filled]
  OBVIOUS
<1>7. PICK a1, a, f : /\ a1 = [answer[b] EXCEPT !.calls = calls]
                      /\ a = [a1 EXCEPT !.deltas = answer[b].deltas + 1]
                      /\ f = [acc[b] EXCEPT !.slots = opened]
  OBVIOUS
<1>8. /\ tc \in ToolCalls /\ calls \in Seq(ToolCalls) /\ Len(calls) = k
      /\ calls[k] = tc /\ tc.sent = 0 /\ tc.sent <= tc.need
      /\ \A i \in 1 .. k - 1 : calls[i] = answer[b].calls[i]
  <2>1. tc \in ToolCalls /\ tc.sent = 0 /\ tc.sent <= tc.need
    BY <1>5 DEF ToolCall, ToolCalls, ArgPieces
  <2> QED
    BY <1>1, <1>2, <1>5, <2>1
<1>9. /\ a \in AnswerType /\ a.text = answer[b].text /\ a.reason = answer[b].reason
      /\ a.calls = calls
  <2>1. answer[b] \in AnswerType /\ calls \in Seq(ToolCalls)
    BY <1>1, <1>8
  <2>2. a = Grown(answer[b], calls)
    BY <1>7 DEF Grown
  <2> QED
    BY <2>1, <2>2, GrownAnswer
<1>10. n \in Nat /\ n > 0 /\ (service.indexes \/ k <= 1 => n = k)
  BY <1>1, <1>2, <1>3 DEF SlotOf
<1>11. /\ slots \in Seq(Slots) /\ n \in DOMAIN slots
       /\ Len(slots) = IF Len(acc[b].slots) < n THEN n ELSE Len(acc[b].slots)
       /\ \A i \in 1 .. Len(acc[b].slots) : slots[i] = acc[b].slots[i]
       /\ n > Len(acc[b].slots) => slots[n] = EmptySlot
  BY <1>1, <1>3, <1>10, PaddedSlots
<1>12. filled \in Slots
       /\ (slots[n] = EmptySlot => filled = [heads |-> {k}, id |-> IdOf(k), args |-> <<>>])
  <2>1. slots[n] \in Slots
    BY <1>11, ElementOfSeq
  <2>2. IdOf(k) \in Nat
    BY DEF IdOf, NoId
  <2> QED
    BY <1>6, <2>1, <2>2, OpenedSlot
<1>13. /\ opened \in Seq(Slots) /\ Len(opened) = Len(slots)
       /\ opened[n] = filled /\ \A i \in DOMAIN slots : i # n => opened[i] = slots[i]
  BY <1>6, <1>11, <1>12
<1>14. /\ f \in Buffers /\ f.text = acc[b].text /\ f.reason = acc[b].reason
       /\ f.slots = opened
  <2>1. PICK S : S = Seq(Slots)
    OBVIOUS
  <2> QED
    BY <1>1, <1>7, <1>13, <2>1 DEF Buffers
<1>15. answer' = [answer EXCEPT ![b] = a] /\ acc' = [acc EXCEPT ![b] = f]
  BY <1>4, <1>5, <1>6, <1>7
<1>16. ASSUME service.streams PROVE BufferOK(a, f)
  <2>1. BufferOK(answer[b], acc[b]) /\ k <= MaxCalls
    BY <1>1, <1>2, <1>16, Reading, ModelAssumption DEF CallDelta
  <2>2. a.text = f.text /\ a.reason = f.reason
    BY <1>9, <1>14, <2>1 DEF BufferOK
  <2>3. ASSUME NEW i \in 1 .. k PROVE calls[i].sent <= calls[i].need
    BY <1>1, <1>2, <1>8, <2>1, <2>3 DEF BufferOK
  <2>4. ASSUME service.indexes \/ k <= 1
        PROVE  /\ Len(opened) = k
               /\ \A i \in 1 .. k :
                     opened[i] = [heads |-> {i}, id |-> IdOf(i), args |-> Pieces(i, calls[i].sent)]
    <3>1. /\ n = k /\ Len(acc[b].slots) = k - 1
          /\ \A i \in 1 .. k - 1 : acc[b].slots[i] =
                [heads |-> {i}, id |-> IdOf(i), args |-> Pieces(i, answer[b].calls[i].sent)]
      BY <1>1, <1>2, <1>10, <2>1, <2>4 DEF BufferOK
    <3>2. Len(opened) = k /\ slots[k] = EmptySlot
      BY <1>2, <1>11, <1>13, <3>1
    <3>3. Pieces(k, 0) = <<>>
      BY DEF Pieces
    <3>4. opened[k] = [heads |-> {k}, id |-> IdOf(k), args |-> Pieces(k, calls[k].sent)]
      BY <1>8, <1>12, <1>13, <3>1, <3>2, <3>3
    <3>5. ASSUME NEW i \in 1 .. k - 1
          PROVE  opened[i] = [heads |-> {i}, id |-> IdOf(i), args |-> Pieces(i, calls[i].sent)]
      <4>1. opened[i] = acc[b].slots[i]
        BY <1>11, <1>13, <3>1
      <4>2. calls[i] = answer[b].calls[i]
        BY <1>8
      <4>3. acc[b].slots[i] =
               [heads |-> {i}, id |-> IdOf(i), args |-> Pieces(i, answer[b].calls[i].sent)]
        BY <3>1
      <4>4. PICK s : s = answer[b].calls[i].sent
        OBVIOUS
      <4>5. opened[i] = [heads |-> {i}, id |-> IdOf(i), args |-> Pieces(i, s)]
        BY <4>1, <4>3, <4>4
      <4>6. s = calls[i].sent
        BY <4>2, <4>4
      <4> QED
        BY <4>5, <4>6
    <3>6. \A i \in 1 .. k : i \in 1 .. k - 1 \/ i = k
      OBVIOUS
    <3> QED
      BY <3>2, <3>4, <3>5, <3>6
  <2>5. DOMAIN a.calls = 1 .. k /\ Len(a.calls) = k /\ a.calls = calls /\ f.slots = opened
    BY <1>8, <1>9, <1>14
  <2> QED
    BY <2>1, <2>2, <2>3, <2>4, <2>5 DEF BufferOK
<1>17. f.text >= acc[b].text
  BY <1>1, <1>14 DEF Buffers
<1>18. pc[b] = "reading" /\ StreamUnchanged /\ collected' = collected
  BY DEF CallDelta
<1> QED
  BY <1>9, <1>14, <1>15, <1>16, <1>17, <1>18, DeltaStep

\* A piece more of the k-th call's arguments.
LEMMA PieceAdded ==
    ASSUME NEW k \in Nat, NEW n \in Nat
    PROVE  /\ <<k, n + 1>> \in Pairs /\ Pieces(k, n) \in Seq(Pairs)
           /\ Append(Pieces(k, n), <<k, n + 1>>) = Pieces(k, n + 1)
<1>1. \A m \in Nat : <<k, m>> \in Pairs
  BY DEF Pairs
<1>2. ASSUME NEW m \in Nat
      PROVE  /\ Pieces(k, m) \in Seq(Pairs) /\ Len(Pieces(k, m)) = m
             /\ \A j \in 1 .. m : Pieces(k, m)[j] = <<k, j>>
  <2>1. \A j \in 1 .. m : <<k, j>> \in Pairs
    BY <1>1
  <2> QED
    BY <2>1 DEF Pieces
<1>3. PICK m \in Nat : m = n + 1
  OBVIOUS
<1>4. PICK p, q, e : p = Pieces(k, n) /\ q = Pieces(k, m) /\ e = <<k, m>>
  OBVIOUS
<1>5. /\ p \in Seq(Pairs) /\ q \in Seq(Pairs) /\ e \in Pairs /\ Len(p) = n /\ Len(q) = m
      /\ q[m] = e /\ \A j \in 1 .. n : q[j] = p[j]
  <2>1. m \in 1 .. m /\ \A j \in 1 .. n : j \in 1 .. m
    BY <1>3
  <2> QED
    BY <1>1, <1>2, <1>4, <2>1
<1>6. Append(p, e) \in Seq(Pairs) /\ Len(Append(p, e)) = m
      /\ Append(p, e)[m] = e /\ \A j \in 1 .. n : Append(p, e)[j] = p[j]
  BY <1>3, <1>5
<1>7. \A j \in 1 .. m : j = m \/ j \in 1 .. n
  BY <1>3
<1>8. \A j \in 1 .. m : Append(p, e)[j] = q[j]
  BY <1>5, <1>6, <1>7
<1>9. Append(p, e) = q
  BY <1>5, <1>6, <1>8, SeqEqual
<1>10. e = <<k, n + 1>>
  BY <1>3, <1>4
<1> QED
  BY <1>3, <1>4, <1>5, <1>9, <1>10

LEMMA ArgumentStep ==
    ASSUME ModelInv, NEW b \in Branches, ArgumentDelta(b) PROVE ModelInv'
<1>1. /\ answer[b] \in AnswerType /\ acc[b] \in Buffers
      /\ answer[b].calls \in Seq(ToolCalls) /\ acc[b].slots \in Seq(Slots)
  <2>1. answer[b] \in AnswerType /\ acc[b] \in Buffers
    BY Reading
  <2> QED
    BY <2>1 DEF AnswerType, Buffers
<1>2. PICK k \in DOMAIN answer[b].calls :
         /\ answer[b].calls[k].sent < answer[b].calls[k].need
         /\ answer' = [answer EXCEPT ![b].calls[k] = ToolCall(answer[b].calls[k].need,
                                                              answer[b].calls[k].sent + 1),
                                     ![b].deltas = @ + 1]
         /\ acc' = [acc EXCEPT ![b].slots[SlotOf(k)].args =
                                   Append(@, <<k, answer[b].calls[k].sent + 1>>)]
  BY DEF ArgumentDelta
<1>3. PICK old, need, sent, n : /\ old = answer[b].calls[k] /\ need = old.need /\ sent = old.sent
                                /\ n = SlotOf(k)
  OBVIOUS
<1>4. k \in Nat /\ old \in ToolCalls /\ need \in Nat /\ sent \in Nat /\ sent < need
  <2>1. k \in Nat /\ k \in 1 .. Len(answer[b].calls)
    BY <1>1
  <2>2. old \in ToolCalls
    BY <1>1, <1>3, <2>1, ElementOfSeq
  <2> QED
    BY <1>2, <1>3, <2>1, <2>2 DEF ToolCalls, ArgPieces
<1>5. PICK tc, calls : tc = ToolCall(need, sent + 1) /\ calls = [answer[b].calls EXCEPT ![k] = tc]
  OBVIOUS
<1>6. PICK slot, piece, filled, slots :
         /\ slot = acc[b].slots[n] /\ piece = <<k, sent + 1>>
         /\ filled = [slot EXCEPT !.args = Append(slot.args, piece)]
         /\ slots = [acc[b].slots EXCEPT ![n] = filled]
  OBVIOUS
<1>7. PICK a1, a, f : /\ a1 = [answer[b] EXCEPT !.calls = calls]
                      /\ a = [a1 EXCEPT !.deltas = answer[b].deltas + 1]
                      /\ f = [acc[b] EXCEPT !.slots = slots]
  OBVIOUS
<1>8. answer' = [answer EXCEPT ![b] = a] /\ acc' = [acc EXCEPT ![b] = f]
  BY <1>2, <1>3, <1>5, <1>6, <1>7
<1>9. /\ tc \in ToolCalls /\ tc.need = need /\ tc.sent = sent + 1 /\ tc.sent <= tc.need
      /\ calls \in Seq(ToolCalls) /\ Len(calls) = Len(answer[b].calls) /\ calls[k] = tc
      /\ \A i \in DOMAIN answer[b].calls : i # k => calls[i] = answer[b].calls[i]
  <2>1. /\ tc \in ToolCalls /\ tc.need = need /\ tc.sent = sent + 1 /\ tc.sent <= tc.need
    BY <1>3, <1>4, <1>5 DEF ToolCall, ToolCalls, ArgPieces
  <2> QED
    BY <1>1, <1>5, <2>1
<1>10. /\ a \in AnswerType /\ a.text = answer[b].text /\ a.reason = answer[b].reason
       /\ a.calls = calls
  <2>1. answer[b] \in AnswerType /\ calls \in Seq(ToolCalls)
    BY <1>1, <1>9
  <2>2. a = Grown(answer[b], calls)
    BY <1>7 DEF Grown
  <2> QED
    BY <2>1, <2>2, GrownAnswer
<1>11. piece \in Pairs
  BY <1>4, <1>6, PieceAdded
<1>12. ASSUME n \in DOMAIN acc[b].slots
       PROVE  slot \in Slots /\ filled \in Slots
  <2>1. slot \in Slots
    BY <1>1, <1>6, <1>12, ElementOfSeq
  <2>2. PICK S : S = Seq(Pairs)
    OBVIOUS
  <2>3. Append(slot.args, piece) \in S
    <3>1. slot.args \in Seq(Pairs)
      BY <2>1 DEF Slots
    <3> QED
      BY <1>11, <2>2, <3>1
  <2> QED
    BY <1>6, <2>1, <2>2, <2>3 DEF Slots
<1>13. /\ slots \in Seq(Slots) /\ Len(slots) = Len(acc[b].slots)
       /\ (n \in DOMAIN acc[b].slots => slots[n] = filled)
       /\ \A i \in DOMAIN acc[b].slots : i # n => slots[i] = acc[b].slots[i]
  <2>1. CASE n \in DOMAIN acc[b].slots
    BY <1>1, <1>6, <1>12, <2>1
  <2>2. CASE n \notin DOMAIN acc[b].slots
    <3>1. slots = acc[b].slots
      BY <1>1, <1>6, <2>2
    <3> QED
      BY <1>1, <2>2, <3>1
  <2> QED
    BY <2>1, <2>2
<1>14. /\ f \in Buffers /\ f.text = acc[b].text /\ f.reason = acc[b].reason
       /\ f.slots = slots
  <2>1. PICK S : S = Seq(Slots)
    OBVIOUS
  <2> QED
    BY <1>1, <1>7, <1>13, <2>1 DEF Buffers
<1>15. ASSUME service.streams PROVE BufferOK(a, f)
  <2>1. BufferOK(answer[b], acc[b])
    BY <1>15, Reading DEF ArgumentDelta
  <2>2. /\ a.text = f.text /\ a.reason = f.reason /\ Len(calls) <= MaxCalls
        /\ DOMAIN calls = DOMAIN answer[b].calls
    BY <1>1, <1>9, <1>10, <1>14, <2>1 DEF BufferOK
  <2>3. ASSUME NEW i \in DOMAIN calls PROVE calls[i].sent <= calls[i].need
    <3>1. CASE i = k
      BY <1>9, <3>1
    <3>2. CASE i # k
      BY <1>9, <2>1, <2>2, <3>2 DEF BufferOK
    <3> QED
      BY <3>1, <3>2
  <2>4. ASSUME service.indexes \/ Len(calls) <= 1
        PROVE  /\ Len(slots) = Len(calls)
               /\ \A i \in DOMAIN calls :
                     slots[i] = [heads |-> {i}, id |-> IdOf(i), args |-> Pieces(i, calls[i].sent)]
    <3>1. /\ Len(acc[b].slots) = Len(answer[b].calls)
          /\ \A i \in DOMAIN answer[b].calls : acc[b].slots[i] =
                [heads |-> {i}, id |-> IdOf(i), args |-> Pieces(i, answer[b].calls[i].sent)]
      BY <1>9, <2>1, <2>4 DEF BufferOK
    <3>2. n = k
      BY <1>1, <1>3, <1>9, <2>4 DEF SlotOf
    <3>3. k \in DOMAIN acc[b].slots
      BY <1>1, <3>1
    <3>4. slots[k] = [heads |-> {k}, id |-> IdOf(k), args |-> Pieces(k, calls[k].sent)]
      <4>1. slot = [heads |-> {k}, id |-> IdOf(k), args |-> Pieces(k, sent)]
        BY <1>3, <1>6, <3>1, <3>2
      <4>2. filled = [heads |-> {k}, id |-> IdOf(k), args |-> Append(Pieces(k, sent), piece)]
        <5>1. PICK args, more, id : args = Pieces(k, sent) /\ more = Append(args, piece) /\ id = IdOf(k)
          OBVIOUS
        <5>2. slot = [heads |-> {k}, id |-> id, args |-> args] /\ slot.args = args
          BY <4>1, <5>1
        <5>3. filled = [slot EXCEPT !.args = more]
          BY <1>6, <5>1, <5>2
        <5>4. filled = [heads |-> {k}, id |-> id, args |-> more]
          BY <5>2, <5>3
        <5> QED
          BY <5>1, <5>4
      <4>3. Append(Pieces(k, sent), piece) = Pieces(k, calls[k].sent)
        BY <1>4, <1>6, <1>9, PieceAdded
      <4> QED
        BY <1>13, <3>2, <3>3, <4>2, <4>3
    <3>5. ASSUME NEW i \in DOMAIN calls, i # k
          PROVE  slots[i] = [heads |-> {i}, id |-> IdOf(i), args |-> Pieces(i, calls[i].sent)]
      <4>1. i \in DOMAIN answer[b].calls /\ i \in DOMAIN acc[b].slots
        BY <1>1, <2>2, <3>1
      <4>2. slots[i] = acc[b].slots[i] /\ calls[i] = answer[b].calls[i]
        BY <1>9, <1>13, <3>2, <3>5, <4>1
      <4>3. acc[b].slots[i] =
               [heads |-> {i}, id |-> IdOf(i), args |-> Pieces(i, answer[b].calls[i].sent)]
        BY <3>1, <4>1
      <4> QED
        BY <4>2, <4>3
    <3> QED
      BY <1>9, <1>13, <3>1, <3>4, <3>5
  <2> QED
    BY <1>10, <1>14, <2>1, <2>2, <2>3, <2>4 DEF BufferOK
<1>16. f.text >= acc[b].text
  BY <1>1, <1>14 DEF Buffers
<1>17. pc[b] = "reading" /\ StreamUnchanged /\ collected' = collected
  BY DEF ArgumentDelta
<1> QED
  BY <1>8, <1>10, <1>14, <1>15, <1>16, <1>17, DeltaStep

\* A call's arguments parse when all its pieces, and no others, are there.
LEMMA WholePieces ==
    ASSUME NEW k \in CallNos, NEW n \in Nat
    PROVE  Parses(Pieces(k, n)) <=> n = ArgPieces
<1>1. \A i, m \in Nat : Len(Pieces(i, m)) = m
  BY DEF Pieces
<1>2. \A i \in Nat : WholeArgs(i) = Pieces(i, ArgPieces)
  BY DEF WholeArgs, Pieces
<1>3. CallNos \subseteq Nat /\ ArgPieces \in Nat
  BY ModelAssumption DEF CallNos, ArgPieces
<1>4. ASSUME Parses(Pieces(k, n)) PROVE n = ArgPieces
  <2>1. PICK i \in CallNos : Pieces(k, n) = Pieces(i, ArgPieces)
    BY <1>2, <1>3, <1>4 DEF Parses
  <2> QED
    BY <1>1, <1>3, <2>1
<1>5. ASSUME n = ArgPieces PROVE Parses(Pieces(k, n))
  BY <1>2, <1>3, <1>5 DEF Parses
<1> QED
  BY <1>4, <1>5

\* What a stream's buffers come to is its answer, as far as it was read.
LEMMA BuffersAgree ==
    ASSUME NEW a \in AnswerType, NEW f \in Buffers, BufferOK(a, f)
    PROVE  Agrees(a, StreamResponse(f)) /\ StreamResponse(f).text = f.text
<1>1. PICK good : good = {i \in DOMAIN f.slots : Parses(f.slots[i].args)}
  OBVIOUS
<1>2. PICK parts : parts = {[heads |-> f.slots[i].heads, id |-> f.slots[i].id] : i \in good}
  OBVIOUS
<1>3. PICK r : r = StreamResponse(f)
  OBVIOUS
<1>4. r.text = f.text /\ r.reason = f.reason /\ r.calls = parts
  BY <1>1, <1>2, <1>3 DEF StreamResponse, Response
<1>5. ASSUME Regular(a)
      PROVE  parts = {[heads |-> {k}, id |-> IdOf(k)] : k \in WholeCalls(a)}
  <2>1. a.calls \in Seq(ToolCalls) /\ f.slots \in Seq(Slots)
    BY DEF AnswerType, Buffers
  <2>2. /\ Len(f.slots) = Len(a.calls) /\ Len(a.calls) <= MaxCalls
        /\ \A k \in DOMAIN a.calls :
              f.slots[k] = [heads |-> {k}, id |-> IdOf(k), args |-> Pieces(k, a.calls[k].sent)]
    BY <1>5 DEF BufferOK, Regular
  <2>3. DOMAIN f.slots = DOMAIN a.calls
    BY <2>1, <2>2
  <2>4. ASSUME NEW k \in DOMAIN a.calls
        PROVE  /\ f.slots[k].heads = {k} /\ f.slots[k].id = IdOf(k)
               /\ f.slots[k].args = Pieces(k, a.calls[k].sent)
    <3>1. PICK id, args : id = IdOf(k) /\ args = Pieces(k, a.calls[k].sent)
      OBVIOUS
    <3>2. f.slots[k] = [heads |-> {k}, id |-> id, args |-> args]
      BY <2>2, <3>1
    <3>3. f.slots[k].heads = {k} /\ f.slots[k].id = id /\ f.slots[k].args = args
      BY <3>2
    <3> QED
      BY <3>1, <3>3
  <2>5. ASSUME NEW k \in DOMAIN a.calls
        PROVE  k \in good <=> k \in WholeCalls(a)
    <3>1. k \in CallNos
      BY <2>1, <2>2, ModelAssumption DEF CallNos
    <3>2. a.calls[k].sent \in Nat /\ a.calls[k].need = ArgPieces
      <4>1. a.calls[k] \in ToolCalls
        BY <2>1, ElementOfSeq
      <4> QED
        BY <1>5, <4>1 DEF ToolCalls, Regular
    <3>3. f.slots[k].args = Pieces(k, a.calls[k].sent)
      BY <2>4
    <3>4. Parses(f.slots[k].args) <=> a.calls[k].sent = ArgPieces
      BY <3>1, <3>2, <3>3, WholePieces
    <3> QED
      BY <1>1, <2>3, <3>2, <3>4 DEF WholeCalls
  <2>6. good = WholeCalls(a) /\ good \subseteq DOMAIN a.calls
    BY <1>1, <2>3, <2>5 DEF WholeCalls
  <2>7. \A k \in good : f.slots[k].heads = {k} /\ f.slots[k].id = IdOf(k)
    BY <2>6, <2>4
  <2>8. parts = {[heads |-> {k}, id |-> IdOf(k)] : k \in good}
    BY <1>2, <2>7
  <2> QED
    BY <2>6, <2>8
<1>6. f.text = a.text /\ f.reason = a.reason
  BY DEF BufferOK
<1> QED
  BY <1>3, <1>4, <1>5, <1>6 DEF Agrees

LEMMA EndStep ==
    ASSUME ModelInv, NEW b \in Branches, StreamEnds(b) PROVE ModelInv'
<1>1. /\ answer[b] \in AnswerType /\ acc[b] \in Buffers /\ pc[b] = "reading"
      /\ service.streams => BufferOK(answer[b], acc[b])
  BY Reading DEF StreamEnds
<1>2. PICK r : r = IF IsSilent(acc[b]) THEN Nothing ELSE StreamResponse(acc[b])
  OBVIOUS
<1>3. Conclude(b, r) /\ answer' = [answer EXCEPT ![b] = answer[b]]
  BY <1>2 DEF StreamEnds, ModelInv, ModelTyped
<1>4. StreamResponse(acc[b]) \in Responses /\ StreamResponse(acc[b]).text = acc[b].text
  <2>1. PICK parts : parts = {[heads |-> acc[b].slots[i].heads, id |-> acc[b].slots[i].id] :
                                i \in {j \in DOMAIN acc[b].slots : Parses(acc[b].slots[j].args)}}
    OBVIOUS
  <2>2. StreamResponse(acc[b]) =
           [kind |-> "final", text |-> acc[b].text, reason |-> acc[b].reason,
            calls |-> parts, usage |-> acc[b].usage]
    BY <2>1 DEF StreamResponse, Response
  <2>3. acc[b].text \in Nat /\ acc[b].reason \in Nat /\ acc[b].usage \in Nat
        /\ acc[b].slots \in Seq(Slots)
    BY <1>1 DEF Buffers
  <2>4. \A i \in DOMAIN acc[b].slots :
           [heads |-> acc[b].slots[i].heads, id |-> acc[b].slots[i].id]
              \in [heads : SUBSET Nat, id : Nat]
    <3> SUFFICES ASSUME NEW i \in DOMAIN acc[b].slots
                 PROVE  acc[b].slots[i].heads \in SUBSET Nat /\ acc[b].slots[i].id \in Nat
      OBVIOUS
    <3>1. acc[b].slots[i] \in Slots
      BY <2>3, ElementOfSeq
    <3> QED
      BY <3>1 DEF Slots
  <2>5. parts \in SUBSET [heads : SUBSET Nat, id : Nat]
    BY <2>1, <2>4
  <2> QED
    BY <2>2, <2>3, <2>5 DEF Responses
<1>5. r \in Responses
  BY <1>2, <1>4, ModelConstants
<1>6. service.streams => Agrees(answer[b], r)
  <2>1. Agrees(answer[b], Nothing)
    BY ModelConstants DEF Agrees
  <2> QED
    BY <1>1, <1>2, <2>1, BuffersAgree
<1>7. acc[b].text > 0 => r.text > 0
  BY <1>1, <1>2, <1>4 DEF IsSilent, Buffers
<1> QED
  BY <1>1, <1>3, <1>5, <1>6, <1>7, ConcludeStep

\* The run's events end: no branch is in a call any more.
LEMMA AbandonStep ==
    ASSUME ModelInv, Abandon PROVE ModelInv'
<1>1. /\ pc' = [b \in Branches |-> "over"] /\ answer' = [b \in Branches |-> NoAnswer]
      /\ acc' = [b \in Branches |-> NoBuffers] /\ got' = [b \in Branches |-> Nothing]
      /\ collected' = [collected EXCEPT !.broken = TRUE]
      /\ UNCHANGED <<service, meta, spent, overlap>>
  BY DEF Abandon
<1>2. ModelTyped'
  BY <1>1, ModelConstants DEF ModelInv, ModelTyped, Places
<1>3. CountOK'
  BY <1>1 DEF ModelInv, CountOK, InCall
<1>4. TextOK'
  BY <1>1 DEF ModelInv, ModelTyped, TextOK
<1>5. ASSUME NEW b \in Branches PROVE BranchOK(pc[b], answer[b], acc[b], got[b])'
  <2>1. /\ pc'[b] = "over" /\ answer'[b] = NoAnswer /\ acc'[b] = NoBuffers
        /\ got'[b] = Nothing
    BY <1>1
  <2>2. Agrees(answer[b], got[b])'
    BY <2>1, ModelConstants DEF Agrees
  <2> QED
    BY <2>1, <2>2 DEF BranchOK
<1> QED
  BY <1>2, <1>3, <1>4, <1>5 DEF ModelInv

LEMMA DeliverStep ==
    ASSUME ModelInv, NEW b \in Branches, Deliver(b) PROVE ModelInv'
<1>1. PICK p \in {"idle", "over"} : pc' = [pc EXCEPT ![b] = p]
  BY DEF Deliver, Follow
<1>2. /\ pc[b] = "ended" /\ got[b].kind # "error"
      /\ collected' = [collected EXCEPT !.final = collected.final \/ got[b].text > 0]
      /\ got' = [got EXCEPT ![b] = Nothing] /\ answer' = [answer EXCEPT ![b] = NoAnswer]
      /\ UNCHANGED <<service, acc, overlap>>
  BY DEF Deliver
<1>3. got[b] \in Responses /\ got[b].usage \in Nat /\ got[b].text \in Nat
  BY DEF ModelInv, ModelTyped, Responses
<1>4. PICK u \in Nat : /\ u = got[b].usage /\ spent' = spent + u
                       /\ meta' = IF u = 0 THEN meta ELSE [meta EXCEPT !.total = meta.prev + u]
  BY <1>3 DEF Deliver, AfterModel
<1>5. acc[b] = NoBuffers /\ acc' = [acc EXCEPT ![b] = NoBuffers]
  BY <1>2 DEF ModelInv, BranchOK, ModelTyped
<1>6. BranchOK(p, NoAnswer, NoBuffers, Nothing)
  BY ModelConstants DEF BranchOK, Agrees
<1>7. /\ \A c \in Branches : BranchOK(pc[c], answer[c], acc[c], got[c])'
      /\ pc' \in [Branches -> Places] /\ answer' \in [Branches -> AnswerType]
      /\ acc' \in [Branches -> Buffers] /\ got' \in [Branches -> Responses]
      /\ pc'[b] = p /\ acc'[b] = NoBuffers /\ got'[b] = Nothing
      /\ \A c \in Branches \ {b} : pc'[c] = pc[c] /\ acc'[c] = acc[c] /\ got'[c] = got[c]
  <2>1. service' = service /\ p \in Places
    BY <1>2 DEF Places
  <2> QED
    BY <1>1, <1>2, <1>5, <1>6, <2>1, ModelConstants, BranchStep
<1>8. /\ meta' \in [total : Nat, prev : Nat] /\ spent' \in Nat /\ meta'.prev = meta.prev
      /\ u = 0 => meta'.total = meta.total
      /\ u # 0 => meta'.total = meta.prev + u
  BY <1>4 DEF ModelInv, ModelTyped
<1>9. /\ collected' \in [partial : BOOLEAN, final : BOOLEAN, broken : BOOLEAN]
      /\ collected'.partial = collected.partial /\ collected'.broken = collected.broken
      /\ collected'.final = (collected.final \/ got[b].text > 0)
  BY <1>2 DEF ModelInv, ModelTyped
<1>10. ModelTyped'
  BY <1>2, <1>7, <1>8, <1>9 DEF ModelInv, ModelTyped
<1>11. CountOK'
  <2>1. CASE overlap
    BY <1>2, <2>1 DEF CountOK
  <2>2. CASE ~ overlap
    <3>1. /\ meta.total = spent /\ meta.prev = meta.total
          /\ \A c \in Branches : InCall(c) => c = b
      BY <1>2, <2>2 DEF ModelInv, CountOK, InCall
    <3>2. \A c \in Branches : ~ InCall(c)'
      BY <1>7, <3>1 DEF InCall
    <3>3. meta'.total = spent'
      BY <1>4, <1>8, <3>1 DEF ModelInv, ModelTyped
    <3> QED
      BY <3>2, <3>3 DEF CountOK
  <2> QED
    BY <2>1, <2>2
<1>12. TextOK'
  <2>1. ASSUME NEW c \in Branches, ~ collected'.final,
               \/ pc[c] = "reading" /\ acc[c].text > 0
               \/ pc[c] = "ended" /\ (got[c].kind = "error" \/ got[c].text > 0)
        PROVE  \/ pc'[c] = "reading" /\ acc'[c].text > 0
               \/ pc'[c] = "ended" /\ (got'[c].kind = "error" \/ got'[c].text > 0)
    <3>1. c # b
      BY <1>2, <1>9, <2>1
    <3> QED
      BY <1>7, <2>1, <3>1
  <2> QED
    BY <1>9, <2>1 DEF ModelInv, TextOK
<1> QED
  BY <1>7, <1>10, <1>11, <1>12 DEF ModelInv

LEMMA ModelInvStep == ModelInv /\ [ModelNext]_modelVars => ModelInv'
<1> SUFFICES ASSUME ModelInv, [ModelNext]_modelVars PROVE ModelInv'
  OBVIOUS
<1>1. ASSUME NEW b \in Branches,
             \/ Ask(b) \/ CallFails(b) \/ AnswerWhole(b) \/ Open(b)
             \/ TextDelta(b) \/ ReasoningDelta(b) \/ CallDelta(b) \/ ArgumentDelta(b)
             \/ LastChunk(b) \/ StreamEnds(b) \/ Deliver(b) \/ DeliverError(b)
      PROVE  ModelInv'
  BY <1>1, AskStep, FailsStep, WholeStep, OpenStep, TextStep, CallStep, ArgumentStep, LastStep,
     EndStep, DeliverStep, AbandonStep DEF DeliverError
<1>2. CASE ConsumerStops
  BY <1>2, AbandonStep DEF ConsumerStops
<1>3. CASE UNCHANGED modelVars
  <2>1. UNCHANGED <<service, pc, answer, acc, got, meta, spent, overlap, collected>>
    BY <1>3 DEF modelVars
  <2>2. ModelTyped'
    BY <2>1 DEF ModelInv, ModelTyped
  <2>3. CountOK' /\ TextOK'
    BY <2>1 DEF ModelInv, CountOK, InCall, TextOK
  <2>4. ASSUME NEW b \in Branches PROVE BranchOK(pc[b], answer[b], acc[b], got[b])'
    <3>1. BranchOK(pc[b], answer[b], acc[b], got[b])
      BY DEF ModelInv
    <3> QED
      BY <2>1, <3>1 DEF BranchOK, BufferOK, Agrees, Regular, IdOf
  <2> QED
    BY <2>3, <2>4, <2>2 DEF ModelInv
<1> QED
  BY <1>1, <1>2, <1>3 DEF ModelNext

LEMMA ModelInvariant == ModelSpec => []ModelInv
BY ModelInvInit, ModelInvStep, PTL DEF ModelSpec

\* An answer read as a stream is the response its document would have been,
\* however its deltas were cut and mixed; a stream that was cut loses the calls
\* it was cut in, and no other (the accumulators of openai.go and ark.go).
THEOREM StreamsAgree == ModelSpec => []StreamAgrees
BY ModelInvariant, ModelImplied, PTL

\* After a run that was not broken off, partial texts are never all there is:
\* some response had the text as a whole (the buffers that the streams of
\* openai.go and ark.go flush).
THEOREM TextsAreKept == ModelSpec => []TextNotLost
BY ModelInvariant, ModelImplied, PTL

\* The tokens of a run are those of all its responses, unless two branches were
\* in model calls at once (the usage metadata of the observability plugin).
THEOREM UsageIsCounted == ModelSpec => []UsageCounted
BY ModelInvariant, ModelImplied, PTL

\* A content of a conversation, and a message of a request.
PartKinds == TextParts \cup OpenAIMedia
Contents  == [role : {"user", "model"}, parts : SUBSET PartKinds,
              calls : Seq(Nat), answers : Seq(Nat)]
SentIds   == {"call", "answer", "given"} \X Nat
Wire      == [role : {"tool", "assistant", "user"}, parts : SUBSET PartKinds,
              calls : SUBSET SentIds, answers : SentIds \cup {<<>>}]

\* Answers come right after the calls they answer, and all have identifiers.
Paired(h) ==
    /\ h \in Seq(Contents)
    /\ \A i \in 1 .. Len(h) : h[i].answers # <<>> =>
          /\ i > 1 /\ h[i - 1].role = "model" /\ h[i - 1].answers = <<>>
          /\ h[i - 1].calls = h[i].answers
          /\ NoId \notin ToSet(h[i].answers)

\* No call that was read, or is in a response, lacks its identifier.
Identified(f, g) ==
    /\ \A i \in DOMAIN f.slots : f.slots[i].id # NoId
    /\ IsFiniteSet(g.calls) /\ \A call \in g.calls : call.id # NoId

IdsInv ==
    /\ history = [b \in Branches |-> history[b]]
    /\ service.ids => \A b \in Branches :
          /\ pc[b] = "reading" => service.streams
          /\ Identified(acc[b], got[b]) /\ Paired(history[b])

LEMMA IdsInit == ModelInit => IdsInv
<1> SUFFICES ASSUME ModelInit, NEW b \in Branches
             PROVE  /\ history = [c \in Branches |-> history[c]] /\ pc[b] # "reading"
                    /\ Identified(acc[b], got[b]) /\ Paired(history[b])
  BY DEF IdsInv, ModelInit
<1>1. /\ history = [c \in Branches |-> history[c]] /\ pc[b] # "reading"
      /\ acc[b] = NoBuffers /\ got[b] = Nothing
  BY DEF ModelInit
<1>2. Identified(NoBuffers, Nothing)
  BY FS_EmptySet DEF Identified, NoBuffers, Nothing
<1>3. PICK c : c = Content("user", {"text", "image", "document"}, <<>>, <<>>)
  OBVIOUS
<1>4. c \in Contents /\ c.answers = <<>>
  <2>1. PICK S, none, parts : /\ S = Seq(Nat) /\ none = <<>>
                              /\ parts = {"text", "image", "document"}
    OBVIOUS
  <2>2. none \in S
    BY <2>1, EmptySeq
  <2>3. parts \subseteq PartKinds
    BY <2>1 DEF PartKinds, TextParts, OpenAIMedia
  <2>4. c = [role |-> "user", parts |-> parts, calls |-> none, answers |-> none]
    BY <1>3, <2>1 DEF Content
  <2> QED
    BY <2>1, <2>2, <2>3, <2>4 DEF Contents
<1>5. history[b] = <<c>>
  BY <1>3 DEF ModelInit
<1>6. Paired(<<c>>)
  BY <1>4 DEF Paired
<1> QED
  BY <1>1, <1>2, <1>5, <1>6

\* One branch goes on, as the others stay.
LEMMA IdsStep ==
    ASSUME ModelInv, IdsInv, NEW b \in Branches, NEW p, NEW f, NEW g, NEW h,
           pc' = [pc EXCEPT ![b] = p], acc' = [acc EXCEPT ![b] = f],
           got' = [got EXCEPT ![b] = g], history' = [history EXCEPT ![b] = h],
           service' = service,
           service.ids => /\ p = "reading" => service.streams
                          /\ Identified(f, g) /\ Paired(h)
    PROVE  IdsInv'
<1>1. /\ history = [c \in Branches |-> history[c]]
      /\ DOMAIN pc = Branches /\ DOMAIN acc = Branches /\ DOMAIN got = Branches
  BY DEF IdsInv, ModelInv, ModelTyped
<1>2. /\ history' = [c \in Branches |-> history'[c]]
      /\ pc'[b] = p /\ acc'[b] = f /\ got'[b] = g /\ history'[b] = h
      /\ \A c \in Branches \ {b} : /\ pc'[c] = pc[c] /\ acc'[c] = acc[c] /\ got'[c] = got[c]
                                   /\ history'[c] = history[c]
  BY <1>1
<1>3. ASSUME service.ids, NEW c \in Branches
      PROVE  /\ pc'[c] = "reading" => service.streams
             /\ Identified(acc'[c], got'[c]) /\ Paired(history'[c])
  <2>1. CASE c = b
    BY <1>2, <1>3, <2>1
  <2>2. CASE c # b
    BY <1>2, <1>3, <2>2 DEF IdsInv
  <2> QED
    BY <2>1, <2>2
<1> QED
  BY <1>2, <1>3 DEF IdsInv, Identified, Paired

\* A step of a branch that leaves its conversation as it is.
LEMMA IdsKept ==
    ASSUME ModelInv, IdsInv, NEW b \in Branches, NEW p, NEW f, NEW g,
           pc' = [pc EXCEPT ![b] = p], acc' = [acc EXCEPT ![b] = f],
           got' = [got EXCEPT ![b] = g], UNCHANGED <<service, history>>,
           service.ids => (p = "reading" => service.streams) /\ Identified(f, g)
    PROVE  IdsInv'
<1>1. history' = [history EXCEPT ![b] = history[b]] /\ (service.ids => Paired(history[b]))
  BY DEF IdsInv
<1> QED
  BY <1>1, IdsStep

\* What a finite set is mapped to is finite.
LEMMA ImageFinite ==
    ASSUME NEW S, IsFiniteSet(S), NEW f, f = [x \in S |-> f[x]]
    PROVE  IsFiniteSet({f[x] : x \in S})
<1>1. f \in Surjection(S, {f[x] : x \in S})
  <2>1. f \in [S -> {f[x] : x \in S}]
    <3>1. \A x \in S : f[x] \in {f[y] : y \in S}
      OBVIOUS
    <3> QED
      BY <3>1
  <2> QED
    BY <2>1 DEF Surjection
<1> QED
  BY <1>1, FS_Surjection

\* The calls of a response that was read as a whole.
LEMMA WholeIdentified ==
    ASSUME service.ids, NEW a, NEW D, a.calls \in Seq(D)
    PROVE  Identified(NoBuffers, WholeResponse(a))
<1>1. IsFiniteSet(DOMAIN a.calls) /\ DOMAIN a.calls \subseteq Nat \ {0}
  <2>1. DOMAIN a.calls = 1 .. Len(a.calls) /\ Len(a.calls) \in Nat
    OBVIOUS
  <2>2. IsFiniteSet(1 .. Len(a.calls))
    BY <2>1, FS_Interval
  <2> QED
    BY <2>1, <2>2
<1>2. IsFiniteSet(WholeCallParts(a))
  <2> DEFINE f == [k \in DOMAIN a.calls |-> [heads |-> {k}, id |-> IdOf(k)]]
  <2>1. WholeCallParts(a) = {f[k] : k \in DOMAIN a.calls}
    BY DEF WholeCallParts
  <2>2. f = [k \in DOMAIN a.calls |-> f[k]]
    OBVIOUS
  <2> HIDE DEF f
  <2> QED
    BY <1>1, <2>1, <2>2, ImageFinite
<1>3. \A call \in WholeCallParts(a) : call.id # NoId
  BY <1>1 DEF WholeCallParts, IdOf, NoId
<1>4. IsFiniteSet({[heads |-> {1}, id |-> 1]}) /\ IsFiniteSet({})
  BY FS_Singleton, FS_EmptySet
<1>5. \A calls, text, reason, usage : Response(text, reason, calls, usage).calls = calls
  BY DEF Response
<1>6. Failed.calls = {}
  BY DEF Failed, Nothing
<1>7. WholeResponse(a).calls \in {{}, {[heads |-> {1}, id |-> 1]}, WholeCallParts(a)}
  BY <1>5, <1>6 DEF WholeResponse, OpenAIResponse, ArkResponse
<1>8. ASSUME NEW calls, calls = WholeResponse(a).calls
      PROVE  IsFiniteSet(calls) /\ \A call \in calls : call.id # NoId
  <2>1. CASE calls = {}
    BY <1>4, <2>1
  <2>2. CASE calls = {[heads |-> {1}, id |-> 1]}
    BY <1>4, <2>2 DEF NoId
  <2>3. CASE calls = WholeCallParts(a)
    BY <1>2, <1>3, <2>3
  <2> QED
    BY <1>7, <1>8, <2>1, <2>2, <2>3
<1> QED
  BY <1>8 DEF Identified, NoBuffers

\* The calls of a response that was read as a stream.
LEMMA StreamIdentified ==
    ASSUME NEW buf \in Buffers, \A i \in DOMAIN buf.slots : buf.slots[i].id # NoId
    PROVE  Identified(NoBuffers, StreamResponse(buf))
<1>1. buf.slots \in Seq(Slots)
  BY DEF Buffers
<1>2. IsFiniteSet(DOMAIN buf.slots)
  BY <1>1, FS_Interval
<1> DEFINE good == {i \in DOMAIN buf.slots : Parses(buf.slots[i].args)}
           f    == [i \in good |-> [heads |-> buf.slots[i].heads, id |-> buf.slots[i].id]]
<1>3. StreamResponse(buf).calls = {f[i] : i \in good}
  BY DEF StreamResponse, Response
<1>4. IsFiniteSet(good) /\ f = [i \in good |-> f[i]]
  BY <1>2, FS_Subset
<1>5. \A i \in good : f[i].id # NoId
  OBVIOUS
<1> HIDE DEF good, f
<1>6. IsFiniteSet({f[i] : i \in good})
  BY <1>4, ImageFinite
<1>7. IsFiniteSet(StreamResponse(buf).calls)
      /\ \A call \in StreamResponse(buf).calls : call.id # NoId
  BY <1>3, <1>5, <1>6
<1> QED
  BY <1>7 DEF Identified, NoBuffers

\* A call ends.
LEMMA IdsConclude ==
    ASSUME ModelInv, IdsInv, NEW b \in Branches, NEW response, Conclude(b, response),
           service.ids => Identified(NoBuffers, response)
    PROVE  IdsInv'
BY IdsKept DEF Conclude

\* A delta that leaves the slots as they are, or does what it may.
LEMMA IdsDelta ==
    ASSUME ModelInv, IdsInv, NEW b \in Branches, NEW f, StreamUnchanged,
           acc' = [acc EXCEPT ![b] = f],
           service.ids => \A i \in DOMAIN f.slots : f.slots[i].id # NoId
    PROVE  IdsInv'
<1>1. UNCHANGED <<service, history, pc, got>>
  BY DEF StreamUnchanged
<1>2. pc' = [pc EXCEPT ![b] = pc[b]] /\ got' = [got EXCEPT ![b] = got[b]]
  BY <1>1 DEF ModelInv, ModelTyped
<1>3. service.ids => /\ pc[b] = "reading" => service.streams
                     /\ Identified(f, got[b])
  BY DEF IdsInv, Identified
<1> QED
  BY <1>1, <1>2, <1>3, IdsKept

LEMMA IdsCallDelta ==
    ASSUME ModelInv, IdsInv, NEW b \in Branches, CallDelta(b) PROVE IdsInv'
<1>1. /\ answer[b] \in AnswerType /\ acc[b] \in Buffers
      /\ answer[b].calls \in Seq(ToolCalls) /\ acc[b].slots \in Seq(Slots)
  <2>1. answer[b] \in AnswerType /\ acc[b] \in Buffers
    BY Reading
  <2> QED
    BY <2>1 DEF AnswerType, Buffers
<1>2. PICK k, n, slots : /\ k = Len(answer[b].calls) + 1 /\ n = SlotOf(k)
                         /\ slots = Padded(acc[b].slots, n)
  OBVIOUS
<1>3. k \in Nat /\ k > 0 /\ n \in Nat /\ n > 0
  BY <1>1, <1>2 DEF SlotOf
<1>4. PICK filled : filled = [slots[n] EXCEPT !.heads = slots[n].heads \cup {k},
                                !.id = IF IdOf(k) = NoId THEN slots[n].id ELSE IdOf(k)]
  OBVIOUS
<1>5. PICK f : f = [acc[b] EXCEPT !.slots = [slots EXCEPT ![n] = filled]]
  OBVIOUS
<1>6. acc' = [acc EXCEPT ![b] = f] /\ StreamUnchanged
  BY <1>2, <1>4, <1>5 DEF CallDelta
<1>7. /\ slots \in Seq(Slots) /\ n \in DOMAIN slots
      /\ Len(slots) = IF Len(acc[b].slots) < n THEN n ELSE Len(acc[b].slots)
      /\ \A i \in 1 .. Len(acc[b].slots) : slots[i] = acc[b].slots[i]
  BY <1>1, <1>2, <1>3, PaddedSlots
<1>8. f.slots = [slots EXCEPT ![n] = filled]
  BY <1>1, <1>5 DEF Buffers
<1>9. ASSUME service.ids, NEW i \in DOMAIN f.slots PROVE f.slots[i].id # NoId
  <2>1. i \in DOMAIN slots
    BY <1>8, <1>9
  <2>2. CASE i = n
    <3>1. IdOf(k) = k /\ IdOf(k) # NoId
      BY <1>3, <1>9 DEF IdOf, NoId
    <3>2. slots[n] \in Slots
      BY <1>7, ElementOfSeq
    <3>3. filled.id = k
      BY <1>4, <3>1, <3>2 DEF Slots
    <3> QED
      BY <1>7, <1>8, <2>2, <3>1, <3>3
  <2>3. CASE i # n
    <3>1. i \in 1 .. Len(acc[b].slots)
      <4>1. BufferOK(answer[b], acc[b])
        BY <1>9, Reading DEF CallDelta, IdsInv
      <4>2. service.indexes => Len(acc[b].slots) = k - 1
        BY <1>1, <1>2, <4>1 DEF BufferOK
      <4>3. i \in 1 .. Len(slots)
        BY <1>7, <2>1
      <4> QED
        BY <1>1, <1>2, <1>3, <1>7, <2>3, <4>2, <4>3 DEF SlotOf
    <3>2. f.slots[i] = acc[b].slots[i]
      BY <1>7, <1>8, <2>1, <2>3, <3>1
    <3>3. acc[b].slots[i].id # NoId
      BY <1>1, <1>9, <3>1 DEF IdsInv, Identified
    <3> QED
      BY <3>2, <3>3
  <2> QED
    BY <2>2, <2>3
<1> QED
  BY <1>6, <1>9, IdsDelta

LEMMA IdsArgumentDelta ==
    ASSUME ModelInv, IdsInv, NEW b \in Branches, ArgumentDelta(b) PROVE IdsInv'
<1>1. acc[b] \in Buffers /\ acc[b].slots \in Seq(Slots)
  <2>1. acc[b] \in Buffers
    BY Reading
  <2> QED
    BY <2>1 DEF Buffers
<1>2. PICK n, e : acc' = [acc EXCEPT ![b].slots[n].args = Append(@, e)] /\ StreamUnchanged
  BY DEF ArgumentDelta
<1>3. PICK filled : filled = [acc[b].slots[n] EXCEPT !.args = Append(@, e)]
  OBVIOUS
<1>4. PICK f : f = [acc[b] EXCEPT !.slots = [acc[b].slots EXCEPT ![n] = filled]]
  OBVIOUS
<1>5. acc' = [acc EXCEPT ![b] = f]
  BY <1>2, <1>3, <1>4
<1>6. f.slots = [acc[b].slots EXCEPT ![n] = filled]
  BY <1>1, <1>4 DEF Buffers
<1>7. ASSUME service.ids, NEW i \in DOMAIN f.slots PROVE f.slots[i].id # NoId
  <2>1. i \in DOMAIN acc[b].slots
    BY <1>6, <1>7
  <2>2. acc[b].slots[i].id # NoId
    BY <1>7, <2>1 DEF IdsInv, Identified
  <2>3. CASE i = n
    <3>1. acc[b].slots[n] \in Slots
      BY <1>1, <2>1, <2>3, ElementOfSeq
    <3>2. filled.id = acc[b].slots[n].id
      BY <1>3, <3>1 DEF Slots
    <3> QED
      BY <1>1, <1>6, <2>1, <2>2, <2>3, <3>2
  <2>4. CASE i # n
    BY <1>1, <1>6, <2>1, <2>2, <2>4
  <2> QED
    BY <2>3, <2>4
<1> QED
  BY <1>2, <1>5, <1>7, IdsDelta

\* The contents that a response with tool calls adds.
LEMMA FollowPaired ==
    ASSUME NEW h, Paired(h), NEW ids \in Seq(Nat), NoId \notin ToSet(ids)
    PROVE  Paired(h \o <<Content("model", {"text"}, ids, <<>>), Content("user", {}, <<>>, ids)>>)
<1>1. PICK c, d : c = Content("model", {"text"}, ids, <<>>) /\ d = Content("user", {}, <<>>, ids)
  OBVIOUS
<1>2. /\ c \in Contents /\ c.role = "model" /\ c.answers = <<>> /\ c.calls = ids
      /\ d \in Contents /\ d.answers = ids
  <2>1. PICK S, none, parts : S = Seq(Nat) /\ none = <<>> /\ parts = {"text"}
    OBVIOUS
  <2>2. none \in S /\ ids \in S
    BY <2>1, EmptySeq
  <2>3. parts \subseteq PartKinds
    BY <2>1 DEF PartKinds, TextParts
  <2>4. /\ c = [role |-> "model", parts |-> parts, calls |-> ids, answers |-> none]
        /\ d = [role |-> "user", parts |-> {}, calls |-> none, answers |-> ids]
    BY <1>1, <2>1 DEF Content
  <2> QED
    BY <2>1, <2>2, <2>3, <2>4 DEF Contents
<1>3. h \in Seq(Contents)
  BY DEF Paired
<1>4. PICK n \in Nat : n = Len(h)
  BY <1>3
<1>5. PICK g : g = h \o <<c, d>>
  OBVIOUS
<1>6. /\ g \in Seq(Contents) /\ Len(g) = n + 2
      /\ \A i \in 1 .. n : g[i] = h[i]
      /\ g[n + 1] = c /\ g[n + 2] = d
  BY <1>2, <1>3, <1>4, <1>5
<1>7. ASSUME NEW i \in 1 .. Len(g), g[i].answers # <<>>
      PROVE  /\ i > 1 /\ g[i - 1].role = "model" /\ g[i - 1].answers = <<>>
             /\ g[i - 1].calls = g[i].answers
             /\ NoId \notin ToSet(g[i].answers)
  <2>1. CASE i \in 1 .. n
    <3>1. /\ i > 1 /\ h[i - 1].role = "model" /\ h[i - 1].answers = <<>>
          /\ h[i - 1].calls = h[i].answers
          /\ NoId \notin ToSet(h[i].answers)
      BY <1>4, <1>6, <1>7, <2>1 DEF Paired
    <3>2. i - 1 \in 1 .. n
      BY <2>1, <3>1
    <3> QED
      BY <1>6, <2>1, <3>1, <3>2
  <2>2. CASE i = n + 1
    BY <1>2, <1>6, <1>7, <2>2
  <2>3. CASE i = n + 2
    BY <1>2, <1>6, <2>3
  <2> QED
    BY <1>6, <2>1, <2>2, <2>3
<1>8. Paired(g)
  BY <1>6, <1>7 DEF Paired
<1> QED
  BY <1>1, <1>5, <1>8

\* A finite set of numbers as a sequence.
LEMMA ListedIds ==
    ASSUME NEW S, S \subseteq Nat, IsFiniteSet(S)
    PROVE  SetToSeq(S) \in Seq(Nat) /\ ToSet(SetToSeq(S)) \subseteq S
<1>1. Cardinality(S) \in Nat /\ ExistsBijection(1 .. Cardinality(S), S)
  BY FS_CardinalityType
<1>2. \E f \in [1 .. Cardinality(S) -> S] : IsInjective(f)
  BY <1>1 DEF ExistsBijection, Bijection, Injection
<1>3. SetToSeq(S) \in [1 .. Cardinality(S) -> S]
  BY <1>2 DEF SetToSeq
<1>4. PICK f, n : n \in Nat /\ f = SetToSeq(S) /\ n = Cardinality(S)
  BY <1>1
<1>5. f \in [1 .. n -> S]
  BY <1>3, <1>4
<1>6. f \in [1 .. n -> Nat] /\ \A i \in DOMAIN f : f[i] \in S
  BY <1>5
<1>7. f \in Seq(Nat)
  <2>1. PICK E : E = Nat
    OBVIOUS
  <2>2. Seq(E) = UNION {[1 .. m -> E] : m \in Nat}
    BY SeqDef
  <2>3. [1 .. n -> E] \in {[1 .. m -> E] : m \in Nat}
    BY <1>4
  <2> QED
    BY <1>6, <2>1, <2>2, <2>3, Zenon
<1> QED
  BY <1>4, <1>6, <1>7 DEF ToSet

LEMMA IdsDeliver ==
    ASSUME ModelInv, IdsInv, NEW b \in Branches, Deliver(b) PROVE IdsInv'
<1>1. /\ got' = [got EXCEPT ![b] = Nothing] /\ UNCHANGED <<service, acc>>
      /\ Follow(b, got[b])
  BY DEF Deliver
<1>2. acc' = [acc EXCEPT ![b] = acc[b]]
  BY <1>1 DEF ModelInv, ModelTyped
<1>3. service.ids => Identified(acc[b], Nothing)
  BY FS_EmptySet DEF IdsInv, Identified, Nothing
<1>4. PICK S : S = {call.id : call \in got[b].calls}
  OBVIOUS
<1>5. ASSUME service.ids PROVE SetToSeq(S) \in Seq(Nat) /\ NoId \notin ToSet(SetToSeq(S))
  <2>1. /\ IsFiniteSet(got[b].calls) /\ \A call \in got[b].calls : call.id # NoId
        /\ \A call \in got[b].calls : call.id \in Nat
    BY <1>5 DEF IdsInv, Identified, ModelInv, ModelTyped, Responses
  <2>2. IsFiniteSet(S)
    <3> DEFINE f == [call \in got[b].calls |-> call.id]
    <3>1. S = {f[call] : call \in got[b].calls} /\ f = [call \in got[b].calls |-> f[call]]
      BY <1>4
    <3> HIDE DEF f
    <3> QED
      BY <2>1, <3>1, ImageFinite
  <2>3. S \subseteq Nat /\ NoId \notin S
    BY <1>4, <2>1
  <2> QED
    BY <2>2, <2>3, ListedIds
<1>6. CASE pc' = [pc EXCEPT ![b] = "over"] /\ UNCHANGED history
  BY <1>1, <1>2, <1>3, <1>6, IdsKept
<1>7. CASE pc' = [pc EXCEPT ![b] = "idle"] /\ history' = [history EXCEPT ![b] = history[b] \o
                <<Content("model", {"text"}, SetToSeq(S), <<>>),
                  Content("user", {}, <<>>, SetToSeq(S))>>]
  <2>1. PICK ids, h : ids = SetToSeq(S) /\ h = history[b] \o
                <<Content("model", {"text"}, ids, <<>>), Content("user", {}, <<>>, ids)>>
    OBVIOUS
  <2>2. service.ids => Paired(h)
    BY <1>5, <2>1, FollowPaired DEF IdsInv
  <2>3. history' = [history EXCEPT ![b] = h]
    BY <1>7, <2>1
  <2> QED
    BY <1>1, <1>2, <1>3, <1>7, <2>2, <2>3, IdsStep
<1> QED
  BY <1>1, <1>4, <1>6, <1>7 DEF Follow

LEMMA IdsNext == ModelInv /\ IdsInv /\ [ModelNext]_modelVars => IdsInv'
<1> SUFFICES ASSUME ModelInv, IdsInv, [ModelNext]_modelVars PROVE IdsInv'
  OBVIOUS
<1>1. ASSUME NEW b \in Branches, Ask(b) \/ Open(b) PROVE IdsInv'
  <2>1. PICK p : /\ pc' = [pc EXCEPT ![b] = p] /\ UNCHANGED <<service, history, acc, got>>
                 /\ p = "reading" => service.streams
    BY <1>1 DEF Ask, Open
  <2>2. /\ acc' = [acc EXCEPT ![b] = acc[b]] /\ got' = [got EXCEPT ![b] = got[b]]
        /\ service.ids => Identified(acc[b], got[b])
    BY <2>1 DEF IdsInv, ModelInv, ModelTyped
  <2>3. /\ service' = service /\ history' = history /\ pc' = [pc EXCEPT ![b] = p]
        /\ service.ids => (p = "reading" => service.streams) /\ Identified(acc[b], got[b])
    BY <2>1, <2>2
  <2> QED
    BY <2>2, <2>3, IdsKept
<1>2. ASSUME NEW b \in Branches, CallFails(b) PROVE IdsInv'
  <2>1. Identified(NoBuffers, Failed)
    BY FS_EmptySet DEF Identified, NoBuffers, Failed, Nothing
  <2> QED
    BY <1>2, <2>1, IdsConclude DEF CallFails
<1>3. ASSUME NEW b \in Branches, AnswerWhole(b) PROVE IdsInv'
  <2>1. PICK a \in Answers : Conclude(b, WholeResponse(a))
    BY <1>3 DEF AnswerWhole
  <2>2. PICK D, S : D = [need : {0, ArgPieces}, sent : {0}] /\ S = SeqOf(D, MaxCalls)
    OBVIOUS
  <2>3. a.calls \in SeqOf(D, MaxCalls)
    BY <2>2 DEF Answers
  <2>4. PICK m \in 0 .. MaxCalls : a.calls \in [1 .. m -> D]
    BY <2>3 DEF SeqOf
  <2>5. m \in Nat /\ a.calls \in Seq(D)
    BY <2>4, ModelAssumption
  <2>6. service.ids => Identified(NoBuffers, WholeResponse(a))
    BY <2>5, WholeIdentified
  <2> QED
    BY <1>3, <2>1, <2>6, IdsConclude
<1>4. ASSUME NEW b \in Branches, TextDelta(b) \/ ReasoningDelta(b) \/ LastChunk(b) PROVE IdsInv'
  <2>1. acc[b] \in Buffers /\ StreamUnchanged
    BY <1>4, Reading DEF TextDelta, ReasoningDelta, LastChunk
  <2>2. PICK f : acc' = [acc EXCEPT ![b] = f] /\ f.slots = acc[b].slots
    <3>1. CASE TextDelta(b)
      <4>1. acc' = [acc EXCEPT ![b] = [acc[b] EXCEPT !.text = @ + 1]]
        BY <3>1 DEF TextDelta
      <4>2. [acc[b] EXCEPT !.text = @ + 1].slots = acc[b].slots
        BY <2>1 DEF Buffers
      <4> QED
        BY <4>1, <4>2
    <3>2. CASE ReasoningDelta(b)
      <4>1. acc' = [acc EXCEPT ![b] = [acc[b] EXCEPT !.reason = @ + 1]]
        BY <3>2 DEF ReasoningDelta
      <4>2. [acc[b] EXCEPT !.reason = @ + 1].slots = acc[b].slots
        BY <2>1 DEF Buffers
      <4> QED
        BY <4>1, <4>2
    <3>3. CASE LastChunk(b)
      <4>1. PICK finish, usage :
               acc' = [acc EXCEPT ![b] = [acc[b] EXCEPT !.finish = finish, !.usage = usage]]
        BY <3>3 DEF LastChunk
      <4>2. [acc[b] EXCEPT !.finish = finish, !.usage = usage].slots = acc[b].slots
        BY <2>1 DEF Buffers
      <4> QED
        BY <4>1, <4>2
    <3> QED
      BY <1>4, <3>1, <3>2, <3>3
  <2>3. service.ids => \A i \in DOMAIN f.slots : f.slots[i].id # NoId
    BY <2>2 DEF IdsInv, Identified
  <2> QED
    BY <2>1, <2>2, <2>3, IdsDelta
<1>5. ASSUME NEW b \in Branches, StreamEnds(b) PROVE IdsInv'
  <2>1. service.ids => Identified(NoBuffers, Nothing)
    BY FS_EmptySet DEF Identified, NoBuffers, Nothing
  <2>2. service.ids => Identified(NoBuffers, StreamResponse(acc[b]))
    <3>1. acc[b] \in Buffers
      BY Reading
    <3>2. service.ids => \A i \in DOMAIN acc[b].slots : acc[b].slots[i].id # NoId
      BY DEF IdsInv, Identified
    <3> QED
      BY <3>1, <3>2, StreamIdentified
  <2>3. PICK r : r = IF IsSilent(acc[b]) THEN Nothing ELSE StreamResponse(acc[b])
    OBVIOUS
  <2> QED
    BY <1>5, <2>1, <2>2, <2>3, IdsConclude DEF StreamEnds
<1>6. CASE Abandon
  <2>1. Identified(NoBuffers, Nothing)
    BY FS_EmptySet DEF Identified, NoBuffers, Nothing
  <2> QED
    BY <1>6, <2>1 DEF Abandon, IdsInv, Identified, Paired
<1>7. CASE UNCHANGED modelVars
  BY <1>7 DEF modelVars, IdsInv, Identified, Paired
<1>8. CASE \E b \in Branches :
             \/ Ask(b) \/ CallFails(b) \/ AnswerWhole(b) \/ Open(b)
             \/ TextDelta(b) \/ ReasoningDelta(b) \/ CallDelta(b) \/ ArgumentDelta(b)
             \/ LastChunk(b) \/ StreamEnds(b) \/ Deliver(b) \/ DeliverError(b)
  BY <1>1, <1>2, <1>3, <1>4, <1>5, <1>6, <1>8, IdsCallDelta, IdsArgumentDelta, IdsDeliver
     DEF DeliverError
<1> QED
  BY <1>6, <1>7, <1>8 DEF ModelNext, ConsumerStops

\* What one content is converted to.
LEMMA Converted ==
    ASSUME NEW c \in Contents, NEW msgs, msgs = ConvertContent(c)
    PROVE  /\ msgs \in Seq(Wire)
           /\ c.answers = <<>> => \A i \in 1 .. Len(msgs) : msgs[i].role # "tool"
           /\ \A i \in 1 .. Len(msgs) : msgs[i].role = "tool" =>
                 \E k \in DOMAIN c.answers : msgs[i].answers = SentId("answer", c.answers[k])
           /\ c.answers = <<>> /\ c.role = "model" /\ c.calls # <<>> =>
                 /\ Len(msgs) = 1 /\ msgs[1].role = "assistant"
                 /\ msgs[1].calls = {SentId("call", id) : id \in ToSet(c.calls)}
<1>1. /\ c.role \in {"user", "model"} /\ c.parts \subseteq PartKinds
      /\ c.calls \in Seq(Nat) /\ c.answers \in Seq(Nat)
  BY DEF Contents
<1>2. \A id \in Nat : SentId("call", id) \in SentIds /\ SentId("answer", id) \in SentIds
  BY DEF SentId, SentIds
<1>3. CASE c.answers # <<>>
  <2>1. PICK s : s = c.answers
    OBVIOUS
  <2>2. PICK n \in Nat : n = Len(c.answers)
    BY <1>1
  <2>3. msgs = [i \in 1 .. n |-> [role |-> "tool", parts |-> {"text"}, calls |-> {},
                                  answers |-> SentId("answer", s[i])]]
    BY <1>1, <1>3, <2>1, <2>2 DEF ConvertContent, ToolMessages
  <2>4. \A i \in 1 .. n : s[i] \in Nat
    BY <1>1, <2>1, <2>2, ElementOfSeq
  <2>5. {"text"} \subseteq PartKinds
    BY DEF PartKinds, TextParts
  <2>6. \A i \in 1 .. n : [role |-> "tool", parts |-> {"text"}, calls |-> {},
                           answers |-> SentId("answer", s[i])] \in Wire
    BY <1>2, <2>4, <2>5 DEF Wire
  <2>7. \A i \in 1 .. n : msgs[i].answers = SentId("answer", s[i])
    BY <2>3
  <2>8. msgs \in [1 .. n -> Wire]
    BY <2>3, <2>6
  <2>9. msgs \in Seq(Wire) /\ Len(msgs) = n
    BY <2>2, <2>8
  <2> QED
    BY <1>1, <1>3, <2>1, <2>2, <2>7, <2>9
<1>4. CASE c.answers = <<>> /\ c.parts = {} /\ c.calls = <<>>
  BY <1>4, EmptySeq DEF ConvertContent
<1>5. CASE c.answers = <<>> /\ ~ (c.parts = {} /\ c.calls = <<>>)
  <2>1. PICK role, parts, calls :
           /\ role = IF c.role = "model" THEN "assistant" ELSE c.role
           /\ parts = c.parts \cap (IF c.calls # <<>> THEN TextParts ELSE TextParts \cup MediaParts)
           /\ calls = {SentId("call", id) : id \in ToSet(c.calls)}
    OBVIOUS
  <2>2. PICK m : m = [role |-> role, parts |-> parts, calls |-> calls, answers |-> <<>>]
    OBVIOUS
  <2>3. msgs = <<m>>
    BY <1>5, <2>1, <2>2 DEF ConvertContent
  <2>4. ToSet(c.calls) \subseteq Nat
    BY <1>1 DEF ToSet
  <2>5. role \in {"assistant", "user"} /\ parts \subseteq PartKinds /\ calls \subseteq SentIds
    BY <1>1, <1>2, <2>1, <2>4
  <2>6. m \in Wire /\ m.role = role /\ m.calls = calls
    BY <2>2, <2>5 DEF Wire
  <2>7. msgs \in Seq(Wire) /\ Len(msgs) = 1 /\ msgs[1] = m
    BY <2>3, <2>6
  <2> QED
    BY <1>5, <2>1, <2>5, <2>6, <2>7
<1> QED
  BY <1>3, <1>4, <1>5

\* Every tool message answers a call of a message before it.
Resolved(msgs) ==
    \A i \in 1 .. Len(msgs) : msgs[i].role = "tool" =>
       \E j \in 1 .. i - 1 : msgs[j].role = "assistant" /\ msgs[i].answers \in msgs[j].calls

\* Where the elements of two sequences are when they are joined.
LEMMA JoinAt ==
    ASSUME NEW E, NEW p \in Seq(E), NEW q \in Seq(E), NEW m \in Nat, NEW n \in Nat,
           m = Len(p), n = Len(q), NEW g, g = p \o q
    PROVE  /\ g \in Seq(E) /\ Len(g) = m + n
           /\ \A i \in 1 .. m : g[i] = p[i]
           /\ \A i \in 1 .. n : g[m + i] = q[i]
OBVIOUS

LEMMA JoinAnswered ==
    ASSUME NEW E, NEW p \in Seq(E), NEW q \in Seq(E), Resolved(p),
           \A i \in 1 .. Len(q) : q[i].role = "tool" =>
              \E j \in 1 .. Len(p) : p[j].role = "assistant" /\ q[i].answers \in p[j].calls
    PROVE  p \o q \in Seq(E) /\ Resolved(p \o q)
<1>1. PICK m \in Nat, n \in Nat : m = Len(p) /\ n = Len(q)
  OBVIOUS
<1>2. PICK g : g = p \o q
  OBVIOUS
<1>3. /\ g \in Seq(E) /\ Len(g) = m + n
      /\ \A i \in 1 .. m : g[i] = p[i]
      /\ \A i \in 1 .. n : g[m + i] = q[i]
  BY <1>1, <1>2, JoinAt
<1>4. ASSUME NEW i \in 1 .. (m + n), g[i].role = "tool"
      PROVE  \E j \in 1 .. i - 1 : g[j].role = "assistant" /\ g[i].answers \in g[j].calls
  <2>1. CASE i \in 1 .. m
    <3>1. PICK j \in 1 .. i - 1 : p[j].role = "assistant" /\ p[i].answers \in p[j].calls
      BY <1>1, <1>3, <1>4, <2>1 DEF Resolved
    <3>2. j \in 1 .. m
      BY <1>1, <2>1
    <3> QED
      BY <1>3, <2>1, <3>1, <3>2
  <2>2. CASE i - m \in 1 .. n
    <3>1. g[i] = q[i - m]
      <4>1. g[m + (i - m)] = q[i - m]
        BY <1>3, <2>2
      <4>2. m + (i - m) = i
        BY <1>1
      <4> QED
        BY <4>1, <4>2
    <3>2. PICK j \in 1 .. m : p[j].role = "assistant" /\ q[i - m].answers \in p[j].calls
      BY <1>1, <1>4, <2>2, <3>1
    <3>3. j \in 1 .. i - 1 /\ g[j] = p[j]
      BY <1>1, <1>3, <2>2
    <3> QED
      BY <3>1, <3>2, <3>3
  <2> QED
    BY <1>1, <2>1, <2>2
<1>5. Resolved(g)
  BY <1>3, <1>4 DEF Resolved
<1> QED
  BY <1>2, <1>3, <1>5

\* Induction over the numbers, with a set of the good ones in place of a predicate.
LEMMA Induction ==
    ASSUME NEW OK, 0 \in OK, \A n \in Nat : n \in OK => n + 1 \in OK
    PROVE  Nat \subseteq OK
<1> DEFINE Bad == Nat \ OK
<1> SUFFICES ASSUME Bad # {} PROVE FALSE
  OBVIOUS
<1>1. PICK n \in Bad : \A m \in Bad : ~ (<<m, n>> \in OpToRel(<, Nat))
  BY WFMin, NatLessThanWellFounded
<1>2. n - 1 \in Nat \ OK
  OBVIOUS
<1>3. <<n - 1, n>> \in OpToRel(<, Nat)
  BY <1>2 DEF OpToRel
<1> QED
  BY <1>1, <1>2, <1>3

\* The recursion by which FlattenSeq joins, over the first n sequences.
Joined(seqs, h, n) == IF n = 1 THEN seqs[n] ELSE h[n - 1] \o seqs[n]
JoinStep(seqs, m, h) == [n \in 1 .. m |-> Joined(seqs, h, n)]
JoinIter(seqs) == CHOOSE h : h = JoinStep(seqs, Len(seqs), h)

LEMMA FlattenUnfold ==
    ASSUME NEW seqs, Len(seqs) # 0
    PROVE  FlattenSeq(seqs) = JoinIter(seqs)[Len(seqs)]
BY DEF FlattenSeq, JoinIter, JoinStep, Joined

\* There is a function that satisfies it.
LEMMA JoinExists ==
    ASSUME NEW seqs, NEW m \in Nat
    PROVE  \E h : h = JoinStep(seqs, m, h)
<1> DEFINE OK == {n \in Nat : \E h : h = JoinStep(seqs, n, h)}
<1>1. 0 \in OK
  <2> DEFINE h == JoinStep(seqs, 0, <<>>)
  <2>1. h = JoinStep(seqs, 0, h)
    BY DEF JoinStep
  <2> HIDE DEF h
  <2> QED
    BY <2>1
<1>2. ASSUME NEW n \in Nat, n \in OK PROVE n + 1 \in OK
  <2>1. PICK h : h = JoinStep(seqs, n, h)
    BY <1>2
  <2> DEFINE k == JoinStep(seqs, n + 1, h)
  <2>2. ASSUME NEW i \in 1 .. n PROVE k[i] = h[i]
    <3>1. h[i] = Joined(seqs, h, i)
      BY <2>1 DEF JoinStep
    <3>2. k[i] = Joined(seqs, h, i)
      BY DEF JoinStep
    <3> QED
      BY <3>1, <3>2
  <2> HIDE DEF k
  <2>3. ASSUME NEW i \in 1 .. (n + 1) PROVE Joined(seqs, h, i) = Joined(seqs, k, i)
    <3>1. i # 1 => i - 1 \in 1 .. n
      OBVIOUS
    <3> QED
      BY <2>2, <3>1 DEF Joined
  <2>4. k = JoinStep(seqs, n + 1, k)
    BY <2>3 DEF k, JoinStep
  <2>5. \E g : g = JoinStep(seqs, n + 1, g)
    BY <2>4
  <2> QED
    BY <2>5
<1> HIDE DEF OK
<1>3. Nat \subseteq OK
  BY <1>1, <1>2, Induction
<1> QED
  BY <1>3 DEF OK

\* The messages of a conversation whose answers follow their calls.
LEMMA PairedAnswered ==
    ASSUME NEW w, Paired(w), Len(w) # 0, NEW seqs,
           seqs = [i \in DOMAIN w |-> ConvertContent(w[i])]
    PROVE  FlattenSeq(seqs) \in Seq(Wire) /\ Resolved(FlattenSeq(seqs))
<1>1. PICK m : m \in Nat \ {0} /\ m = Len(w) /\ DOMAIN w = 1 .. m
  BY DEF Paired
<1>2. \A i \in 1 .. m : w[i] \in Contents /\ seqs[i] = ConvertContent(w[i])
  BY <1>1, ElementOfSeq DEF Paired
<1>3. \A i \in 1 .. m : seqs[i] \in Seq(Wire)
  BY <1>2, Converted
<1>4. Len(seqs) = m
  <2>1. seqs \in [1 .. m -> Seq(Wire)]
    BY <1>1, <1>3
  <2> QED
    BY <1>1, <2>1
<1>5. PICK h : h = JoinIter(seqs)
  OBVIOUS
<1>6. h = JoinStep(seqs, m, h)
  BY <1>1, <1>4, <1>5, JoinExists DEF JoinIter
<1>7. \A n \in 1 .. m : h[n] = Joined(seqs, h, n)
  BY <1>6 DEF JoinStep
\* The last message is the one that the calls of the n-th content are in.
<1> DEFINE Ends(n) ==
       w[n].answers = <<>> /\ w[n].role = "model" /\ w[n].calls # <<>> =>
          \E j \in 1 .. Len(h[n]) :
             /\ h[n][j].role = "assistant"
             /\ h[n][j].calls = {SentId("call", id) : id \in ToSet(w[n].calls)}
       OK == {n \in Nat : n \in 1 .. m => h[n] \in Seq(Wire) /\ Resolved(h[n]) /\ Ends(n)}
<1>8. 0 \in OK
  OBVIOUS
<1>9. ASSUME NEW n \in Nat, n \in OK PROVE n + 1 \in OK
  <2> SUFFICES ASSUME n + 1 \in 1 .. m
               PROVE  h[n + 1] \in Seq(Wire) /\ Resolved(h[n + 1]) /\ Ends(n + 1)
    OBVIOUS
  <2>1. PICK q, c : q = seqs[n + 1] /\ c = w[n + 1]
    OBVIOUS
  <2>2. c \in Contents /\ q = ConvertContent(c) /\ q \in Seq(Wire)
    BY <1>2, <1>3, <2>1
  <2>3. CASE n = 0
    <3>1. h[n + 1] = q
      BY <1>7, <2>1, <2>3 DEF Joined
    <3>2. c.answers = <<>>
      BY <1>1, <2>1, <2>3 DEF Paired
    <3>3. Resolved(q)
      BY <2>2, <3>2, Converted DEF Resolved
    <3>4. Ends(n + 1)
      BY <2>1, <2>2, <3>1, Converted
    <3> QED
      BY <2>2, <3>1, <3>3, <3>4
  <2>4. CASE n # 0
    <3>1. n \in 1 .. m /\ h[n + 1] = h[n] \o q
      <4>1. n \in 1 .. m /\ n + 1 # 1 /\ (n + 1) - 1 = n
        BY <1>1, <2>4
      <4>2. h[n + 1] = Joined(seqs, h, n + 1)
        BY <1>7
      <4> QED
        BY <2>1, <4>1, <4>2 DEF Joined
    <3>2. h[n] \in Seq(Wire) /\ Resolved(h[n]) /\ Ends(n)
      BY <1>9, <3>1
    <3>3. ASSUME NEW i \in 1 .. Len(q), q[i].role = "tool"
          PROVE  \E j \in 1 .. Len(h[n]) : /\ h[n][j].role = "assistant"
                                           /\ q[i].answers \in h[n][j].calls
      <4>1. /\ c.answers # <<>>
            /\ \E k \in DOMAIN c.answers : q[i].answers = SentId("answer", c.answers[k])
        BY <2>2, <3>3, Converted
      <4>2. PICK k \in DOMAIN c.answers : q[i].answers = SentId("answer", c.answers[k])
        BY <4>1
      <4>3. /\ w[n].role = "model" /\ w[n].answers = <<>> /\ w[n].calls = c.answers
            /\ NoId \notin ToSet(c.answers)
        BY <1>1, <2>1, <4>1 DEF Paired
      <4>4. PICK j \in 1 .. Len(h[n]) :
               /\ h[n][j].role = "assistant"
               /\ h[n][j].calls = {SentId("call", id) : id \in ToSet(w[n].calls)}
        BY <3>2, <4>1, <4>3
      <4>5. c.answers[k] \in ToSet(c.answers) /\ c.answers[k] # NoId
        BY <4>3 DEF ToSet
      <4>6. SentId("answer", c.answers[k]) = SentId("call", c.answers[k])
        BY <4>5 DEF SentId
      <4> QED
        BY <4>2, <4>3, <4>4, <4>5, <4>6
    <3>4. h[n + 1] \in Seq(Wire) /\ Resolved(h[n + 1])
      BY <2>2, <3>1, <3>2, <3>3, JoinAnswered
    <3>5. Ends(n + 1)
      <4> SUFFICES ASSUME c.answers = <<>>, c.role = "model", c.calls # <<>>
                   PROVE  \E j \in 1 .. Len(h[n + 1]) :
                             /\ h[n + 1][j].role = "assistant"
                             /\ h[n + 1][j].calls = {SentId("call", id) : id \in ToSet(c.calls)}
        BY <2>1
      <4>1. /\ Len(q) = 1 /\ q[1].role = "assistant"
            /\ q[1].calls = {SentId("call", id) : id \in ToSet(c.calls)}
        BY <2>2, Converted
      <4>2. /\ Len(h[n + 1]) = Len(h[n]) + 1 /\ h[n + 1][Len(h[n]) + 1] = q[1]
            /\ Len(h[n]) \in Nat
        <5>1. PICK k \in Nat : k = Len(h[n])
          BY <3>2
        <5>2. PICK p, g, l : p = h[n] /\ g = h[n + 1] /\ l \in Nat /\ l = 1
          OBVIOUS
        <5>3. /\ p \in Seq(Wire) /\ q \in Seq(Wire) /\ k = Len(p) /\ l = Len(q)
              /\ g = p \o q
          BY <2>2, <3>1, <3>2, <4>1, <5>1, <5>2
        <5>4. Len(g) = k + l /\ \A i \in 1 .. l : g[k + i] = q[i]
          BY <5>3, JoinAt
        <5>5. Len(g) = k + 1 /\ g[k + 1] = q[1]
          BY <5>2, <5>4
        <5> QED
          BY <5>1, <5>2, <5>5
      <4>3. Len(h[n]) + 1 \in 1 .. Len(h[n + 1])
        BY <4>2
      <4> QED
        BY <4>1, <4>2, <4>3
    <3> QED
      BY <3>4, <3>5
  <2> QED
    BY <2>3, <2>4
<1> HIDE DEF OK
<1>10. m \in OK
  BY <1>1, <1>8, <1>9, Induction
<1>11. h[m] \in Seq(Wire) /\ Resolved(h[m])
  BY <1>1, <1>10 DEF OK
<1> QED
  BY <1>1, <1>4, <1>5, <1>11, FlattenUnfold

LEMMA IdsImplied == IdsInv => ToolIdsMatch
<1> SUFFICES ASSUME IdsInv, service.ids, NEW b \in Branches
             PROVE  LET msgs == Messages(b)
                    IN  \A i \in DOMAIN msgs : msgs[i].role = "tool" =>
                           \E j \in 1 .. i - 1 : /\ msgs[j].role = "assistant"
                                                 /\ msgs[i].answers \in msgs[j].calls
  BY DEF ToolIdsMatch
<1>1. PICK w, extra : /\ w = WithUserLast(history[b])
                      /\ extra = Content("user", {"text"}, <<>>, <<>>)
  OBVIOUS
<1>2. Paired(history[b])
  BY DEF IdsInv
<1>3. Paired(w) /\ Len(w) # 0
  <2>1. extra \in Contents /\ extra.answers = <<>>
    <3>1. PICK S, none, parts : S = Seq(Nat) /\ none = <<>> /\ parts = {"text"}
      OBVIOUS
    <3>2. none \in S
      BY <3>1, EmptySeq
    <3>3. parts \subseteq PartKinds
      BY <3>1 DEF PartKinds, TextParts
    <3>4. extra = [role |-> "user", parts |-> parts, calls |-> none, answers |-> none]
      BY <1>1, <3>1 DEF Content
    <3> QED
      BY <3>1, <3>2, <3>3, <3>4 DEF Contents
  <2>2. CASE w = history[b] /\ history[b] # <<>>
    BY <1>2, <2>2 DEF Paired
  <2>3. CASE w = Append(history[b], extra)
    <3>1. PICK h, n : n \in Nat /\ h = history[b] /\ n = Len(h) /\ h \in Seq(Contents)
      BY <1>2 DEF Paired
    <3>2. /\ w \in Seq(Contents) /\ Len(w) = n + 1 /\ w[n + 1] = extra
          /\ \A i \in 1 .. n : w[i] = h[i]
      BY <2>1, <2>3, <3>1
    <3>3. ASSUME NEW i \in 1 .. Len(w), w[i].answers # <<>>
          PROVE  /\ i > 1 /\ w[i - 1].role = "model" /\ w[i - 1].answers = <<>>
                 /\ w[i - 1].calls = w[i].answers
                 /\ NoId \notin ToSet(w[i].answers)
      <4>1. i \in 1 .. n
        BY <2>1, <3>1, <3>2, <3>3
      <4>2. /\ i > 1 /\ h[i - 1].role = "model" /\ h[i - 1].answers = <<>>
            /\ h[i - 1].calls = h[i].answers
            /\ NoId \notin ToSet(h[i].answers)
        BY <1>2, <3>1, <3>2, <3>3, <4>1 DEF Paired
      <4>3. i - 1 \in 1 .. n
        BY <3>1, <4>1, <4>2
      <4> QED
        BY <3>2, <4>1, <4>2, <4>3
    <3> QED
      BY <3>1, <3>2, <3>3 DEF Paired
  <2> QED
    BY <1>1, <2>2, <2>3 DEF WithUserLast
<1>4. Messages(b) = FlattenSeq([i \in DOMAIN w |-> ConvertContent(w[i])])
  BY <1>1 DEF Messages
<1>5. PICK msgs : msgs = Messages(b)
  OBVIOUS
<1>6. msgs \in Seq(Wire) /\ Resolved(msgs)
  BY <1>3, <1>4, <1>5, PairedAnswered
<1>7. DOMAIN msgs = 1 .. Len(msgs)
  BY <1>6
<1> QED
  BY <1>5, <1>6, <1>7 DEF Resolved

\* In every request, a tool message answers a call of an assistant message before
\* it, if the service gives its calls identifiers (the conversion of contents in
\* openai.go and ark.go, which makes up an identifier where one is missing).
THEOREM ToolIdsAgree == ModelSpec => []ToolIdsMatch
<1>1. ModelInit => IdsInv
  BY IdsInit
<1>2. ModelInv /\ IdsInv /\ [ModelNext]_modelVars => IdsInv'
  BY IdsNext
<1> QED
  BY <1>1, <1>2, ModelInvariant, IdsImplied, PTL DEF ModelSpec

(***************************************************************************)
(* ServiceTools: what a call returns is what the service did for it        *)
(***************************************************************************)

\* What a call is while it asks one question.
Simple(r) ==
    /\ r \in [pc : {r.pc}, tool : {r.tool}, result : {r.result}, pair : {r.pair}, body : {r.body}]
    /\ r.pc \in {"exchange", "called", "sent", "returned"}
    /\ r.tool \in Signed \cup {"speech", "vesearch", "scraper", "links", "many"}
    /\ r.pc # "returned" => r.result = "none"
    /\ r.tool = "many" => r.pc = "called"
    /\ r.pc = "sent" => r.tool \in Signed \cup {"vesearch", "scraper", "links"}
    /\ r.result = "answer" => r.tool \notin {"speech", "many"} /\ r.body = "good"
    /\ r.result = "blank" => r.body = "hollow" \/ (r.tool = "links" /\ r.body = "empty")
    /\ r.result = "raw" => r.tool = "code" /\ r.body \notin Results
    /\ r.tool \in Signed /\ r.result \in {"answer", "blank", "raw"} => Genuine(r.pair)

\* The audio up to the marker.
Heard(lines) ==
    {i \in DOMAIN lines :
        lines[i] = "audio" /\ \A j \in {k \in DOMAIN lines : lines[k] = "end"} : i < j}

\* A call of text_to_speech while it reads and writes.
Speech(r) ==
    /\ r \in [pc : {r.pc}, tool : {r.tool}, result : {r.result}, lines : {r.lines},
              heard : {r.heard}, file : {r.file}]
    /\ r.tool = "speech" /\ r.lines \in Seq({"audio", "skipped", "end"})
    /\ r.pc \in {"stream", "save", "write", "close", "remove", "returned"}
    /\ r.pc = "returned" => r.result \in {"answer", "error"}
    /\ r.pc = "stream" => \A i \in DOMAIN r.lines : r.lines[i] # "end"
    /\ IsFiniteSet(Heard(r.lines)) /\ r.heard = Cardinality(Heard(r.lines))

\* The goroutines that have not called wg.Done, and the queries that were given
\* an answer of some kind.
Busy(worker, list) == {i \in DOMAIN list : worker[i] \in {"searching", "answered", "recorded"}}
Noted(worker, list, body, bodies) ==
    {list[i] : i \in {j \in DOMAIN list : worker[j] \in {"recorded", "done"} /\ body[j] \in bodies}}

\* Where the goroutines of parallel_web_search are, and what they have come to.
SearchOK(place, list, next, worker, body, wg, found, errors) ==
    /\ list \in QueryLists
    /\ place \in {"spawn", "join", "returned"}
    /\ next \in 1 .. Len(list) + 1 /\ (place # "spawn" => next = Len(list) + 1)
    /\ worker = [i \in DOMAIN list |-> worker[i]] /\ body = [i \in DOMAIN list |-> body[i]]
    /\ \A i \in DOMAIN list :
          /\ worker[i] \in {"none", "searching", "answered", "recorded", "done"}
          /\ worker[i] = "none" <=> list[i] = Blank \/ i >= next
          /\ body[i] \in Bodies \cup {"unasked"}
          /\ body[i] = "unasked" <=> worker[i] \in {"none", "searching"}
    /\ wg = Cardinality(Busy(worker, list))
    /\ found = Noted(worker, list, body, Results)
    /\ errors = Noted(worker, list, body, Bodies \ Results)
    /\ place = "returned" => Busy(worker, list) = {}

ManyFields(r) ==
    r \in [pc : {r.pc}, tool : {r.tool}, result : {r.result}, pair : {r.pair}, list : {r.list},
           next : {r.next}, worker : {r.worker}, body : {r.body}, wg : {r.wg},
           found : {r.found}, errors : {r.errors}]

Many(r) ==
    /\ ManyFields(r) /\ r.tool = "many" /\ (r.pc = "returned" => r.result = "answer")
    /\ SearchOK(r.pc, r.list, r.next, r.worker, r.body, r.wg, r.found, r.errors)

Call(r) == r = NoAsk \/ Simple(r) \/ Speech(r) \/ Many(r)

\* A call that has a file, and one that has it whole.
Writes(r) == r.pc \in {"write", "close", "remove"}
Spoken(r) == r.pc = "returned" /\ r.tool = "speech" /\ r.result = "answer"
Filed(r) ==
    /\ Writes(r) \/ Spoken(r) => r.file \in DOMAIN audio
    /\ r.pc = "close" \/ Spoken(r) => audio[r.file] = r.heard

\* No two calls have one file, be it to write or to return.
AsksInv ==
    /\ IsFiniteSet(DOMAIN audio) /\ audio = [f \in DOMAIN audio |-> audio[f]]
    /\ ask = [a \in Askers |-> ask[a]]
    /\ \A a \in Askers : Call(ask[a]) /\ Filed(ask[a])
    /\ \A a, b \in Askers :
          a # b /\ (Writes(ask[a]) \/ Spoken(ask[a])) /\ Writes(ask[b])
          => ask[a].file # ask[b].file

LEMMA Lists == \A list \in QueryLists : Len(list) \in Nat /\ DOMAIN list = 1 .. Len(list)
<1>1. PICK all : all = UNION {{list[i] : i \in DOMAIN list} : list \in QueryLists}
  OBVIOUS
<1>2. QueryLists \subseteq Seq(all)
  BY <1>1, ServiceToolsAssumption
<1> QED
  BY <1>2

\* When all goroutines are done each query has what its search came to.
LEMMA AllJoined ==
    ASSUME NEW list, NEW next, NEW worker, NEW body, NEW wg, NEW found, NEW errors,
           SearchOK("returned", list, next, worker, body, wg, found, errors)
    PROVE  /\ {list[i] : i \in DOMAIN list} \ {Blank} = found \cup errors
           /\ found = {list[i] : i \in {j \in DOMAIN list : body[j] \in Results}}
           /\ errors = {list[i] : i \in {j \in DOMAIN list : body[j] \in Bodies \ Results}}
<1>1. /\ Busy(worker, list) = {} /\ next = Len(list) + 1
      /\ Len(list) \in Nat /\ DOMAIN list = 1 .. Len(list)
  BY Lists DEF SearchOK
<1>2. ASSUME NEW i \in DOMAIN list
      PROVE  \/ worker[i] = "none" /\ list[i] = Blank /\ body[i] = "unasked"
             \/ worker[i] = "done" /\ list[i] # Blank /\ body[i] \in Bodies
  <2>1. i \in 1 .. Len(list) /\ ~ (i >= next)
    BY <1>1
  <2>2. /\ worker[i] \in {"none", "searching", "answered", "recorded", "done"}
        /\ worker[i] = "none" <=> list[i] = Blank
        /\ body[i] \in Bodies \cup {"unasked"}
        /\ body[i] = "unasked" <=> worker[i] \in {"none", "searching"}
    BY <2>1 DEF SearchOK
  <2>3. worker[i] \notin {"searching", "answered", "recorded"}
    BY <1>1 DEF Busy
  <2> QED
    BY <2>2, <2>3
<1>3. "unasked" \notin Bodies /\ Results \subseteq Bodies
  BY DEF Bodies, Results
<1>4. ASSUME NEW bodies \in SUBSET Bodies
      PROVE  {j \in DOMAIN list : body[j] \in bodies}
                = {j \in DOMAIN list : worker[j] \in {"recorded", "done"} /\ body[j] \in bodies}
  BY <1>2, <1>3
<1>5. \A bodies \in SUBSET Bodies :
         Noted(worker, list, body, bodies)
           = {list[i] : i \in {j \in DOMAIN list : body[j] \in bodies}}
  BY <1>4 DEF Noted
<1>6. Results \in SUBSET Bodies /\ Bodies \ Results \in SUBSET Bodies
  BY <1>3
<1>7. /\ found = {list[i] : i \in {j \in DOMAIN list : body[j] \in Results}}
      /\ errors = {list[i] : i \in {j \in DOMAIN list : body[j] \in Bodies \ Results}}
  BY <1>5, <1>6 DEF SearchOK
<1>8. {list[i] : i \in DOMAIN list} \ {Blank} = found \cup errors
  <2>1. \A i \in DOMAIN list : list[i] # Blank <=> body[i] \in Bodies
    BY <1>2, <1>3
  <2>2. \A q : q \in found <=> \E i \in DOMAIN list : q = list[i] /\ body[i] \in Results
    BY <1>7
  <2>3. \A q : q \in errors <=> \E i \in DOMAIN list : q = list[i] /\ body[i] \in Bodies \ Results
    BY <1>7
  <2>4. \A q : q \in found \cup errors <=> \E i \in DOMAIN list : q = list[i] /\ body[i] \in Bodies
    BY <1>3, <2>2, <2>3
  <2>5. \A q : q \in {list[i] : i \in DOMAIN list} \ {Blank}
                <=> \E i \in DOMAIN list : q = list[i] /\ body[i] \in Bodies
    BY <2>1
  <2> QED
    BY <2>4, <2>5
<1> QED
  BY <1>7, <1>8

LEMMA AsksImplied == AsksInv => ResultsAreTrue
<1> SUFFICES ASSUME AsksInv, NEW a \in Askers, ask[a].pc = "returned"
             PROVE  /\ ask[a].result = "answer" =>
                          CASE ask[a].tool = "speech" -> SpeechWhole(a)
                            [] ask[a].tool = "many" -> QueriesAnswered(a)
                            [] OTHER -> ask[a].body = "good"
                    /\ ask[a].result = "blank" =>
                          ask[a].body = "hollow" \/ (ask[a].tool = "links" /\ ask[a].body = "empty")
                    /\ ask[a].result = "raw" => ask[a].tool = "code" /\ ask[a].body \notin Results
                    /\ ask[a].tool \in Signed /\ ask[a].result \in {"answer", "blank", "raw"}
                       => Genuine(ask[a].pair)
  BY DEF ResultsAreTrue
<1>1. ask[a] # NoAsk /\ Call(ask[a]) /\ Filed(ask[a])
  BY DEF AsksInv, NoAsk
<1>2. CASE Simple(ask[a])
  BY <1>2 DEF Simple
<1>3. CASE Speech(ask[a])
  <2>1. ask[a].tool = "speech" /\ "speech" \notin Signed /\ ask[a].result \notin {"raw", "blank"}
    BY <1>1, <1>3 DEF Speech, Signed
  <2>2. ASSUME ask[a].result = "answer" PROVE SpeechWhole(a)
    <3>1. Spoken(ask[a]) /\ ask[a].file \in DOMAIN audio /\ audio[ask[a].file] = ask[a].heard
      BY <1>1, <2>1, <2>2 DEF Spoken, Filed
    <3>2. ask[a].heard = Cardinality(Heard(ask[a].lines))
      BY <1>3 DEF Speech
    <3>3. \A b \in Askers \ {a} : Writes(ask[b]) => ask[b].file # ask[a].file
      BY <3>1 DEF AsksInv
    <3> QED
      BY <3>1, <3>2, <3>3 DEF SpeechWhole, Heard, Writes
  <2> QED
    BY <2>1, <2>2
<1>4. CASE Many(ask[a])
  <2>1. ask[a].tool = "many" /\ "many" \notin Signed /\ ask[a].result = "answer"
    BY <1>4 DEF Many, Signed
  <2>2. QueriesAnswered(a)
    BY <1>4, AllJoined DEF Many, QueriesAnswered
  <2> QED
    BY <2>1, <2>2
<1> QED
  BY <1>1, <1>2, <1>3, <1>4 DEF Call

\* The call of a goes on as r, and no file is touched.
LEMMA CallOn ==
    ASSUME AsksInv, NEW a \in Askers, NEW r, Be(a, r), audio' = audio, Call(r),
           Writes(r) \/ Spoken(r) =>
              /\ Writes(ask[a]) /\ r.file = ask[a].file
              /\ r.pc = "close" \/ Spoken(r) => audio[r.file] = r.heard
    PROVE  AsksInv'
<1>1. /\ ask' = [b \in Askers |-> ask'[b]] /\ ask'[a] = r
      /\ \A b \in Askers \ {a} : ask'[b] = ask[b]
  BY DEF AsksInv, Be
<1>2. Filed(r)'
  <2>1. Writes(ask[a]) => ask[a].file \in DOMAIN audio
    BY DEF AsksInv, Filed
  <2>2. Writes(r) \/ Spoken(r) => r.file \in DOMAIN audio
    BY <2>1
  <2>3. r.pc = "close" => Writes(r)
    BY DEF Writes
  <2> QED
    BY <2>2, <2>3 DEF Filed, Writes, Spoken
<1>3. \A b \in Askers : Call(ask[b])' /\ Filed(ask[b])'
  <2>1. ASSUME NEW b \in Askers \ {a} PROVE Call(ask[b])' /\ Filed(ask[b])'
    <3>1. PICK q : q = ask[b]
      OBVIOUS
    <3>2. Call(q) /\ Filed(q) /\ Filed(q)'
      BY <3>1 DEF AsksInv, Filed
    <3> QED
      BY <1>1, <3>1, <3>2 DEF Call, Simple, Speech, Many, Filed
  <2>2. Call(ask[a])' /\ Filed(ask[a])'
    BY <1>1, <1>2 DEF Call, Simple, Speech, Many, Filed
  <2> QED
    BY <2>1, <2>2
<1>4. \A b, c \in Askers :
         b # c /\ (Writes(ask'[b]) \/ Spoken(ask'[b])) /\ Writes(ask'[c])
         => ask'[b].file # ask'[c].file
  <2>1. (Writes(r) \/ Spoken(r)) => Writes(ask[a]) /\ r.file = ask[a].file
    OBVIOUS
  <2>2. Writes(r) => ~ Spoken(r)
    BY DEF Writes, Spoken
  <2> QED
    BY <1>1, <2>1 DEF AsksInv
<1>5. IsFiniteSet(DOMAIN audio') /\ audio' = [f \in DOMAIN audio' |-> audio'[f]]
  BY DEF AsksInv
<1>6. \A b, c \in Askers :
         b # c /\ (Writes(ask[b])' \/ Spoken(ask[b])') /\ Writes(ask[c])'
         => ask'[b].file # ask'[c].file
  BY <1>4 DEF Writes, Spoken
<1> QED
  BY <1>1, <1>3, <1>5, <1>6 DEF AsksInv

\* The call of a goes on as r, and of the files only that of a changes.
LEMMA FileOn ==
    ASSUME AsksInv, NEW a \in Askers, NEW r, Be(a, r), Call(r), NEW mine,
           IsFiniteSet(DOMAIN audio'), audio' = [f \in DOMAIN audio' |-> audio'[f]],
           \A f \in DOMAIN audio : f # mine => f \in DOMAIN audio' /\ audio'[f] = audio[f],
           \A b \in Askers \ {a} : Writes(ask[b]) \/ Spoken(ask[b]) => ask[b].file # mine,
           Writes(r) => r.file = mine /\ mine \in DOMAIN audio',
           r.pc = "close" => audio'[mine] = r.heard,
           ~ Spoken(r)
    PROVE  AsksInv'
<1>1. /\ ask' = [b \in Askers |-> ask'[b]] /\ ask'[a] = r
      /\ \A b \in Askers \ {a} : ask'[b] = ask[b]
  BY DEF AsksInv, Be
<1>2. Filed(r)'
  BY DEF Filed, Writes, Spoken
<1>3. \A b \in Askers : Call(ask[b])' /\ Filed(ask[b])'
  <2>1. ASSUME NEW b \in Askers \ {a} PROVE Call(ask[b])' /\ Filed(ask[b])'
    <3>1. PICK q : q = ask[b]
      OBVIOUS
    <3>2. Call(q) /\ Filed(q)
      BY <3>1 DEF AsksInv
    <3>3. Filed(q)'
      BY <3>1, <3>2 DEF Filed, Writes, Spoken
    <3> QED
      BY <1>1, <3>1, <3>2, <3>3 DEF Call, Simple, Speech, Many, Filed
  <2>2. Call(ask[a])' /\ Filed(ask[a])'
    BY <1>1, <1>2 DEF Call, Simple, Speech, Many, Filed
  <2> QED
    BY <2>1, <2>2
<1>4. \A b, c \in Askers :
         b # c /\ (Writes(ask[b])' \/ Spoken(ask[b])') /\ Writes(ask[c])'
         => ask'[b].file # ask'[c].file
  <2>1. \A b \in Askers \ {a} : /\ Writes(ask[b])' = Writes(ask[b])
                                /\ Spoken(ask[b])' = Spoken(ask[b])
    BY <1>1 DEF Writes, Spoken
  <2>2. Writes(ask[a])' = Writes(r) /\ ~ Spoken(ask[a])'
    BY <1>1 DEF Writes, Spoken
  <2> QED
    BY <1>1, <2>1, <2>2 DEF AsksInv
<1> QED
  BY <1>1, <1>3, <1>4 DEF AsksInv

\* What the constructors make.
LEMMA ToolsMade ==
    ASSUME NEW new \in Tools
    PROVE  Simple(new) /\ new.pc \in {"exchange", "called", "returned"} /\ ~ Spoken(new)
<1>1. PICK tool \in {"speech", "vesearch", "scraper", "router", "links", "code", "search", "many"},
           place \in {"exchange", "called", "returned"}, result \in {"none", "error"} :
         /\ new = Made(tool, place, result) /\ (tool = "many" => place = "called")
         /\ place # "returned" => result = "none"
  BY DEF Tools, NewSpeech, NewVeSearch, NewScraper, NewRouter, NewLinkReader, Ready, Unmade, Exchanges
<1>2. /\ new.tool = tool /\ new.pc = place /\ new.result = result
      /\ new \in [pc : {new.pc}, tool : {new.tool}, result : {new.result}, pair : {new.pair},
                  body : {new.body}]
  BY <1>1 DEF Made
<1> QED
  BY <1>1, <1>2 DEF Simple, Spoken, Signed

LEMMA MakeKept == ASSUME AsksInv, NEW a \in Askers, Make(a) PROVE AsksInv'
<1>1. PICK new \in Tools : Be(a, new)
  BY DEF Make
<1>2. audio' = audio /\ Call(new) /\ ~ Writes(new) /\ ~ Spoken(new)
  BY ToolsMade DEF Make, Call, Writes
<1> QED
  BY <1>1, <1>2, CallOn

\* Where a call is says what kind of call it is.
LEMMA Kinds ==
    ASSUME AsksInv, NEW a \in Askers
    PROVE  /\ ask[a].pc \in {"exchange", "called", "sent"} => Simple(ask[a])
           /\ ask[a].pc \in {"stream", "save", "write", "close", "remove"} => Speech(ask[a])
           /\ ask[a].pc \in {"spawn", "join"} => Many(ask[a])
<1>1. Call(ask[a])
  BY DEF AsksInv
<1>2. ask[a] = NoAsk => ask[a].pc = "idle"
  BY DEF NoAsk
<1>3. Simple(ask[a]) => ask[a].pc \in {"exchange", "called", "sent", "returned"}
  BY DEF Simple
<1>4. Speech(ask[a]) => ask[a].pc \in {"stream", "save", "write", "close", "remove", "returned"}
  BY DEF Speech
<1>5. Many(ask[a]) => ask[a].pc \in {"spawn", "join", "returned"}
  BY DEF Many, SearchOK
<1> QED
  BY <1>1, <1>2, <1>3, <1>4, <1>5 DEF Call

LEMMA ExchangeKept == ASSUME AsksInv, NEW a \in Askers, ExchangeKey(a) PROVE AsksInv'
<1>1. PICK q : q = ask[a]
  OBVIOUS
<1>2. Simple(q) /\ q.tool # "many" /\ q.pc = "exchange" /\ audio' = audio
  BY <1>1, Kinds DEF ExchangeKey, Is, Simple
<1>3. PICK result \in {"panic", "error"} :
         \/ Be(a, [q EXCEPT !.pc = "called"])
         \/ Be(a, [q EXCEPT !.pc = "returned", !.result = result])
  BY <1>1 DEF ExchangeKey, Step, End
<1>4. PICK r :
         /\ Be(a, r)
         /\ \/ r = [q EXCEPT !.pc = "called"]
            \/ r = [q EXCEPT !.pc = "returned", !.result = result]
  BY <1>3
<1>5. /\ r.tool = q.tool /\ r.pair = q.pair /\ r.body = q.body
      /\ r \in [pc : {r.pc}, tool : {r.tool}, result : {r.result}, pair : {r.pair}, body : {r.body}]
      /\ \/ r.pc = "called" /\ r.result = q.result
         \/ r.pc = "returned" /\ r.result = result
  BY <1>2, <1>4 DEF Simple
<1>6. Call(r) /\ ~ Writes(r) /\ ~ Spoken(r)
  BY <1>2, <1>5 DEF Call, Simple, Writes, Spoken
<1> QED
  BY <1>2, <1>4, <1>6, CallOn

LEMMA HandleKept == ASSUME AsksInv, NEW a \in Askers, Handle(a) PROVE AsksInv'
<1>1. PICK q : q = ask[a]
  OBVIOUS
<1>2. Simple(q) /\ q.tool # "many" /\ q.pc = "called" /\ audio' = audio
  BY <1>1, Kinds DEF Handle, Is
<1>3. \/ \E result \in {"error", "nothing"} : Be(a, [q EXCEPT !.pc = "returned", !.result = result])
      \/ q.tool \in Signed /\ Be(a, [q EXCEPT !.pc = "sent", !.pair = PairFor(q.tool)])
      \/ q.tool \notin Signed \cup {"speech"} /\ Be(a, [q EXCEPT !.pc = "sent"])
      \/ q.tool = "speech"
           /\ Be(a, [pc |-> "stream", tool |-> q.tool, result |-> "none", lines |-> <<>>,
                     heard |-> 0, file |-> 0])
  BY <1>1 DEF Handle, Step, End
<1>4. ASSUME NEW result \in {"error", "nothing"},
             Be(a, [q EXCEPT !.pc = "returned", !.result = result])
      PROVE  AsksInv'
  <2>1. PICK r : r = [q EXCEPT !.pc = "returned", !.result = result]
    OBVIOUS
  <2>2. /\ r.pc = "returned" /\ r.result = result /\ r.tool = q.tool
        /\ r \in [pc : {r.pc}, tool : {r.tool}, result : {r.result}, pair : {r.pair}, body : {r.body}]
    BY <1>2, <2>1 DEF Simple
  <2>3. Call(r) /\ ~ Writes(r) /\ ~ Spoken(r)
    BY <1>2, <2>2 DEF Call, Simple, Writes, Spoken
  <2> QED
    BY <1>2, <1>4, <2>1, <2>3, CallOn
<1>5. ASSUME NEW pair, q.tool # "speech",
             \/ Be(a, [q EXCEPT !.pc = "sent", !.pair = pair])
             \/ Be(a, [q EXCEPT !.pc = "sent"])
      PROVE  AsksInv'
  <2>1. PICK r : Be(a, r) /\ (r = [q EXCEPT !.pc = "sent", !.pair = pair] \/ r = [q EXCEPT !.pc = "sent"])
    BY <1>5
  <2>2. /\ r.pc = "sent" /\ r.result = q.result /\ r.tool = q.tool
        /\ r \in [pc : {r.pc}, tool : {r.tool}, result : {r.result}, pair : {r.pair}, body : {r.body}]
    BY <1>2, <2>1 DEF Simple
  <2>3. r.tool \in Signed \cup {"vesearch", "scraper", "links"}
    BY <1>2, <1>5, <2>2 DEF Simple
  <2>4. Call(r) /\ ~ Writes(r) /\ ~ Spoken(r)
    BY <1>2, <2>2, <2>3 DEF Call, Simple, Writes, Spoken
  <2> QED
    BY <1>2, <2>1, <2>4, CallOn
<1>6. ASSUME q.tool = "speech",
             Be(a, [pc |-> "stream", tool |-> q.tool, result |-> "none", lines |-> <<>>,
                    heard |-> 0, file |-> 0])
      PROVE  AsksInv'
  <2>1. PICK r : r = [pc |-> "stream", tool |-> q.tool, result |-> "none", lines |-> <<>>,
                      heard |-> 0, file |-> 0]
    OBVIOUS
  <2>2. /\ r.pc = "stream" /\ r.tool = "speech" /\ r.lines = <<>> /\ r.heard = 0
        /\ r \in [pc : {r.pc}, tool : {r.tool}, result : {r.result}, lines : {r.lines},
                  heard : {r.heard}, file : {r.file}]
    BY <1>6, <2>1
  <2>3. r.lines \in Seq({"audio", "skipped", "end"}) /\ Heard(r.lines) = {} /\ DOMAIN r.lines = {}
    BY <2>2 DEF Heard
  <2>4. Speech(r)
    BY <2>2, <2>3, FS_EmptySet DEF Speech
  <2>5. ~ Writes(r) /\ ~ Spoken(r)
    BY <2>2 DEF Writes, Spoken
  <2> QED
    BY <1>2, <1>6, <2>1, <2>4, <2>5, CallOn DEF Call
<1>7. q.tool \in Signed => q.tool # "speech"
  BY DEF Signed
<1> QED
  BY <1>3, <1>4, <1>5, <1>6, <1>7

LEMMA AnswerKept == ASSUME AsksInv, NEW a \in Askers, Answer(a) PROVE AsksInv'
<1>1. PICK q : q = ask[a]
  OBVIOUS
<1>2. Simple(q) /\ q.pc = "sent" /\ audio' = audio
  BY <1>1, Kinds DEF Answer, Is
<1>3. PICK body \in Served(q.tool, q.pair) :
         Be(a, [q EXCEPT !.pc = "returned", !.body = body, !.result = Judged(q.tool, body)])
  BY <1>1 DEF Answer
<1>4. PICK r : r = [q EXCEPT !.pc = "returned", !.body = body, !.result = Judged(q.tool, body)]
  OBVIOUS
<1>5. /\ r.pc = "returned" /\ r.body = body /\ r.tool = q.tool /\ r.pair = q.pair
      /\ r.result = Judged(q.tool, body)
      /\ r \in [pc : {r.pc}, tool : {r.tool}, result : {r.result}, pair : {r.pair}, body : {r.body}]
  BY <1>2, <1>4 DEF Simple
<1>6. body \in Bodies /\ (q.tool \in Signed => body = "none" \/ Genuine(q.pair))
  BY <1>3 DEF Served, Bodies
<1>7. q.tool \in {"search", "code", "router", "vesearch", "scraper", "links"}
  BY <1>2 DEF Simple, Signed
<1>8. /\ Judged(q.tool, body) = "answer" => body = "good"
      /\ Judged(q.tool, body) = "blank" => body = "hollow" \/ (q.tool = "links" /\ body = "empty")
      /\ Judged(q.tool, body) = "raw" => q.tool = "code" /\ body \notin Results
      /\ body = "none" => Judged(q.tool, body) = "error"
  BY <1>7 DEF Judged, VeSearchJudges, ScraperJudges, RouterJudges, LinksJudge, CodeJudges, SearchJudges,
              FirstResult, Results
<1>9. Call(r) /\ ~ Writes(r) /\ ~ Spoken(r)
  BY <1>2, <1>5, <1>6, <1>7, <1>8 DEF Call, Simple, Writes, Spoken
<1> QED
  BY <1>2, <1>3, <1>4, <1>9, CallOn

Lines == {"audio", "skipped", "end"}

\* One more line of a stream that has not ended.
LEMMA HeardMore ==
    ASSUME NEW lines \in Seq(Lines), NEW line \in Lines, IsFiniteSet(Heard(lines)),
           \A i \in DOMAIN lines : lines[i] # "end"
    PROVE  /\ Append(lines, line) \in Seq(Lines) /\ IsFiniteSet(Heard(Append(lines, line)))
           /\ Cardinality(Heard(Append(lines, line))) = IF line = "audio" THEN Cardinality(Heard(lines)) + 1
                                                       ELSE Cardinality(Heard(lines))
           /\ line # "end" => \A i \in DOMAIN Append(lines, line) : Append(lines, line)[i] # "end"
<1>1. PICK longer, n : longer = Append(lines, line) /\ n = Len(lines)
  OBVIOUS
<1>2. /\ n \in Nat /\ DOMAIN lines = 1 .. n /\ DOMAIN longer = 1 .. n + 1 /\ longer \in Seq(Lines)
      /\ longer[n + 1] = line /\ \A i \in 1 .. n : longer[i] = lines[i]
  BY <1>1
<1>3. Heard(lines) = {i \in 1 .. n : lines[i] = "audio"}
  BY <1>2 DEF Heard
<1>4. \A i \in 1 .. n + 1 : i \in Heard(longer) <=> longer[i] = "audio"
  <2>1. \A j \in {k \in DOMAIN longer : longer[k] = "end"} : j = n + 1 /\ line = "end"
    BY <1>2
  <2>2. \A i \in 1 .. n + 1 : longer[i] = "audio" =>
           \A j \in {k \in DOMAIN longer : longer[k] = "end"} : i < j
    BY <1>2, <2>1
  <2> QED
    BY <1>2, <2>2 DEF Heard
<1>5. Heard(longer) \subseteq 1 .. n + 1
  BY <1>2 DEF Heard
<1>6. Heard(longer) = IF line = "audio" THEN Heard(lines) \cup {n + 1} ELSE Heard(lines)
  <2>1. \A i \in 1 .. n : i \in Heard(longer) <=> i \in Heard(lines)
    BY <1>2, <1>3, <1>4
  <2>2. n + 1 \in Heard(longer) <=> line = "audio"
    BY <1>2, <1>4
  <2>3. \A i \in 1 .. n + 1 : i = n + 1 \/ i \in 1 .. n
    BY <1>2
  <2> QED
    BY <1>2, <1>3, <1>5, <2>1, <2>2, <2>3
<1>7. n + 1 \notin Heard(lines)
  BY <1>2, <1>3
<1>8. /\ IsFiniteSet(Heard(longer))
      /\ Cardinality(Heard(longer)) = IF line = "audio" THEN Cardinality(Heard(lines)) + 1
                                      ELSE Cardinality(Heard(lines))
  <2>1. PICK heard, m : heard = Heard(lines) /\ m = n + 1
    OBVIOUS
  <2>2. IsFiniteSet(heard \cup {m}) /\ Cardinality(heard \cup {m}) = Cardinality(heard) + 1
    BY <1>7, <2>1, FS_AddElement
  <2> QED
    BY <1>6, <2>1, <2>2
<1>9. line # "end" => \A i \in DOMAIN longer : longer[i] # "end"
  BY <1>2
<1> QED
  BY <1>1, <1>2, <1>8, <1>9

LEMMA LineKept == ASSUME AsksInv, NEW a \in Askers, Line(a) PROVE AsksInv'
<1>1. PICK q : q = ask[a]
  OBVIOUS
<1>2. Speech(q) /\ q.pc = "stream" /\ audio' = audio
  BY <1>1, Kinds DEF Line, Is
<1>3. /\ q.lines \in Seq(Lines) /\ \A i \in DOMAIN q.lines : q.lines[i] # "end"
      /\ IsFiniteSet(Heard(q.lines)) /\ q.heard = Cardinality(Heard(q.lines))
  BY <1>2 DEF Speech, Lines
<1>4. \/ Be(a, [[q EXCEPT !.lines = Append(@, "audio")] EXCEPT !.heard = @ + 1])
      \/ Be(a, [q EXCEPT !.lines = Append(@, "skipped")])
      \/ Be(a, [[q EXCEPT !.lines = Append(@, "end")] EXCEPT !.pc = "save"])
      \/ Be(a, [q EXCEPT !.pc = "save"])
      \/ Be(a, [q EXCEPT !.pc = "returned", !.result = "error"])
  BY <1>1 DEF Line, Step, End
<1>5. ASSUME NEW line \in Lines, NEW r, Be(a, r),
             /\ r \in [pc : {r.pc}, tool : {r.tool}, result : {r.result}, lines : {r.lines},
                       heard : {r.heard}, file : {r.file}]
             /\ r.tool = q.tool /\ r.lines = Append(q.lines, line)
             /\ r.pc = IF line = "end" THEN "save" ELSE "stream"
             /\ r.heard = IF line = "audio" THEN q.heard + 1 ELSE q.heard
      PROVE  AsksInv'
  <2>1. /\ r.lines \in Seq(Lines) /\ IsFiniteSet(Heard(r.lines)) /\ r.heard = Cardinality(Heard(r.lines))
        /\ r.pc = "stream" => \A i \in DOMAIN r.lines : r.lines[i] # "end"
    BY <1>3, <1>5, HeardMore
  <2>2. Speech(r) /\ ~ Writes(r) /\ ~ Spoken(r)
    BY <1>2, <1>5, <2>1 DEF Speech, Lines, Writes, Spoken
  <2> QED
    BY <1>2, <1>5, <2>2, CallOn DEF Call
<1>6. CASE Be(a, [[q EXCEPT !.lines = Append(@, "audio")] EXCEPT !.heard = @ + 1])
  <2>1. PICK r, line : r = [[q EXCEPT !.lines = Append(@, line)] EXCEPT !.heard = @ + 1] /\ line = "audio"
    OBVIOUS
  <2>2. /\ r \in [pc : {r.pc}, tool : {r.tool}, result : {r.result}, lines : {r.lines},
                  heard : {r.heard}, file : {r.file}]
        /\ r.tool = q.tool /\ r.lines = Append(q.lines, line) /\ r.pc = q.pc /\ r.heard = q.heard + 1
    BY <1>2, <2>1 DEF Speech
  <2> QED
    BY <1>2, <1>5, <1>6, <2>1, <2>2 DEF Lines
<1>7. CASE Be(a, [q EXCEPT !.lines = Append(@, "skipped")])
  <2>1. PICK r, line : r = [q EXCEPT !.lines = Append(@, line)] /\ line = "skipped"
    OBVIOUS
  <2>2. /\ r \in [pc : {r.pc}, tool : {r.tool}, result : {r.result}, lines : {r.lines},
                  heard : {r.heard}, file : {r.file}]
        /\ r.tool = q.tool /\ r.lines = Append(q.lines, line) /\ r.pc = q.pc /\ r.heard = q.heard
    BY <1>2, <2>1 DEF Speech
  <2> QED
    BY <1>2, <1>5, <1>7, <2>1, <2>2 DEF Lines
<1>8. CASE Be(a, [[q EXCEPT !.lines = Append(@, "end")] EXCEPT !.pc = "save"])
  <2>1. PICK r, line : r = [[q EXCEPT !.lines = Append(@, line)] EXCEPT !.pc = "save"] /\ line = "end"
    OBVIOUS
  <2>2. /\ r \in [pc : {r.pc}, tool : {r.tool}, result : {r.result}, lines : {r.lines},
                  heard : {r.heard}, file : {r.file}]
        /\ r.tool = q.tool /\ r.lines = Append(q.lines, line) /\ r.pc = "save" /\ r.heard = q.heard
    BY <1>2, <2>1 DEF Speech
  <2> QED
    BY <1>5, <1>8, <2>1, <2>2 DEF Lines
<1>9. CASE Be(a, [q EXCEPT !.pc = "save"]) \/ Be(a, [q EXCEPT !.pc = "returned", !.result = "error"])
  <2>1. PICK r : /\ Be(a, r)
                 /\ \/ r = [q EXCEPT !.pc = "save"]
                    \/ r = [q EXCEPT !.pc = "returned", !.result = "error"]
    BY <1>9
  <2>2. /\ r \in [pc : {r.pc}, tool : {r.tool}, result : {r.result}, lines : {r.lines},
                  heard : {r.heard}, file : {r.file}]
        /\ r.tool = q.tool /\ r.lines = q.lines /\ r.heard = q.heard
        /\ r.pc = "save" \/ (r.pc = "returned" /\ r.result = "error")
    BY <1>2, <2>1 DEF Speech
  <2>3. Speech(r) /\ ~ Writes(r) /\ ~ Spoken(r)
    BY <1>2, <2>2 DEF Speech, Writes, Spoken
  <2> QED
    BY <1>2, <2>1, <2>3, CallOn DEF Call
<1> QED
  BY <1>4, <1>6, <1>7, <1>8, <1>9

\* A name that no file has.
LEMMA UnusedIsNew == ASSUME IsFiniteSet(DOMAIN audio) PROVE Unused \notin DOMAIN audio
<1>1. PICK n : n = Cardinality(DOMAIN audio)
  OBVIOUS
<1>2. n \in Nat
  BY <1>1, FS_CardinalityType
<1>3. \E f \in 1 .. n + 1 : f \notin DOMAIN audio
  <2>1. IsFiniteSet(1 .. n + 1) /\ Cardinality(1 .. n + 1) = n + 1
    BY <1>2, FS_Interval
  <2>2. ASSUME 1 .. n + 1 \subseteq DOMAIN audio PROVE FALSE
    <3>1. Cardinality(1 .. n + 1) <= n
      BY <1>1, <2>2, FS_Subset
    <3> QED
      BY <1>2, <2>1, <3>1
  <2> QED
    BY <2>2
<1> QED
  BY <1>1, <1>3 DEF Unused

LEMMA CreateKept == ASSUME AsksInv, NEW a \in Askers, Create(a) PROVE AsksInv'
<1>1. PICK q, mine : q = ask[a] /\ mine = Unused
  OBVIOUS
<1>2. Speech(q) /\ q.pc = "save" /\ mine \notin DOMAIN audio
  BY <1>1, Kinds, UnusedIsNew DEF Create, Is, AsksInv
<1>3. CASE /\ Be(a, [q EXCEPT !.pc = "write", !.file = mine])
           /\ audio' = [f \in DOMAIN audio \cup {mine} |-> IF f = mine THEN 0 ELSE audio[f]]
  <2>1. PICK r : r = [q EXCEPT !.pc = "write", !.file = mine]
    OBVIOUS
  <2>2. /\ r \in [pc : {r.pc}, tool : {r.tool}, result : {r.result}, lines : {r.lines},
                  heard : {r.heard}, file : {r.file}]
        /\ r.pc = "write" /\ r.tool = q.tool /\ r.lines = q.lines /\ r.heard = q.heard /\ r.file = mine
    BY <1>2, <2>1 DEF Speech
  <2>3. Speech(r) /\ r.pc # "close" /\ ~ Spoken(r)
    BY <1>2, <2>2 DEF Speech, Spoken
  <2>4. /\ IsFiniteSet(DOMAIN audio') /\ audio' = [f \in DOMAIN audio' |-> audio'[f]]
        /\ mine \in DOMAIN audio'
        /\ \A f \in DOMAIN audio : f # mine => f \in DOMAIN audio' /\ audio'[f] = audio[f]
    <3>1. DOMAIN audio' = DOMAIN audio \cup {mine}
      BY <1>3
    <3>2. IsFiniteSet(DOMAIN audio')
      BY <1>2, <3>1, FS_AddElement DEF AsksInv
    <3> QED
      BY <1>3, <3>1, <3>2
  <2>5. \A b \in Askers \ {a} : Writes(ask[b]) \/ Spoken(ask[b]) => ask[b].file # mine
    BY <1>2 DEF AsksInv, Filed
  <2>6. /\ Be(a, r) /\ Call(r)
        /\ Writes(r) => r.file = mine /\ mine \in DOMAIN audio'
        /\ r.pc = "close" => audio'[mine] = r.heard
    BY <1>3, <2>1, <2>2, <2>3, <2>4 DEF Call
  <2> QED
    BY <2>3, <2>4, <2>5, <2>6, FileOn
<1>4. CASE Be(a, [q EXCEPT !.pc = "returned", !.result = "error"]) /\ audio' = audio
  <2>1. PICK r : r = [q EXCEPT !.pc = "returned", !.result = "error"]
    OBVIOUS
  <2>2. /\ r \in [pc : {r.pc}, tool : {r.tool}, result : {r.result}, lines : {r.lines},
                  heard : {r.heard}, file : {r.file}]
        /\ r.pc = "returned" /\ r.result = "error"
        /\ r.tool = q.tool /\ r.lines = q.lines /\ r.heard = q.heard
    BY <1>2, <2>1 DEF Speech
  <2>3. Speech(r) /\ ~ Writes(r) /\ ~ Spoken(r)
    BY <1>2, <2>2 DEF Speech, Writes, Spoken
  <2> QED
    BY <1>4, <2>1, <2>3, CallOn DEF Call
<1> QED
  BY <1>1, <1>3, <1>4 DEF Create, End

\* A call that writes goes on, with another content of its file or without it.
LEMMA WritingOn ==
    ASSUME AsksInv, NEW a \in Askers, NEW q, q = ask[a], Writes(q), Speech(q),
           NEW place \in {"close", "remove", "returned"}, NEW r,
           \/ place # "returned" /\ r = [q EXCEPT !.pc = place]
           \/ place = "returned" /\ r = [q EXCEPT !.pc = place, !.result = "error"],
           Be(a, r),
           IsFiniteSet(DOMAIN audio'), audio' = [f \in DOMAIN audio' |-> audio'[f]],
           \A f \in DOMAIN audio : f # q.file => f \in DOMAIN audio' /\ audio'[f] = audio[f],
           place # "returned" => q.file \in DOMAIN audio',
           place = "close" => audio'[q.file] = q.heard
    PROVE  AsksInv'
<1>1. /\ r \in [pc : {r.pc}, tool : {r.tool}, result : {r.result}, lines : {r.lines},
                heard : {r.heard}, file : {r.file}]
      /\ r.pc = place /\ r.tool = q.tool /\ r.lines = q.lines /\ r.heard = q.heard /\ r.file = q.file
      /\ place = "returned" => r.result = "error"
  BY DEF Speech
<1>2. Speech(r) /\ ~ Spoken(r) /\ (Writes(r) => place # "returned")
  BY <1>1 DEF Speech, Spoken, Writes
<1>3. \A b \in Askers \ {a} : Writes(ask[b]) \/ Spoken(ask[b]) => ask[b].file # q.file
  BY DEF AsksInv
<1>4. PICK mine : mine = q.file
  OBVIOUS
<1>5. /\ \A f \in DOMAIN audio : f # mine => f \in DOMAIN audio' /\ audio'[f] = audio[f]
      /\ \A b \in Askers \ {a} : Writes(ask[b]) \/ Spoken(ask[b]) => ask[b].file # mine
      /\ Writes(r) => r.file = mine /\ mine \in DOMAIN audio'
      /\ r.pc = "close" => audio'[mine] = r.heard
  BY <1>1, <1>2, <1>3, <1>4
<1> QED
  BY <1>2, <1>5, FileOn DEF Call

LEMMA WriteKept == ASSUME AsksInv, NEW a \in Askers, Write(a) PROVE AsksInv'
<1>1. PICK q : q = ask[a]
  OBVIOUS
<1>2. Speech(q) /\ q.pc = "write" /\ Writes(q) /\ q.file \in DOMAIN audio
  BY <1>1, Kinds DEF Write, Is, Writes, AsksInv, Filed
<1>3. PICK n \in 0 .. q.heard :
         /\ audio' = [audio EXCEPT ![q.file] = n]
         /\ \/ Be(a, [q EXCEPT !.pc = "remove"])
            \/ n = q.heard /\ Be(a, [q EXCEPT !.pc = "close"])
  BY <1>1 DEF Write, Step
<1>4. PICK place \in {"close", "remove"} :
         Be(a, [q EXCEPT !.pc = place]) /\ (place = "close" => n = q.heard)
  BY <1>3
<1>5. /\ DOMAIN audio' = DOMAIN audio /\ audio' = [f \in DOMAIN audio' |-> audio'[f]]
      /\ audio'[q.file] = n /\ \A f \in DOMAIN audio : f # q.file => audio'[f] = audio[f]
  BY <1>2, <1>3 DEF AsksInv
<1>6. IsFiniteSet(DOMAIN audio')
  BY <1>5 DEF AsksInv
<1> QED
  BY <1>1, <1>2, <1>4, <1>5, <1>6, WritingOn

LEMMA CloseKept == ASSUME AsksInv, NEW a \in Askers, CloseFile(a) PROVE AsksInv'
<1>1. PICK q : q = ask[a]
  OBVIOUS
<1>2. Speech(q) /\ q.pc = "close" /\ Writes(q) /\ audio' = audio
  BY <1>1, Kinds DEF CloseFile, Is, Writes
<1>3. PICK r : /\ Be(a, r)
               /\ \/ r = [q EXCEPT !.pc = "remove"]
                  \/ r = [q EXCEPT !.pc = "returned", !.result = "answer"]
  BY <1>1 DEF CloseFile, Step, End
<1>4. /\ r \in [pc : {r.pc}, tool : {r.tool}, result : {r.result}, lines : {r.lines},
                heard : {r.heard}, file : {r.file}]
      /\ r.tool = q.tool /\ r.lines = q.lines /\ r.heard = q.heard /\ r.file = q.file
      /\ r.pc = "remove" \/ (r.pc = "returned" /\ r.result = "answer")
  BY <1>2, <1>3 DEF Speech
<1>5. Speech(r)
  BY <1>2, <1>4 DEF Speech
<1>6. audio[r.file] = r.heard
  BY <1>1, <1>2, <1>4 DEF AsksInv, Filed
<1> QED
  BY <1>1, <1>2, <1>3, <1>4, <1>5, <1>6, CallOn DEF Call

LEMMA RemoveKept == ASSUME AsksInv, NEW a \in Askers, RemoveFile(a) PROVE AsksInv'
<1>1. PICK q, place : q = ask[a] /\ place = "returned"
  OBVIOUS
<1>2. Speech(q) /\ q.pc = "remove" /\ Writes(q)
  BY <1>1, Kinds DEF RemoveFile, Is, Writes
<1>3. Be(a, [q EXCEPT !.pc = place, !.result = "error"])
  BY <1>1 DEF RemoveFile, End
<1>4. /\ IsFiniteSet(DOMAIN audio') /\ audio' = [f \in DOMAIN audio' |-> audio'[f]]
      /\ \A f \in DOMAIN audio : f # q.file => f \in DOMAIN audio' /\ audio'[f] = audio[f]
  <2>1. CASE audio' = [f \in DOMAIN audio \ {q.file} |-> audio[f]]
    <3>1. DOMAIN audio' = DOMAIN audio \ {q.file}
      BY <2>1
    <3>2. IsFiniteSet(DOMAIN audio')
      BY <3>1, FS_Subset DEF AsksInv
    <3> QED
      BY <2>1, <3>1, <3>2
  <2>2. CASE audio' = audio
    BY <2>2 DEF AsksInv
  <2> QED
    BY <1>1, <2>1, <2>2 DEF RemoveFile
<1> QED
  BY <1>1, <1>2, <1>3, <1>4, WritingOn

LEMMA QueriesKept == ASSUME AsksInv, NEW a \in Askers, Queries(a) PROVE AsksInv'
<1>1. audio' = audio
  BY DEF Queries
<1>2. PICK list \in QueryLists : Be(a, ParallelSearch(list))
  BY DEF Queries
<1>3. PICK r : r = ParallelSearch(list)
  OBVIOUS
<1>4. /\ ManyFields(r) /\ r.pc = "spawn" /\ r.tool = "many" /\ r.list = list /\ r.next = 1
      /\ r.worker = [i \in DOMAIN list |-> "none"] /\ r.body = [i \in DOMAIN list |-> "unasked"]
      /\ r.wg = 0 /\ r.found = {} /\ r.errors = {}
  BY <1>3 DEF ParallelSearch, ManyFields
<1>5. ASSUME NEW worker, worker = [i \in DOMAIN list |-> "none"],
             NEW body, body = [i \in DOMAIN list |-> "unasked"]
      PROVE  SearchOK("spawn", list, 1, worker, body, 0, {}, {})
  <2>1. Len(list) \in Nat /\ DOMAIN list = 1 .. Len(list)
    BY Lists
  <2>2. Busy(worker, list) = {} /\ Cardinality(Busy(worker, list)) = 0
    BY <1>5, FS_EmptySet DEF Busy
  <2>3. \A bodies : Noted(worker, list, body, bodies) = {}
    BY <1>5 DEF Noted
  <2>4. 1 \in 1 .. Len(list) + 1
    BY <2>1
  <2>5. \A i \in DOMAIN list : worker[i] = "none" /\ body[i] = "unasked" /\ i >= 1
    BY <1>5, <2>1
  <2> QED
    BY <1>5, <2>2, <2>3, <2>4, <2>5 DEF SearchOK
<1>6. Many(r) /\ ~ Writes(r) /\ ~ Spoken(r)
  <2>1. SearchOK("spawn", list, 1, r.worker, r.body, 0, {}, {})
    BY <1>4, <1>5
  <2> QED
    BY <1>4, <2>1 DEF Many, Writes, Spoken
<1> QED
  BY <1>1, <1>2, <1>3, <1>6, CallOn DEF Call

\* What parallel_web_search does with one more query, answer or record.
LEMMA SearchOn ==
    ASSUME AsksInv, NEW a \in Askers, NEW q, q = ask[a], Many(q), q.pc \in {"spawn", "join"}, audio' = audio,
           NEW r, Be(a, r), ManyFields(r), r.tool = q.tool, r.list = q.list,
           r.pc = "returned" => r.result = "answer",
           SearchOK(r.pc, q.list, r.next, r.worker, r.body, r.wg, r.found, r.errors)
    PROVE  AsksInv'
<1>1. Many(r)
  BY DEF Many
<1>2. ~ Writes(r) /\ ~ Spoken(r)
  BY DEF Writes, Spoken, Many, SearchOK
<1> QED
  BY <1>1, <1>2, CallOn DEF Call

LEMMA BusyFinite ==
    ASSUME NEW list \in QueryLists, NEW worker
    PROVE  IsFiniteSet(Busy(worker, list)) /\ Cardinality(Busy(worker, list)) \in Nat
<1>1. IsFiniteSet(DOMAIN list) /\ Busy(worker, list) \subseteq DOMAIN list
  BY Lists, FS_Interval DEF Busy
<1> QED
  BY <1>1, FS_Subset, FS_CardinalityType

\* The query at which the handler is is passed over, or given a goroutine.
LEMMA SpawnsOK ==
    ASSUME NEW list, NEW next, NEW worker, NEW body, NEW wg, NEW found, NEW errors,
           SearchOK("spawn", list, next, worker, body, wg, found, errors), next <= Len(list)
    PROVE  /\ list[next] = Blank => SearchOK("spawn", list, next + 1, worker, body, wg, found, errors)
           /\ list[next] # Blank =>
                SearchOK("spawn", list, next + 1, [worker EXCEPT ![next] = "searching"], body, wg + 1,
                         found, errors)
<1>1. /\ list \in QueryLists /\ Len(list) \in Nat /\ DOMAIN list = 1 .. Len(list)
      /\ next \in DOMAIN list /\ next + 1 \in 1 .. Len(list) + 1
      /\ \A i \in DOMAIN list : i >= next + 1 <=> i >= next /\ i # next
  BY Lists DEF SearchOK
<1>2. ASSUME list[next] = Blank PROVE SearchOK("spawn", list, next + 1, worker, body, wg, found, errors)
  <2>1. \A i \in DOMAIN list : list[i] = Blank \/ i >= next <=> list[i] = Blank \/ i >= next + 1
    BY <1>1, <1>2
  <2> QED
    BY <1>1, <2>1 DEF SearchOK
<1>3. ASSUME list[next] # Blank
      PROVE  SearchOK("spawn", list, next + 1, [worker EXCEPT ![next] = "searching"], body, wg + 1,
                      found, errors)
  <2>1. PICK now : now = [worker EXCEPT ![next] = "searching"]
    OBVIOUS
  <2>2. /\ worker[next] = "none" /\ now[next] = "searching" /\ body[next] = "unasked"
        /\ \A i \in DOMAIN list : i # next => now[i] = worker[i]
        /\ now = [i \in DOMAIN list |-> now[i]]
    <3>1. next >= next
      BY <1>1
    <3>2. worker[next] = "none" /\ body[next] = "unasked"
      BY <1>1, <3>1 DEF SearchOK
    <3>3. worker = [i \in DOMAIN list |-> worker[i]]
      BY DEF SearchOK
    <3>4. DOMAIN worker = DOMAIN list
      BY <3>3
    <3>5. now[next] = "searching" /\ (\A i \in DOMAIN list : i # next => now[i] = worker[i])
      BY <1>1, <2>1, <3>4
    <3>6. now = [i \in DOMAIN list |-> now[i]]
      BY <2>1, <3>4
    <3> QED
      BY <3>2, <3>5, <3>6
  <2>3. Busy(now, list) = Busy(worker, list) \cup {next} /\ next \notin Busy(worker, list)
    BY <1>1, <2>2 DEF Busy
  <2>4. wg + 1 = Cardinality(Busy(now, list))
    BY <1>1, <2>3, BusyFinite, FS_AddElement DEF SearchOK
  <2>5. \A bodies : Noted(now, list, body, bodies) = Noted(worker, list, body, bodies)
    BY <1>1, <2>2 DEF Noted
  <2>6. ASSUME NEW i \in DOMAIN list
        PROVE  /\ now[i] \in {"none", "searching", "answered", "recorded", "done"}
               /\ now[i] = "none" <=> list[i] = Blank \/ i >= next + 1
               /\ body[i] = "unasked" <=> now[i] \in {"none", "searching"}
    <3>1. /\ worker[i] \in {"none", "searching", "answered", "recorded", "done"}
          /\ worker[i] = "none" <=> list[i] = Blank \/ i >= next
          /\ body[i] = "unasked" <=> worker[i] \in {"none", "searching"}
      BY DEF SearchOK
    <3> QED
      BY <1>1, <1>3, <2>2, <3>1
  <2>7. SearchOK("spawn", list, next + 1, now, body, wg + 1, found, errors)
    BY <1>1, <2>2, <2>4, <2>5, <2>6 DEF SearchOK
  <2> QED
    BY <2>1, <2>7
<1> QED
  BY <1>2, <1>3

Moved(worker, i, moved) == [worker EXCEPT ![i] = moved]

\* A goroutine that is at work goes on; moved says where it goes.
LEMMA WorkerMoves ==
    ASSUME NEW place \in {"spawn", "join"},
           NEW list, NEW next, NEW worker, NEW body, NEW wg, NEW found, NEW errors,
           SearchOK(place, list, next, worker, body, wg, found, errors),
           NEW i \in DOMAIN list, worker[i] \in {"searching", "answered", "recorded"},
           NEW moved \in {"answered", "recorded", "done"}, NEW now, now = Moved(worker, i, moved)
    PROVE  /\ now = [k \in DOMAIN list |-> now[k]] /\ now[i] = moved
           /\ \A k \in DOMAIN list : k # i => now[k] = worker[k]
           /\ \A k \in DOMAIN list :
                 /\ now[k] \in {"none", "searching", "answered", "recorded", "done"}
                 /\ now[k] = "none" <=> list[k] = Blank \/ k >= next
           /\ Cardinality(Busy(now, list)) = IF moved = "done" THEN wg - 1 ELSE wg
<1>1. worker = [k \in DOMAIN list |-> worker[k]] /\ list \in QueryLists
  BY DEF SearchOK
<1>2. /\ now = [k \in DOMAIN list |-> now[k]] /\ now[i] = moved
      /\ \A k \in DOMAIN list : k # i => now[k] = worker[k]
  BY <1>1 DEF Moved
<1>3. ASSUME NEW k \in DOMAIN list
      PROVE  /\ now[k] \in {"none", "searching", "answered", "recorded", "done"}
             /\ now[k] = "none" <=> list[k] = Blank \/ k >= next
  <2>1. /\ worker[k] \in {"none", "searching", "answered", "recorded", "done"}
        /\ worker[k] = "none" <=> list[k] = Blank \/ k >= next
    BY DEF SearchOK
  <2> QED
    BY <1>2, <2>1
<1>4. wg = Cardinality(Busy(worker, list)) /\ i \in Busy(worker, list) /\ IsFiniteSet(Busy(worker, list))
  BY <1>1, BusyFinite DEF SearchOK, Busy
<1>5. CASE moved = "done"
  <2>1. Busy(now, list) = Busy(worker, list) \ {i}
    BY <1>2, <1>5 DEF Busy
  <2> QED
    BY <1>2, <1>3, <1>4, <1>5, <2>1, FS_RemoveElement
<1>6. CASE moved # "done"
  <2>1. Busy(now, list) = Busy(worker, list)
    BY <1>2, <1>6 DEF Busy
  <2> QED
    BY <1>2, <1>3, <1>4, <1>6, <2>1
<1> QED
  BY <1>5, <1>6

LEMMA SearchesOK ==
    ASSUME NEW place \in {"spawn", "join"},
           NEW list, NEW next, NEW worker, NEW body, NEW wg, NEW found, NEW errors,
           SearchOK(place, list, next, worker, body, wg, found, errors),
           NEW i \in DOMAIN list, worker[i] = "searching", NEW came \in Bodies
    PROVE  SearchOK(place, list, next, [worker EXCEPT ![i] = "answered"], [body EXCEPT ![i] = came],
                    wg, found, errors)
<1>1. PICK moved, now, bodies : /\ moved = "answered" /\ now = [worker EXCEPT ![i] = moved]
                                /\ bodies = [body EXCEPT ![i] = came]
  OBVIOUS
<1>2. /\ now = [k \in DOMAIN list |-> now[k]] /\ now[i] = moved
      /\ \A k \in DOMAIN list : k # i => now[k] = worker[k]
      /\ \A k \in DOMAIN list :
            /\ now[k] \in {"none", "searching", "answered", "recorded", "done"}
            /\ now[k] = "none" <=> list[k] = Blank \/ k >= next
      /\ Cardinality(Busy(now, list)) = wg
  <2>1. /\ worker[i] \in {"searching", "answered", "recorded"} /\ moved # "done"
        /\ moved \in {"answered", "recorded", "done"} /\ now = Moved(worker, i, moved)
    BY <1>1 DEF Moved
  <2> QED
    BY <2>1, WorkerMoves
<1>3. /\ bodies = [k \in DOMAIN list |-> bodies[k]] /\ bodies[i] = came
      /\ \A k \in DOMAIN list : k # i => bodies[k] = body[k]
  <2>1. body = [k \in DOMAIN list |-> body[k]]
    BY DEF SearchOK
  <2> QED
    BY <1>1, <2>1
<1>4. ASSUME NEW k \in DOMAIN list
      PROVE  /\ bodies[k] \in Bodies \cup {"unasked"}
             /\ bodies[k] = "unasked" <=> now[k] \in {"none", "searching"}
  <2>1. /\ body[k] \in Bodies \cup {"unasked"}
        /\ body[k] = "unasked" <=> worker[k] \in {"none", "searching"}
    BY DEF SearchOK
  <2>2. came # "unasked"
    BY DEF Bodies
  <2> QED
    BY <1>1, <1>2, <1>3, <2>1, <2>2
<1>5. \A some : Noted(now, list, bodies, some) = Noted(worker, list, body, some)
  BY <1>1, <1>2, <1>3 DEF Noted
<1>6. SearchOK(place, list, next, now, bodies, wg, found, errors)
  BY <1>2, <1>3, <1>4, <1>5 DEF SearchOK
<1> QED
  BY <1>1, <1>6

LEMMA RecordsOK ==
    ASSUME NEW place \in {"spawn", "join"},
           NEW list, NEW next, NEW worker, NEW body, NEW wg, NEW found, NEW errors,
           SearchOK(place, list, next, worker, body, wg, found, errors),
           NEW i \in DOMAIN list, worker[i] = "answered"
    PROVE  /\ body[i] \in Results =>
                SearchOK(place, list, next, [worker EXCEPT ![i] = "recorded"], body, wg,
                         found \cup {list[i]}, errors)
           /\ body[i] \notin Results =>
                SearchOK(place, list, next, [worker EXCEPT ![i] = "recorded"], body, wg,
                         found, errors \cup {list[i]})
<1>1. PICK moved, now : moved = "recorded" /\ now = [worker EXCEPT ![i] = moved]
  OBVIOUS
<1>2. /\ now = [k \in DOMAIN list |-> now[k]] /\ now[i] = moved
      /\ \A k \in DOMAIN list : k # i => now[k] = worker[k]
      /\ \A k \in DOMAIN list :
            /\ now[k] \in {"none", "searching", "answered", "recorded", "done"}
            /\ now[k] = "none" <=> list[k] = Blank \/ k >= next
      /\ Cardinality(Busy(now, list)) = wg
  <2>1. /\ worker[i] \in {"searching", "answered", "recorded"} /\ moved # "done"
        /\ moved \in {"answered", "recorded", "done"} /\ now = Moved(worker, i, moved)
    BY <1>1 DEF Moved
  <2> QED
    BY <2>1, WorkerMoves
<1>3. ASSUME NEW k \in DOMAIN list
      PROVE  /\ body[k] \in Bodies \cup {"unasked"}
             /\ body[k] = "unasked" <=> now[k] \in {"none", "searching"}
  <2>1. /\ body[k] \in Bodies \cup {"unasked"}
        /\ body[k] = "unasked" <=> worker[k] \in {"none", "searching"}
    BY DEF SearchOK
  <2> QED
    BY <1>1, <1>2, <2>1
<1>4. body[i] \in Bodies
  BY DEF SearchOK
<1>5. ASSUME NEW some
      PROVE  Noted(now, list, body, some)
                = IF body[i] \in some THEN Noted(worker, list, body, some) \cup {list[i]}
                  ELSE Noted(worker, list, body, some)
  <2>1. \A q : q \in Noted(worker, list, body, some) <=>
           \E k \in DOMAIN list : q = list[k] /\ worker[k] \in {"recorded", "done"} /\ body[k] \in some
    BY DEF Noted
  <2>2. \A q : q \in Noted(now, list, body, some) <=>
           \E k \in DOMAIN list : q = list[k] /\ now[k] \in {"recorded", "done"} /\ body[k] \in some
    BY DEF Noted
  <2>3. \A k \in DOMAIN list : now[k] \in {"recorded", "done"} <=> k = i \/ worker[k] \in {"recorded", "done"}
    BY <1>1, <1>2
  <2>4. \A q : q \in Noted(now, list, body, some) <=>
                  (q = list[i] /\ body[i] \in some) \/ q \in Noted(worker, list, body, some)
    BY <2>1, <2>2, <2>3
  <2> QED
    BY <2>4
<1>6. body[i] \in Results =>
        SearchOK(place, list, next, now, body, wg, found \cup {list[i]}, errors)
  <2> SUFFICES ASSUME body[i] \in Results
               PROVE  SearchOK(place, list, next, now, body, wg, found \cup {list[i]}, errors)
    OBVIOUS
  <2>1. /\ found \cup {list[i]} = Noted(now, list, body, Results)
        /\ errors = Noted(now, list, body, Bodies \ Results)
    BY <1>5 DEF SearchOK
  <2> QED
    BY <1>2, <1>3, <2>1 DEF SearchOK
<1>7. body[i] \notin Results =>
        SearchOK(place, list, next, now, body, wg, found, errors \cup {list[i]})
  <2> SUFFICES ASSUME body[i] \notin Results
               PROVE  SearchOK(place, list, next, now, body, wg, found, errors \cup {list[i]})
    OBVIOUS
  <2>1. /\ found = Noted(now, list, body, Results)
        /\ errors \cup {list[i]} = Noted(now, list, body, Bodies \ Results)
    BY <1>4, <1>5 DEF SearchOK
  <2> QED
    BY <1>2, <1>3, <2>1 DEF SearchOK
<1> QED
  BY <1>1, <1>6, <1>7

LEMMA DoneOK ==
    ASSUME NEW place \in {"spawn", "join"},
           NEW list, NEW next, NEW worker, NEW body, NEW wg, NEW found, NEW errors,
           SearchOK(place, list, next, worker, body, wg, found, errors),
           NEW i \in DOMAIN list, worker[i] = "recorded"
    PROVE  SearchOK(place, list, next, [worker EXCEPT ![i] = "done"], body, wg - 1, found, errors)
<1>1. PICK moved, now : moved = "done" /\ now = [worker EXCEPT ![i] = moved]
  OBVIOUS
<1>2. /\ now = [k \in DOMAIN list |-> now[k]] /\ now[i] = moved
      /\ \A k \in DOMAIN list : k # i => now[k] = worker[k]
      /\ \A k \in DOMAIN list :
            /\ now[k] \in {"none", "searching", "answered", "recorded", "done"}
            /\ now[k] = "none" <=> list[k] = Blank \/ k >= next
      /\ Cardinality(Busy(now, list)) = wg - 1
  <2>1. /\ worker[i] \in {"searching", "answered", "recorded"} /\ moved = "done"
        /\ moved \in {"answered", "recorded", "done"} /\ now = Moved(worker, i, moved)
    BY <1>1 DEF Moved
  <2> QED
    BY <2>1, WorkerMoves
<1>3. ASSUME NEW k \in DOMAIN list
      PROVE  /\ body[k] \in Bodies \cup {"unasked"}
             /\ body[k] = "unasked" <=> now[k] \in {"none", "searching"}
  <2>1. /\ body[k] \in Bodies \cup {"unasked"}
        /\ body[k] = "unasked" <=> worker[k] \in {"none", "searching"}
    BY DEF SearchOK
  <2> QED
    BY <1>1, <1>2, <2>1
<1>4. \A some : Noted(now, list, body, some) = Noted(worker, list, body, some)
  BY <1>1, <1>2 DEF Noted
<1>5. SearchOK(place, list, next, now, body, wg - 1, found, errors)
  BY <1>2, <1>3, <1>4 DEF SearchOK
<1> QED
  BY <1>1, <1>5

LEMMA SpawnKept == ASSUME AsksInv, NEW a \in Askers, Spawn(a) PROVE AsksInv'
<1>1. PICK q : q = ask[a]
  OBVIOUS
<1>2. /\ Many(q) /\ ManyFields(q) /\ q.pc = "spawn" /\ audio' = audio
      /\ SearchOK("spawn", q.list, q.next, q.worker, q.body, q.wg, q.found, q.errors)
  BY <1>1, Kinds DEF Spawn, Is, Many
<1>3. Len(q.list) \in Nat /\ q.next \in 1 .. Len(q.list) + 1
  BY <1>2, Lists DEF SearchOK
<1>4. CASE q.next > Len(q.list) /\ Be(a, [q EXCEPT !.pc = "join"])
  <2>1. PICK r : r = [q EXCEPT !.pc = "join"]
    OBVIOUS
  <2>2. /\ ManyFields(r) /\ r.pc = "join" /\ r.tool = q.tool /\ r.list = q.list /\ r.next = q.next
        /\ r.worker = q.worker /\ r.body = q.body /\ r.wg = q.wg /\ r.found = q.found /\ r.errors = q.errors
    BY <1>2, <2>1 DEF ManyFields
  <2>3. q.next = Len(q.list) + 1
    BY <1>3, <1>4
  <2>4. SearchOK("join", q.list, q.next, q.worker, q.body, q.wg, q.found, q.errors)
    BY <1>2, <2>3 DEF SearchOK
  <2>5. SearchOK(r.pc, q.list, r.next, r.worker, r.body, r.wg, r.found, r.errors)
    BY <2>2, <2>4
  <2> QED
    BY <1>1, <1>2, <1>4, <2>1, <2>2, <2>5, SearchOn
<1>5. CASE /\ q.next <= Len(q.list) /\ q.list[q.next] = Blank
           /\ Be(a, [q EXCEPT !.next = q.next + 1])
  <2>1. PICK r : r = [q EXCEPT !.next = q.next + 1]
    OBVIOUS
  <2>2. /\ ManyFields(r) /\ r.pc = q.pc /\ r.tool = q.tool /\ r.list = q.list /\ r.next = q.next + 1
        /\ r.worker = q.worker /\ r.body = q.body /\ r.wg = q.wg /\ r.found = q.found /\ r.errors = q.errors
    BY <1>2, <2>1 DEF ManyFields
  <2>3. SearchOK("spawn", q.list, q.next + 1, q.worker, q.body, q.wg, q.found, q.errors)
    BY <1>2, <1>5, SpawnsOK
  <2>4. SearchOK(r.pc, q.list, r.next, r.worker, r.body, r.wg, r.found, r.errors)
    BY <1>2, <2>2, <2>3
  <2> QED
    BY <1>1, <1>2, <1>5, <2>1, <2>2, <2>4, SearchOn
<1>6. CASE /\ q.next <= Len(q.list) /\ q.list[q.next] # Blank
           /\ Be(a, [q EXCEPT !.next = q.next + 1, !.wg = @ + 1, !.worker[q.next] = "searching"])
  <2>1. PICK r : r = [q EXCEPT !.next = q.next + 1, !.wg = @ + 1, !.worker[q.next] = "searching"]
    OBVIOUS
  <2>2. /\ ManyFields(r) /\ r.pc = q.pc /\ r.tool = q.tool /\ r.list = q.list /\ r.next = q.next + 1
        /\ r.worker = [q.worker EXCEPT ![q.next] = "searching"] /\ r.body = q.body
        /\ r.wg = q.wg + 1 /\ r.found = q.found /\ r.errors = q.errors
    BY <1>2, <2>1 DEF ManyFields
  <2>3. SearchOK("spawn", q.list, q.next + 1, [q.worker EXCEPT ![q.next] = "searching"], q.body,
                 q.wg + 1, q.found, q.errors)
    BY <1>2, <1>6, SpawnsOK
  <2>4. SearchOK(r.pc, q.list, r.next, r.worker, r.body, r.wg, r.found, r.errors)
    BY <1>2, <2>2, <2>3
  <2> QED
    BY <1>1, <1>2, <1>6, <2>1, <2>2, <2>4, SearchOn
<1>7. \/ q.next > Len(q.list) /\ Be(a, [q EXCEPT !.pc = "join"])
      \/ ~ (q.next > Len(q.list)) /\ q.list[q.next] = Blank /\ Be(a, [q EXCEPT !.next = q.next + 1])
      \/ /\ ~ (q.next > Len(q.list)) /\ q.list[q.next] # Blank
         /\ Be(a, [q EXCEPT !.next = q.next + 1, !.wg = @ + 1, !.worker[q.next] = "searching"])
  BY <1>1 DEF Spawn
<1>8. ~ (q.next > Len(q.list)) => q.next <= Len(q.list)
  BY <1>3
<1> QED
  BY <1>4, <1>5, <1>6, <1>7, <1>8

LEMMA WorkKept == ASSUME AsksInv, NEW a \in Askers, Work(a) PROVE AsksInv'
<1>1. PICK q : q = ask[a]
  OBVIOUS
<1>2. PICK i \in DOMAIN q.list : Searched(a, i) \/ Record(a, i) \/ Done(a, i)
  BY <1>1 DEF Work
<1>3. /\ Many(q) /\ ManyFields(q) /\ q.pc \in {"spawn", "join"} /\ audio' = audio
      /\ SearchOK(q.pc, q.list, q.next, q.worker, q.body, q.wg, q.found, q.errors)
  BY <1>1, <1>2, Kinds DEF Work, Many, Searched, Record, Done
<1>4. CASE Searched(a, i)
  <2>1. q.worker[i] = "searching"
    BY <1>1, <1>4 DEF Searched, Has
  <2>2. PICK came \in IF Complete(q.pair) THEN Served("search", q.pair) ELSE {"none"} :
           Be(a, [q EXCEPT !.worker[i] = "answered", !.body[i] = came])
    BY <1>1, <1>4 DEF Searched
  <2>3. came \in Bodies
    BY <2>2 DEF Served, Bodies
  <2>4. PICK r : r = [q EXCEPT !.worker[i] = "answered", !.body[i] = came]
    OBVIOUS
  <2>5. /\ ManyFields(r) /\ r.pc = q.pc /\ r.tool = q.tool /\ r.list = q.list /\ r.next = q.next
        /\ r.worker = [q.worker EXCEPT ![i] = "answered"] /\ r.body = [q.body EXCEPT ![i] = came]
        /\ r.wg = q.wg /\ r.found = q.found /\ r.errors = q.errors
    BY <1>3, <2>4 DEF ManyFields
  <2>6. SearchOK(q.pc, q.list, q.next, [q.worker EXCEPT ![i] = "answered"],
                 [q.body EXCEPT ![i] = came], q.wg, q.found, q.errors)
    BY <1>3, <2>1, <2>3, SearchesOK
  <2>7. SearchOK(r.pc, q.list, r.next, r.worker, r.body, r.wg, r.found, r.errors)
    BY <2>5, <2>6
  <2> QED
    BY <1>1, <1>3, <2>2, <2>4, <2>5, <2>7, SearchOn
<1>5. CASE Record(a, i)
  <2>1. q.worker[i] = "answered"
    BY <1>1, <1>5 DEF Record, Has
  <2>2. \/ /\ q.body[i] \in Results
           /\ Be(a, [q EXCEPT !.worker[i] = "recorded", !.found = @ \cup {q.list[i]}])
        \/ /\ q.body[i] \notin Results
           /\ Be(a, [q EXCEPT !.worker[i] = "recorded", !.errors = @ \cup {q.list[i]}])
    <3>1. Judged("search", q.body[i]) \in {"answer", "blank"} <=> q.body[i] \in Results
      BY DEF Judged, SearchJudges, FirstResult, Results
    <3> QED
      BY <1>1, <1>5, <3>1 DEF Record
  <2>3. PICK found, errors, r :
           /\ Be(a, r)
           /\ \/ /\ q.body[i] \in Results /\ found = q.found \cup {q.list[i]} /\ errors = q.errors
                 /\ r = [q EXCEPT !.worker[i] = "recorded", !.found = @ \cup {q.list[i]}]
              \/ /\ q.body[i] \notin Results /\ found = q.found /\ errors = q.errors \cup {q.list[i]}
                 /\ r = [q EXCEPT !.worker[i] = "recorded", !.errors = @ \cup {q.list[i]}]
    BY <2>2
  <2>4. /\ ManyFields(r) /\ r.pc = q.pc /\ r.tool = q.tool /\ r.list = q.list /\ r.next = q.next
        /\ r.worker = [q.worker EXCEPT ![i] = "recorded"] /\ r.body = q.body
        /\ r.wg = q.wg /\ r.found = found /\ r.errors = errors
    BY <1>3, <2>3 DEF ManyFields
  <2>5. SearchOK(q.pc, q.list, q.next, [q.worker EXCEPT ![i] = "recorded"], q.body, q.wg, found, errors)
    <3>1. /\ q.body[i] \in Results =>
                SearchOK(q.pc, q.list, q.next, [q.worker EXCEPT ![i] = "recorded"], q.body, q.wg,
                         q.found \cup {q.list[i]}, q.errors)
          /\ q.body[i] \notin Results =>
                SearchOK(q.pc, q.list, q.next, [q.worker EXCEPT ![i] = "recorded"], q.body, q.wg,
                         q.found, q.errors \cup {q.list[i]})
      BY <1>3, <2>1, RecordsOK
    <3> QED
      BY <2>3, <3>1
  <2>6. SearchOK(r.pc, q.list, r.next, r.worker, r.body, r.wg, r.found, r.errors)
    BY <2>4, <2>5
  <2> QED
    BY <1>1, <1>3, <2>3, <2>4, <2>6, SearchOn
<1>6. CASE Done(a, i)
  <2>1. q.worker[i] = "recorded" /\ Be(a, [q EXCEPT !.worker[i] = "done", !.wg = @ - 1])
    BY <1>1, <1>6 DEF Done, Has
  <2>2. PICK r : r = [q EXCEPT !.worker[i] = "done", !.wg = @ - 1]
    OBVIOUS
  <2>3. /\ ManyFields(r) /\ r.pc = q.pc /\ r.tool = q.tool /\ r.list = q.list /\ r.next = q.next
        /\ r.worker = [q.worker EXCEPT ![i] = "done"] /\ r.body = q.body
        /\ r.wg = q.wg - 1 /\ r.found = q.found /\ r.errors = q.errors
    BY <1>3, <2>2 DEF ManyFields
  <2>4. SearchOK(q.pc, q.list, q.next, [q.worker EXCEPT ![i] = "done"], q.body, q.wg - 1, q.found, q.errors)
    BY <1>3, <2>1, DoneOK
  <2>5. SearchOK(r.pc, q.list, r.next, r.worker, r.body, r.wg, r.found, r.errors)
    BY <2>3, <2>4
  <2> QED
    BY <1>1, <1>3, <2>1, <2>2, <2>3, <2>5, SearchOn
<1> QED
  BY <1>2, <1>4, <1>5, <1>6

LEMMA JoinKept == ASSUME AsksInv, NEW a \in Askers, JoinSearches(a) PROVE AsksInv'
<1>1. PICK q : q = ask[a]
  OBVIOUS
<1>2. /\ Many(q) /\ ManyFields(q) /\ q.pc = "join" /\ q.wg = 0 /\ audio' = audio
      /\ SearchOK("join", q.list, q.next, q.worker, q.body, q.wg, q.found, q.errors)
      /\ Be(a, [q EXCEPT !.pc = "returned", !.result = "answer"])
  BY <1>1, Kinds DEF JoinSearches, Is, Many, End
<1>3. PICK r : r = [q EXCEPT !.pc = "returned", !.result = "answer"]
  OBVIOUS
<1>4. /\ ManyFields(r) /\ r.pc = "returned" /\ r.result = "answer" /\ r.tool = q.tool /\ r.list = q.list
      /\ r.next = q.next /\ r.worker = q.worker /\ r.body = q.body /\ r.wg = q.wg
      /\ r.found = q.found /\ r.errors = q.errors
  BY <1>2, <1>3 DEF ManyFields
<1>5. Busy(q.worker, q.list) = {}
  <2>1. q.list \in QueryLists /\ Cardinality(Busy(q.worker, q.list)) = 0
    BY <1>2 DEF SearchOK
  <2> QED
    BY <2>1, BusyFinite, FS_EmptySet
<1>6. SearchOK("returned", q.list, q.next, q.worker, q.body, q.wg, q.found, q.errors)
  BY <1>2, <1>5 DEF SearchOK
<1>7. SearchOK(r.pc, q.list, r.next, r.worker, r.body, r.wg, r.found, r.errors)
  BY <1>4, <1>6
<1> QED
  BY <1>1, <1>2, <1>3, <1>4, <1>7, SearchOn

LEMMA AsksInvInit == AskInit => AsksInv
<1> SUFFICES ASSUME AskInit PROVE AsksInv
  OBVIOUS
<1>1. audio = <<>> /\ DOMAIN audio = {} /\ ask = [a \in Askers |-> NoAsk] /\ NoAsk.pc = "idle"
  BY DEF AskInit, NoAsk
<1>2. \A a \in Askers : ask[a] = NoAsk /\ ~ Writes(ask[a]) /\ ~ Spoken(ask[a]) /\ Filed(ask[a])
  BY <1>1 DEF Writes, Spoken, Filed
<1> QED
  BY <1>1, <1>2, FS_EmptySet DEF AsksInv, Call

LEMMA AsksInvStep == AsksInv /\ [AskNext]_askVars => AsksInv'
<1> SUFFICES ASSUME AsksInv, [AskNext]_askVars PROVE AsksInv'
  OBVIOUS
<1>1. ASSUME NEW a \in Askers,
             \/ Make(a) \/ ExchangeKey(a) \/ Handle(a) \/ Answer(a)
             \/ Line(a) \/ Create(a) \/ Write(a) \/ CloseFile(a) \/ RemoveFile(a)
             \/ Queries(a) \/ Spawn(a) \/ Work(a) \/ JoinSearches(a)
      PROVE  AsksInv'
  BY <1>1, MakeKept, ExchangeKept, HandleKept, AnswerKept, LineKept, CreateKept, WriteKept, CloseKept,
     RemoveKept, QueriesKept, SpawnKept, WorkKept, JoinKept
<1>2. CASE UNCHANGED askVars
  <2>1. UNCHANGED <<audio, ask>>
    BY <1>2 DEF askVars
  <2>2. \A a \in Askers : Call(ask[a])' /\ Filed(ask[a])'
    BY <2>1 DEF AsksInv, Filed, Call, Simple, Speech, Many, Writes, Spoken
  <2>3. \A a, b \in Askers :
           a # b /\ (Writes(ask[a])' \/ Spoken(ask[a])') /\ Writes(ask[b])'
           => ask'[a].file # ask'[b].file
    BY <2>1 DEF AsksInv, Writes, Spoken
  <2> QED
    BY <2>1, <2>2, <2>3 DEF AsksInv
<1> QED
  BY <1>1, <1>2 DEF AskNext

\* A call of the one-question tools that returns without an error returns what the
\* service did for it, signed genuinely: an answer and not a failure, all the audio of
\* the stream in a file of its own, for each query what a search of it came to; a blank
\* result only for a first result that holds nothing, or an empty list of links.
THEOREM ResultsTold == AskSpec => []ResultsAreTrue
BY AsksInvInit, AsksInvStep, AsksImplied, PTL DEF AskSpec
=============================================================================
