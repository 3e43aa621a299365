--------------------------- MODULE ToolCallsProofs --------------------------
(***************************************************************************)
(* Theorems about the tools that work through remote services: FanOut, for *)
(* any items and images, AgentkitSkills, for any callers, calls and        *)
(* sandboxes, SkillFiles, for any edits of the file that a call reads, and *)
(* Knowledge, for any goroutines, documents, lists and queries.            *)
(***************************************************************************)
EXTENDS FanOut, AgentkitSkills, SkillFiles, Knowledge, FiniteSetTheorems, SequenceTheorems,
        WellFoundedInduction, TLAPS

(***************************************************************************)
(* FanOut: the channel is closed last, and every image is accounted for    *)
(***************************************************************************)

\* The workers that have not called wg.Done.
Live == {i \in Items : phase[i] \in Started}

\* The counter of the WaitGroup is the number of those workers.  That alone is
\* not inductive: the items the video tool has not come to must be idle, and
\* once the channel is closed it must come to no further item.
ClosingInv ==
    /\ next \in Nat \ {0}
    /\ phase \in [Items -> {"idle"} \cup Started \cup Ended]
    /\ main = "creating" => \A i \in Items : i >= next => phase[i] = "idle"
    /\ wg = Cardinality(Live)
    /\ chan = "closed" => main # "creating" /\ Live = {}

LEMMA ItemsFinite == IsFiniteSet(Items) /\ Cardinality(Items) = NItems /\ IsFiniteSet(Live)
<1>1. IsFiniteSet(Items) /\ Cardinality(Items) = NItems
  BY FanOutAssumption, FS_Interval DEF Items
<1>2. Live \subseteq Items
  BY DEF Live
<1> QED BY <1>1, <1>2, FS_Subset

LEMMA ClosingImplied == ClosingInv => ClosedAfterSends
BY DEF ClosingInv, ClosedAfterSends, Live

LEMMA ClosingInvInit == ToolInit => ClosingInv
<1> SUFFICES ASSUME ToolInit PROVE ClosingInv
  OBVIOUS
<1>1. next = 1 /\ chan = "open"
  BY DEF ToolInit
<1>2. CASE ImageToolInit
  <2>1. Live = Items /\ main = "collecting" /\ wg = NItems
        /\ phase \in [Items -> {"idle"} \cup Started \cup Ended]
    BY <1>2 DEF ImageToolInit, Live, Started
  <2> QED BY <1>1, <2>1, ItemsFinite DEF ClosingInv
<1>3. CASE VideoToolInit
  <2>1. Live = {} /\ wg = 0 /\ phase = [i \in Items |-> "idle"]
    BY <1>3 DEF VideoToolInit, Live, Started
  <2> QED BY <1>1, <2>1, FS_EmptySet DEF ClosingInv
<1> QED BY <1>2, <1>3 DEF ToolInit

\* A worker goes on.
LEMMA WorkStep ==
    ASSUME ClosingInv, NEW i \in Items, phase[i] \in Started, NEW p \in Started,
           phase' = [phase EXCEPT ![i] = p], UNCHANGED <<main, next, wg, chan>>
    PROVE  ClosingInv'
<1>1. Live' = Live
  BY DEF Live, ClosingInv
<1>2. phase' \in [Items -> {"idle"} \cup Started \cup Ended]
  BY DEF ClosingInv
<1>3. main = "creating" => i < next
  BY DEF ClosingInv, Items, Started
<1>4. main = "creating" => \A k \in Items : k >= next => phase'[k] = "idle"
  BY <1>3 DEF ClosingInv, Items
<1> QED BY <1>1, <1>2, <1>4 DEF ClosingInv

\* A worker calls wg.Done.
LEMMA DoneStep ==
    ASSUME ClosingInv, NEW i \in Items, phase[i] \in Started, NEW p \in Ended,
           phase' = [phase EXCEPT ![i] = p], wg' = wg - 1, UNCHANGED <<main, next, chan>>
    PROVE  ClosingInv'
<1>1. i \in Live /\ Live' = Live \ {i}
  BY DEF Live, ClosingInv, Started, Ended
<1>2. Cardinality(Live') = Cardinality(Live) - 1
  BY <1>1, ItemsFinite, FS_RemoveElement
<1>3. phase' \in [Items -> {"idle"} \cup Started \cup Ended]
  BY DEF ClosingInv
<1>4. main = "creating" => i < next
  BY DEF ClosingInv, Items, Started
<1>5. main = "creating" => \A k \in Items : k >= next => phase'[k] = "idle"
  BY <1>4 DEF ClosingInv, Items
<1> QED BY <1>1, <1>2, <1>3, <1>5 DEF ClosingInv

\* No goroutine is where the counter and the channel have a part.
LEMMA OtherStep ==
    ASSUME ClosingInv, UNCHANGED <<main, next, phase, wg, chan>>
    PROVE  ClosingInv'
<1>1. Live' = Live BY DEF Live
<1> QED BY <1>1 DEF ClosingInv

LEMMA ClosingInvWorker ==
    ASSUME ClosingInv, NEW i \in Items, WorkerStep(i) \/ PollFails(i) \/ CallPanics(i)
    PROVE  ClosingInv'
<1> USE DEF OutsideUnchanged
<1>1. CASE TaskFails(i)
  BY <1>1, WorkStep DEF TaskFails, Offer, Started
<1>2. CASE TaskAnswers(i)
  <2>1. \E p \in Started : phase' = [phase EXCEPT ![i] = p]
    BY <1>2 DEF TaskAnswers, Offer, Started
  <2> QED BY <1>2, <2>1, WorkStep DEF TaskAnswers, Started
<1>3. CASE BuildImage(i)
  BY <1>3, WorkStep DEF BuildImage, NextImage, Offer, Started
<1>4. CASE UploadImage(i)
  <2>1. phase[i] \in Started /\ UNCHANGED <<main, next, chan>>
    BY <1>4 DEF UploadImage, Started
  <2>2. CASE wg' = wg /\ \E ok \in BOOLEAN : NextImage(i, ok)
    BY <2>1, <2>2, WorkStep DEF NextImage, Offer, Started
  <2>3. CASE Recover(i)
    BY <2>1, <2>3, DoneStep DEF Recover, Ended
  <2> QED BY <1>4, <2>2, <2>3 DEF UploadImage
<1>5. CASE WorkerLeaves(i)
  BY <1>5, DoneStep DEF WorkerLeaves, Started, Ended
<1>6. CASE PollVideo(i) \/ PollFails(i)
  BY <1>6, WorkStep DEF PollVideo, PollFails, Offer, Started
<1>7. CASE CallPanics(i)
  BY <1>7, DoneStep DEF CallPanics, Recover, Started, Ended
<1> QED BY <1>1, <1>2, <1>3, <1>4, <1>5, <1>6, <1>7 DEF WorkerStep

LEMMA ClosingInvHandler ==
    ASSUME ClosingInv, HandlerStep
    PROVE  ClosingInv'
<1>1. CASE CreateTask
  <2>1. /\ next \in Items /\ phase[next] = "idle" /\ main = "creating" /\ chan # "closed"
        /\ next' = next + 1 /\ UNCHANGED <<main, chan>>
    BY <1>1, FanOutAssumption DEF CreateTask, ClosingInv, Items
  <2>2. CASE phase' = [phase EXCEPT ![next] = "calling"] /\ wg' = wg + 1
    <3>1. next \notin Live /\ Live' = Live \cup {next}
      BY <2>1, <2>2 DEF Live, ClosingInv, Started
    <3>2. Cardinality(Live') = Cardinality(Live) + 1
      BY <3>1, ItemsFinite, FS_AddElement
    <3>3. phase' \in [Items -> {"idle"} \cup Started \cup Ended]
      BY <2>2 DEF ClosingInv, Started
    <3>4. \A i \in Items : i >= next + 1 => phase'[i] = "idle"
      BY <2>1, <2>2 DEF ClosingInv, Items
    <3> QED BY <2>1, <2>2, <3>2, <3>3, <3>4 DEF ClosingInv
  <2>3. CASE UNCHANGED <<phase, wg>>
    <3>1. Live' = Live BY <2>3 DEF Live
    <3> QED BY <2>1, <2>3, <3>1 DEF ClosingInv, Items
  <2> QED BY <1>1, <2>2, <2>3 DEF CreateTask
<1>2. CASE BatchPanics \/ StartCollecting \/ HandlerReturns
  <2>1. Live' = Live BY <1>2 DEF Live, BatchPanics, StartCollecting, HandlerReturns
  <2> QED BY <1>2, <2>1 DEF ClosingInv, BatchPanics, StartCollecting, HandlerReturns
<1>3. CASE CloserCloses
  <2>1. Live = {}
    BY <1>3, ItemsFinite, FS_EmptySet DEF CloserCloses, ClosingInv
  <2>2. Live' = Live BY <1>3 DEF Live, CloserCloses
  <2> QED BY <1>3, <2>1, <2>2 DEF ClosingInv, CloserCloses
<1>4. ASSUME NEW i \in Items, Receive(i) PROVE ClosingInv'
  <2>1. UNCHANGED <<main, next, wg, chan>> /\ main = "collecting" /\ chan = "open"
    BY <1>4 DEF Receive
  <2>2. CASE phase[i] = "sending"
    <3>1. \E p \in Started : phase' = [phase EXCEPT ![i] = p]
      BY <1>4, <2>2 DEF Receive, Started
    <3> QED BY <2>1, <2>2, <3>1, WorkStep DEF Started
  <2>3. CASE phase[i] = "recovering"
    <3>1. phase' = [phase EXCEPT ![i] = "done"]
      BY <1>4, <2>3 DEF Receive
    <3>2. Live' = Live
      BY <2>3, <3>1 DEF Live, ClosingInv, Started
    <3> QED BY <2>1, <3>1, <3>2 DEF ClosingInv, Ended
  <2> QED BY <1>4, <2>2, <2>3 DEF Receive
<1> QED BY <1>1, <1>2, <1>3, <1>4 DEF HandlerStep

LEMMA ClosingInvNext == ClosingInv /\ [ToolNext]_toolVars => ClosingInv'
<1> SUFFICES ASSUME ClosingInv, [ToolNext]_toolVars PROVE ClosingInv'
  OBVIOUS
<1>1. CASE HandlerStep
  BY <1>1, ClosingInvHandler
<1>2. ASSUME NEW i \in Items, WorkerStep(i) \/ PollFails(i) \/ CallPanics(i) PROVE ClosingInv'
  BY <1>2, ClosingInvWorker
<1>3. ASSUME NEW i \in Items, SendOnClosed(i) \/ VideoSettles(i) PROVE ClosingInv'
  BY <1>3, OtherStep DEF SendOnClosed, VideoSettles
<1>4. CASE Cancel \/ UNCHANGED toolVars
  BY <1>4, OtherStep DEF Cancel, toolVars
<1> QED BY <1>1, <1>2, <1>3, <1>4 DEF ToolNext

\* The channel of a generation tool is closed only when no goroutine has an
\* entry of a task left to send (the closers of image_generate, image_edit and
\* video_generate wait for the WaitGroup).
THEOREM ClosesLast == ToolSpec => []ClosedAfterSends
<1>1. ToolInit => ClosingInv BY ClosingInvInit
<1>2. ClosingInv /\ [ToolNext]_toolVars => ClosingInv' BY ClosingInvNext
<1>3. ClosingInv => ClosedAfterSends BY ClosingImplied
<1> QED BY <1>1, <1>2, <1>3, PTL DEF ToolSpec

\* Counts of the entries in the two lists.
Listed == result \in [DOMAIN result -> Nat]

\* Of item i the images in d are listed, once, and no others.
Counted(i, d) ==
    \A image \in 0 .. MaxImages : CountOf(i, image) = IF image \in d THEN 1 ELSE 0

PanicListed(i) == BagIn(Entry(i, -1, FALSE), result)

\* A worker at p with the images t to go, of the images r that its item was
\* promised, has handed over those in d, and offers o.
StageOK(i, p, t, o, r, d, panicked) ==
    /\ p = "idle" => t = <<>> /\ d = r
    /\ p = "calling" => t = <<>> /\ d = {} /\ r \in {{}, {0}} /\ (tool = "video" => r = {0})
    /\ p = "building" => \E n \in 1 .. MaxImages :
          /\ r = 1 .. n /\ t \in Seq(ImageKinds) /\ Len(t) \in 1 .. n
          /\ d = 1 .. (n - Len(t))
    /\ p = "sending" =>
          \/ t = <<>> /\ r = {0} /\ d = {} /\ \E ok \in BOOLEAN : o = Entry(i, 0, ok)
          \/ \E n \in 1 .. MaxImages :
                /\ r = 1 .. n /\ t \in Seq(ImageKinds) /\ Len(t) \in 0 .. n - 1
                /\ d = 1 .. (n - Len(t) - 1)
                /\ \E ok \in BOOLEAN : o = Entry(i, n - Len(t), ok)
    /\ p = "leaving" => d = r
    /\ p = "recovering" => d \subseteq r /\ o = Entry(i, -1, FALSE)
    /\ p = "done" => d = r \/ (d \subseteq r /\ panicked)

AccountOK(i) ==
    \E d \in SUBSET (0 .. MaxImages) :
        /\ Counted(i, d)
        /\ StageOK(i, phase[i], todo[i], offer[i], reply[i], d, PanicListed(i))

AccountInv ==
    /\ ClosingInv /\ Listed
    /\ todo = [i \in Items |-> todo[i]] /\ offer = [i \in Items |-> offer[i]]
    /\ reply = [i \in Items |-> reply[i]]
    /\ main = "creating" => \A i \in Items : i >= next => reply[i] = {}
    /\ main = "returned" => chan = "closed"
    /\ \A i \in Items : AccountOK(i)

LEMMA AccountImplied == AccountInv => AllAccounted
<1> SUFFICES ASSUME AccountInv, main = "returned",
                    NEW i \in Items, NEW image \in 0 .. MaxImages
             PROVE  \/ CountOf(i, image) = 1 /\ image \in reply[i]
                    \/ CountOf(i, image) = 0 /\ (image \in reply[i] => HasPanicked(i))
  BY DEF AllAccounted
<1>1. phase[i] \in {"idle", "recovering", "done"}
  BY DEF AccountInv, ClosingInv, Live, Ended
<1>2. PICK d \in SUBSET (0 .. MaxImages) :
         /\ Counted(i, d)
         /\ StageOK(i, phase[i], todo[i], offer[i], reply[i], d, PanicListed(i))
  BY DEF AccountInv, AccountOK
<1>3. CountOf(i, image) = IF image \in d THEN 1 ELSE 0
  BY <1>2 DEF Counted
<1>4. d \subseteq reply[i] /\ (d = reply[i] \/ HasPanicked(i))
  BY <1>1, <1>2 DEF StageOK, PanicListed, HasPanicked
<1> QED
  BY <1>3, <1>4

\* One more entry in the lists.
LEMMA EntryListed ==
    ASSUME Listed, NEW e, result' = result (+) SetToBag({e})
    PROVE  /\ Listed'
           /\ \A x : BagIn(x, result)' <=> BagIn(x, result) \/ x = e
           /\ \A x : Copies(x)' = IF x = e THEN Copies(x) + 1 ELSE Copies(x)
           /\ \A x : Copies(x) \in Nat
<1>1. result' = [x \in DOMAIN result \cup {e} |->
                    (IF x \in DOMAIN result THEN result[x] ELSE 0) + (IF x \in {e} THEN 1 ELSE 0)]
  BY DEF (+), SetToBag
<1>2. \A x \in DOMAIN result : result[x] \in Nat
  BY DEF Listed
<1>3. DOMAIN result' = DOMAIN result \cup {e}
  BY <1>1
<1>4. \A x : Copies(x) = (IF x \in DOMAIN result THEN result[x] ELSE 0) /\ Copies(x) \in Nat
  BY <1>2 DEF Copies, BagIn, BagToSet
<1>5. ASSUME NEW x \in DOMAIN result'
      PROVE  result'[x] = (IF x = e THEN Copies(x) + 1 ELSE Copies(x)) /\ result'[x] \in Nat
  <2>1. PICK c \in Nat : c = Copies(x)
    BY <1>4
  <2>2. result'[x] = Copies(x) + (IF x \in {e} THEN 1 ELSE 0)
    BY <1>1, <1>3, <1>4
  <2> QED
    BY <2>1, <2>2
<1>6. Listed'
  <2>1. PICK D : D = DOMAIN result \cup {e}
    OBVIOUS
  <2>2. result' = [x \in D |-> result'[x]]
    BY <1>1, <2>1
  <2>3. \A x \in D : result'[x] \in Nat
    BY <1>3, <1>5, <2>1
  <2>4. result' \in [D -> Nat] /\ DOMAIN result' = D
    BY <1>3, <2>1, <2>2, <2>3
  <2> QED
    BY <2>4 DEF Listed
<1>7. \A x : BagIn(x, result)' <=> BagIn(x, result) \/ x = e
  BY <1>3 DEF BagIn, BagToSet
<1>8. \A x : Copies(x)' = IF x = e THEN Copies(x) + 1 ELSE Copies(x)
  BY <1>3, <1>5 DEF Copies, BagIn, BagToSet
<1> QED
  BY <1>4, <1>6, <1>7, <1>8

\* ... counts for its image alone.
LEMMA EntryCounts ==
    ASSUME Listed, NEW k \in Items, NEW image \in Int, NEW ok \in BOOLEAN,
           result' = result (+) SetToBag({Entry(k, image, ok)})
    PROVE  /\ Listed'
           /\ \A i \in Items : PanicListed(i) => PanicListed(i)'
           /\ image = -1 /\ ~ ok => PanicListed(k)'
           /\ \A i \in Items, m \in 0 .. MaxImages :
                 CountOf(i, m)' = IF i = k /\ m = image THEN CountOf(i, m) + 1 ELSE CountOf(i, m)
<1>1. PICK e : e = Entry(k, image, ok)
  OBVIOUS
<1>2. /\ Listed'
      /\ \A x : BagIn(x, result)' <=> BagIn(x, result) \/ x = e
      /\ \A x : Copies(x)' = IF x = e THEN Copies(x) + 1 ELSE Copies(x)
      /\ \A x : Copies(x) \in Nat
  BY <1>1, EntryListed
<1>3. /\ \A i \in Items : PanicListed(i) => PanicListed(i)'
      /\ image = -1 /\ ~ ok => PanicListed(k)'
  BY <1>1, <1>2 DEF PanicListed
<1>4. ASSUME NEW i \in Items, NEW m \in 0 .. MaxImages
      PROVE  CountOf(i, m)' = IF i = k /\ m = image THEN CountOf(i, m) + 1 ELSE CountOf(i, m)
  <2>1. \A y \in BOOLEAN : Entry(i, m, y) = e <=> i = k /\ m = image /\ y = ok
    BY <1>1 DEF Entry
  <2>2. PICK yes, no : yes = Entry(i, m, TRUE) /\ no = Entry(i, m, FALSE)
    OBVIOUS
  <2>3. /\ CountOf(i, m) = Copies(yes) + Copies(no)
        /\ CountOf(i, m)' = Copies(yes)' + Copies(no)'
    BY <2>2 DEF CountOf
  <2>4. /\ yes = e <=> i = k /\ m = image /\ ok = TRUE
        /\ no = e <=> i = k /\ m = image /\ ok = FALSE
    BY <2>1, <2>2
  <2>5. /\ Copies(yes)' = IF yes = e THEN Copies(yes) + 1 ELSE Copies(yes)
        /\ Copies(no)' = IF no = e THEN Copies(no) + 1 ELSE Copies(no)
        /\ Copies(yes) \in Nat /\ Copies(no) \in Nat
    BY <1>2
  <2> QED
    BY <2>3, <2>4, <2>5
<1> QED
  BY <1>2, <1>3, <1>4

\* The predicates of a worker are about its own state, and what is listed.
LEMMA SameStage ==
    ASSUME tool' = tool, NEW i, NEW p, NEW t, NEW o, NEW r, NEW d, NEW x,
           StageOK(i, p, t, o, r, d, x)
    PROVE  StageOK(i, p, t, o, r, d, x)'
BY DEF StageOK

LEMMA MorePanics ==
    ASSUME NEW i, NEW p, NEW t, NEW o, NEW r, NEW d, NEW x, NEW y, x => y,
           StageOK(i, p, t, o, r, d, x)
    PROVE  StageOK(i, p, t, o, r, d, y)
BY DEF StageOK

\* What is to be shown of the workers, after a step of the k-th.
LEMMA StageStep ==
    ASSUME AccountInv, NEW k \in Items, NEW p, NEW t, NEW o, NEW r,
           phase' = [phase EXCEPT ![k] = p], todo' = [todo EXCEPT ![k] = t],
           offer' = [offer EXCEPT ![k] = o], reply' = [reply EXCEPT ![k] = r],
           tool' = tool, ClosingInv', Listed',
           main' = "creating" => /\ main = "creating" /\ next <= next'
                                 /\ k >= next' => r = {}
                                 /\ \A i \in Items : i >= next' => i >= next,
           main' = "returned" => chan' = "closed",
           \A i \in Items \ {k} : PanicListed(i) => PanicListed(i)',
           \A i \in Items \ {k}, m \in 0 .. MaxImages : CountOf(i, m)' = CountOf(i, m),
           NEW d \in SUBSET (0 .. MaxImages), Counted(k, d)',
           NEW x, x => PanicListed(k)', StageOK(k, p, t, o, r, d, x)
    PROVE  AccountInv'
<1>1. /\ DOMAIN phase = Items /\ DOMAIN todo = Items /\ DOMAIN offer = Items
      /\ DOMAIN reply = Items
  BY DEF AccountInv, ClosingInv
<1>2. /\ phase'[k] = p /\ todo'[k] = t /\ offer'[k] = o /\ reply'[k] = r
      /\ \A i \in Items \ {k} : /\ phase'[i] = phase[i] /\ todo'[i] = todo[i]
                                /\ offer'[i] = offer[i] /\ reply'[i] = reply[i]
  BY <1>1
<1>3. /\ todo' = [i \in Items |-> todo'[i]] /\ offer' = [i \in Items |-> offer'[i]]
      /\ reply' = [i \in Items |-> reply'[i]]
  BY <1>1
<1>4. ASSUME NEW i \in Items \ {k} PROVE AccountOK(i)'
  <2>1. PICK y : y = PanicListed(i)
    OBVIOUS
  <2>2. PICK e \in SUBSET (0 .. MaxImages) :
           /\ Counted(i, e) /\ y = PanicListed(i)
           /\ StageOK(i, phase[i], todo[i], offer[i], reply[i], e, y)
    BY <2>1 DEF AccountInv, AccountOK
  <2>3. Counted(i, e)'
    BY <2>2 DEF Counted
  <2>4. PICK q, s, f, a, z : /\ q = phase'[i] /\ s = todo'[i] /\ f = offer'[i] /\ a = reply'[i]
                             /\ z = PanicListed(i)'
    OBVIOUS
  <2>5. StageOK(i, q, s, f, a, e, z)
    <3>1. y => z
      BY <2>2, <2>4
    <3>2. StageOK(i, q, s, f, a, e, y)
      BY <1>2, <2>2, <2>4
    <3> QED
      BY <3>1, <3>2, MorePanics
  <2>6. StageOK(i, q, s, f, a, e, z)'
    BY <2>5, SameStage
  <2> QED
    BY <2>3, <2>4, <2>6 DEF AccountOK, StageOK
<1>5. AccountOK(k)'
  <2>1. PICK z : z = PanicListed(k)'
    OBVIOUS
  <2>2. PICK q, s, f, a : q = phase'[k] /\ s = todo'[k] /\ f = offer'[k] /\ a = reply'[k]
    OBVIOUS
  <2>3. StageOK(k, q, s, f, a, d, z)
    BY <1>2, <2>1, <2>2, MorePanics
  <2>4. StageOK(k, q, s, f, a, d, z)'
    BY <2>3, SameStage
  <2> QED
    BY <2>1, <2>2, <2>4 DEF AccountOK, StageOK
<1>6. main' = "creating" => \A i \in Items : i >= next' => reply'[i] = {}
  BY <1>2 DEF AccountInv
<1> QED
  BY <1>4, <1>5, <1>6, <1>3 DEF AccountInv

\* A worker goes on without a word to the handler.
LEMMA QuietStep ==
    ASSUME AccountInv, NEW k \in Items, NEW p, NEW t, NEW o, NEW r,
           phase' = [phase EXCEPT ![k] = p], todo' = [todo EXCEPT ![k] = t],
           offer' = [offer EXCEPT ![k] = o], reply' = [reply EXCEPT ![k] = r],
           UNCHANGED <<tool, main, next, chan, result>>, ClosingInv', phase[k] # "idle",
           NEW d \in SUBSET (0 .. MaxImages), Counted(k, d),
           StageOK(k, p, t, o, r, d, PanicListed(k))
    PROVE  AccountInv'
<1>1. /\ \A i \in Items : PanicListed(i)' <=> PanicListed(i)
      /\ \A i \in Items, m \in 0 .. MaxImages : CountOf(i, m)' = CountOf(i, m)
      /\ Listed'
  BY DEF PanicListed, CountOf, Copies, Listed, AccountInv
<1>2. Counted(k, d)'
  BY <1>1 DEF Counted
<1>3. main = "creating" => ~ k >= next
  BY DEF AccountInv, ClosingInv
<1>4. PICK x : x = PanicListed(k)
  OBVIOUS
<1>5. /\ main' = "creating" => /\ main = "creating" /\ next <= next'
                               /\ k >= next' => r = {}
                               /\ \A i \in Items : i >= next' => i >= next
      /\ main' = "returned" => chan' = "closed"
  BY <1>3 DEF AccountInv, ClosingInv
<1>6. /\ \A i \in Items \ {k} : PanicListed(i) => PanicListed(i)'
      /\ \A i \in Items \ {k}, m \in 0 .. MaxImages : CountOf(i, m)' = CountOf(i, m)
      /\ x => PanicListed(k)'
  BY <1>1, <1>4
<1>7. StageOK(k, p, t, o, r, d, x) /\ tool' = tool
  BY <1>4
<1> QED
  BY <1>1, <1>2, <1>5, <1>6, <1>7, StageStep

\* The stage of a worker, with the images that are listed.
LEMMA StageOf ==
    ASSUME AccountInv, NEW k \in Items
    PROVE  /\ \E d \in SUBSET (0 .. MaxImages) :
                 /\ Counted(k, d)
                 /\ StageOK(k, phase[k], todo[k], offer[k], reply[k], d, PanicListed(k))
           /\ todo = [todo EXCEPT ![k] = todo[k]] /\ offer = [offer EXCEPT ![k] = offer[k]]
           /\ reply = [reply EXCEPT ![k] = reply[k]]
<1>1. AccountOK(k)
  BY DEF AccountInv
<1>2. /\ todo = [todo EXCEPT ![k] = todo[k]] /\ offer = [offer EXCEPT ![k] = offer[k]]
      /\ reply = [reply EXCEPT ![k] = reply[k]]
  BY DEF AccountInv
<1> QED
  BY <1>1, <1>2 DEF AccountOK

\* A call has no image yet, and what fails in it is one entry.
LEMMA FailedStep ==
    ASSUME AccountInv, ClosingInv', NEW k \in Items,
           TaskFails(k) \/ PollVideo(k) \/ PollFails(k) \/ CallPanics(k)
    PROVE  AccountInv'
<1>1. phase[k] = "calling" /\ UNCHANGED <<tool, main, next, chan, result, todo>>
  BY DEF TaskFails, PollVideo, PollFails, CallPanics, OutsideUnchanged
<1>2. PICK d \in SUBSET (0 .. MaxImages) :
         /\ Counted(k, d)
         /\ StageOK(k, phase[k], todo[k], offer[k], reply[k], d, PanicListed(k))
  BY StageOf
<1>3. /\ todo[k] = <<>> /\ d = {} /\ reply[k] \in {{}, {0}}
      /\ tool = "video" => reply[k] = {0}
  BY <1>1, <1>2 DEF StageOK
<1>4. todo' = [todo EXCEPT ![k] = <<>>]
  BY <1>1, <1>3, StageOf
<1>5. CASE TaskFails(k) \/ PollVideo(k) \/ PollFails(k)
  <2>1. reply' = [reply EXCEPT ![k] = {0}]
    BY <1>3, <1>5, StageOf DEF TaskFails, PollVideo, PollFails
  <2>2. PICK ok \in BOOLEAN : Offer(k, 0, ok)
    BY <1>5 DEF TaskFails, PollVideo, PollFails
  <2>3. StageOK(k, "sending", <<>>, Entry(k, 0, ok), {0}, d, PanicListed(k))
    BY <1>3 DEF StageOK
  <2> QED
    BY <1>1, <1>2, <1>4, <2>1, <2>2, <2>3, QuietStep DEF Offer
<1>6. CASE CallPanics(k)
  <2>1. reply' = [reply EXCEPT ![k] = reply[k]]
    BY <1>6, StageOf DEF CallPanics
  <2>2. StageOK(k, "recovering", <<>>, Entry(k, -1, FALSE), reply[k], d, PanicListed(k))
    BY <1>3 DEF StageOK
  <2> QED
    BY <1>1, <1>2, <1>4, <1>6, <2>1, <2>2, QuietStep DEF CallPanics, Recover
<1> QED
  BY <1>5, <1>6

\* An answer: its images are still to go.
LEMMA AnswersStep ==
    ASSUME AccountInv, ClosingInv', NEW k \in Items, TaskAnswers(k)
    PROVE  AccountInv'
<1>1. phase[k] = "calling" /\ UNCHANGED <<tool, main, next, chan, result>>
  BY DEF TaskAnswers, OutsideUnchanged
<1>2. PICK d \in SUBSET (0 .. MaxImages) :
         /\ Counted(k, d)
         /\ StageOK(k, phase[k], todo[k], offer[k], reply[k], d, PanicListed(k))
  BY StageOf
<1>3. d = {}
  BY <1>1, <1>2 DEF StageOK
<1>4. PICK images \in Replies :
         /\ todo' = [todo EXCEPT ![k] = images]
         /\ IF images = <<>> /\ tool = "edit"
            THEN /\ reply' = [reply EXCEPT ![k] = {0}]
                 /\ Offer(k, 0, FALSE)
            ELSE /\ reply' = [reply EXCEPT ![k] = 1 .. Len(images)]
                 /\ phase' = [phase EXCEPT ![k] =
                                IF images = <<>> THEN "leaving" ELSE "building"]
                 /\ UNCHANGED offer
  BY DEF TaskAnswers
<1>5. PICK n \in 0 .. MaxImages : images \in [1 .. n -> ImageKinds]
  BY DEF Replies
<1>6. images \in Seq(ImageKinds) /\ Len(images) = n /\ n \in Nat /\ (images = <<>> <=> n = 0)
  BY <1>5, FanOutAssumption
<1>7. CASE images = <<>> /\ tool = "edit"
  <2>1. StageOK(k, "sending", images, Entry(k, 0, FALSE), {0}, d, PanicListed(k))
    BY <1>3, <1>7 DEF StageOK
  <2>2. reply' = [reply EXCEPT ![k] = {0}] /\ Offer(k, 0, FALSE)
    BY <1>4, <1>7
  <2> QED
    BY <1>1, <1>2, <1>4, <2>1, <2>2, QuietStep DEF Offer
<1>8. CASE ~ (images = <<>> /\ tool = "edit")
  <2>1. PICK p, r : /\ p = IF images = <<>> THEN "leaving" ELSE "building"
                    /\ r = 1 .. n
    OBVIOUS
  <2>2. reply' = [reply EXCEPT ![k] = r] /\ phase' = [phase EXCEPT ![k] = p] /\ offer' = offer
    BY <1>4, <1>6, <1>8, <2>1
  <2>3. StageOK(k, p, images, offer[k], r, d, PanicListed(k))
    <3>1. CASE n = 0
      <4>1. r = {} /\ p = "leaving"
        BY <1>6, <2>1, <3>1
      <4> QED
        BY <1>3, <4>1 DEF StageOK
    <3>2. CASE n # 0
      <4>1. p = "building" /\ n \in 1 .. MaxImages /\ Len(images) \in 1 .. n
        BY <1>6, <2>1, <3>2, FanOutAssumption
      <4>2. d = 1 .. (n - Len(images))
        BY <1>3, <1>6
      <4> QED
        BY <1>6, <2>1, <4>1, <4>2 DEF StageOK
    <3> QED
      BY <3>1, <3>2
  <2>4. offer' = [offer EXCEPT ![k] = offer[k]]
    BY <2>2, StageOf
  <2> QED
    BY <1>1, <1>2, <1>4, <2>2, <2>3, <2>4, QuietStep
<1> QED
  BY <1>7, <1>8

\* The next image is offered.
LEMMA ImageStep ==
    ASSUME AccountInv, ClosingInv', NEW k \in Items, phase[k] = "building",
           UNCHANGED <<tool, main, next, chan, result, reply>>,
           NEW ok \in BOOLEAN, NextImage(k, ok)
    PROVE  AccountInv'
<1>1. PICK d \in SUBSET (0 .. MaxImages) :
         /\ Counted(k, d)
         /\ StageOK(k, phase[k], todo[k], offer[k], reply[k], d, PanicListed(k))
  BY StageOf
<1>2. PICK n \in 1 .. MaxImages :
         /\ reply[k] = 1 .. n /\ todo[k] \in Seq(ImageKinds) /\ Len(todo[k]) \in 1 .. n
         /\ d = 1 .. (n - Len(todo[k]))
  BY <1>1 DEF StageOK
<1>3. PICK rest : rest = Tail(todo[k])
  OBVIOUS
<1>4. rest \in Seq(ImageKinds) /\ Len(rest) = Len(todo[k]) - 1 /\ Len(rest) \in 0 .. n - 1
  BY <1>2, <1>3
<1>5. Cardinality(reply[k]) = n
  BY <1>2, FS_Interval, FanOutAssumption
<1>6. PICK image \in Int : image = ImageAt(k) /\ image = n - Len(rest)
  BY <1>2, <1>4, <1>5 DEF ImageAt
<1>7. d = 1 .. (n - Len(rest) - 1)
  BY <1>2, <1>4
<1>8. StageOK(k, "sending", rest, Entry(k, image, ok), 1 .. n, d, PanicListed(k))
  BY <1>4, <1>6, <1>7 DEF StageOK
<1>9. reply' = [reply EXCEPT ![k] = 1 .. n]
  BY <1>2, StageOf
<1>10. /\ todo' = [todo EXCEPT ![k] = rest] /\ phase' = [phase EXCEPT ![k] = "sending"]
       /\ offer' = [offer EXCEPT ![k] = Entry(k, image, ok)]
  BY <1>3, <1>6 DEF NextImage, Offer
<1> QED
  BY <1>1, <1>8, <1>9, <1>10, QuietStep

\* A worker panics over an image, or returns.
LEMMA OverStep ==
    ASSUME AccountInv, ClosingInv', NEW k \in Items,
           UNCHANGED <<tool, main, next, chan, result, reply, todo>>,
           \/ phase[k] = "building" /\ Recover(k)
           \/ /\ phase[k] = "leaving" /\ phase' = [phase EXCEPT ![k] = "done"]
              /\ offer' = offer
    PROVE  AccountInv'
<1>1. PICK d \in SUBSET (0 .. MaxImages) :
         /\ Counted(k, d)
         /\ StageOK(k, phase[k], todo[k], offer[k], reply[k], d, PanicListed(k))
  BY StageOf
<1>2. todo' = [todo EXCEPT ![k] = todo[k]] /\ reply' = [reply EXCEPT ![k] = reply[k]]
  BY StageOf
<1>3. CASE phase[k] = "building" /\ Recover(k)
  <2>1. d \subseteq reply[k]
    <3>1. PICK n \in 1 .. MaxImages : /\ reply[k] = 1 .. n /\ Len(todo[k]) \in 1 .. n
                                      /\ d = 1 .. (n - Len(todo[k]))
      BY <1>1, <1>3 DEF StageOK
    <3> QED
      BY <3>1, FanOutAssumption
  <2>2. StageOK(k, "recovering", todo[k], Entry(k, -1, FALSE), reply[k], d, PanicListed(k))
    BY <2>1 DEF StageOK
  <2> QED
    BY <1>1, <1>2, <1>3, <2>2, QuietStep DEF Recover
<1>4. CASE /\ phase[k] = "leaving" /\ phase' = [phase EXCEPT ![k] = "done"]
           /\ offer' = offer
  <2>1. StageOK(k, "done", todo[k], offer[k], reply[k], d, PanicListed(k))
    BY <1>1, <1>4 DEF StageOK
  <2>2. offer' = [offer EXCEPT ![k] = offer[k]]
    BY <1>4, StageOf
  <2> QED
    BY <1>1, <1>2, <1>4, <2>1, <2>2, QuietStep
<1> QED
  BY <1>3, <1>4

LEMMA AccountWorker ==
    ASSUME AccountInv, ClosingInv', NEW k \in Items, WorkerStep(k) \/ PollFails(k) \/ CallPanics(k)
    PROVE  AccountInv'
<1>1. CASE TaskFails(k) \/ PollVideo(k) \/ PollFails(k) \/ CallPanics(k)
  BY <1>1, FailedStep
<1>2. CASE TaskAnswers(k)
  BY <1>2, AnswersStep
<1>3. CASE BuildImage(k)
  <2>1. PICK ok : ok = (Head(todo[k]) \in {"url", "b64"})
    OBVIOUS
  <2>2. ok \in BOOLEAN
    BY <2>1
  <2>3. NextImage(k, ok)
    BY <1>3, <2>1 DEF BuildImage
  <2> QED
    BY <1>3, <2>2, <2>3, ImageStep DEF BuildImage, OutsideUnchanged
<1>4. CASE UploadImage(k)
  <2>1. phase[k] = "building" /\ UNCHANGED <<tool, main, next, chan, result, reply>>
    BY <1>4 DEF UploadImage, OutsideUnchanged
  <2>2. (\E ok \in BOOLEAN : NextImage(k, ok)) \/ (Recover(k) /\ todo' = todo)
    BY <1>4 DEF UploadImage
  <2> QED
    BY <2>1, <2>2, ImageStep, OverStep
<1>5. CASE WorkerLeaves(k)
  BY <1>5, OverStep DEF WorkerLeaves, OutsideUnchanged
<1> QED
  BY <1>1, <1>2, <1>3, <1>4, <1>5 DEF WorkerStep

\* The lists grow by an image that was not in them.
LEMMA MoreCounted ==
    ASSUME AccountInv, NEW k \in Items, NEW d \in SUBSET (0 .. MaxImages), Counted(k, d),
           NEW image \in 0 .. MaxImages, image \notin d, NEW ok \in BOOLEAN,
           result' = result (+) SetToBag({Entry(k, image, ok)})
    PROVE  Counted(k, d \cup {image})' /\ d \cup {image} \in SUBSET (0 .. MaxImages)
<1>1. \A m \in 0 .. MaxImages :
         CountOf(k, m)' = IF m = image THEN CountOf(k, m) + 1 ELSE CountOf(k, m)
  BY EntryCounts DEF AccountInv
<1>2. \A m \in 0 .. MaxImages : CountOf(k, m)' = IF m \in d \cup {image} THEN 1 ELSE 0
  BY <1>1 DEF Counted
<1>3. PICK e : e = d \cup {image}
  OBVIOUS
<1> QED
  BY <1>2, <1>3 DEF Counted

\* The handler receives an entry.
LEMMA ReceiveStep ==
    ASSUME AccountInv, ClosingInv', NEW k \in Items, Receive(k)
    PROVE  AccountInv'
<1>1. /\ UNCHANGED <<tool, main, next, chan, todo, reply>> /\ main = "collecting"
      /\ phase[k] \in {"sending", "recovering"}
      /\ result' = result (+) SetToBag({offer[k]})
      /\ offer' = [offer EXCEPT ![k] = NoOffer]
  BY DEF Receive
<1>2. PICK d \in SUBSET (0 .. MaxImages) :
         /\ Counted(k, d)
         /\ StageOK(k, phase[k], todo[k], offer[k], reply[k], d, PanicListed(k))
  BY StageOf
<1>3. todo' = [todo EXCEPT ![k] = todo[k]] /\ reply' = [reply EXCEPT ![k] = reply[k]]
  BY <1>1, StageOf
<1>4. /\ main' # "creating" /\ main' # "returned" /\ tool' = tool
  BY <1>1
<1>5. ASSUME NEW image \in Int, NEW ok \in BOOLEAN, offer[k] = Entry(k, image, ok)
      PROVE  /\ Listed'
             /\ \A i \in Items : PanicListed(i) => PanicListed(i)'
             /\ image = -1 /\ ~ ok => PanicListed(k)'
             /\ \A i \in Items, m \in 0 .. MaxImages :
                   CountOf(i, m)' = IF i = k /\ m = image THEN CountOf(i, m) + 1 ELSE CountOf(i, m)
  BY <1>1, <1>5, EntryCounts DEF AccountInv
<1>6. CASE phase[k] = "recovering"
  <2>1. d \subseteq reply[k] /\ offer[k] = Entry(k, -1, FALSE)
    BY <1>2, <1>6 DEF StageOK
  <2>2. /\ Listed' /\ PanicListed(k)'
        /\ \A i \in Items : PanicListed(i) => PanicListed(i)'
        /\ \A i \in Items, m \in 0 .. MaxImages : CountOf(i, m)' = CountOf(i, m)
    <3>1. -1 \in Int /\ FALSE \in BOOLEAN
      OBVIOUS
    <3>2. PICK image \in Int : image = -1
      BY <3>1
    <3>3. PICK ok \in BOOLEAN : ok = FALSE
      BY <3>1
    <3>4. image = -1 /\ ok = FALSE
      BY <3>2, <3>3
    <3>5. offer[k] = Entry(k, image, ok)
      BY <2>1, <3>4
    <3>6. /\ Listed' /\ (image = -1 /\ ~ ok => PanicListed(k)')
          /\ \A i \in Items : PanicListed(i) => PanicListed(i)'
          /\ \A i \in Items, m \in 0 .. MaxImages :
                CountOf(i, m)' = IF i = k /\ m = image THEN CountOf(i, m) + 1 ELSE CountOf(i, m)
      BY <1>5, <3>5
    <3>7. \A m \in 0 .. MaxImages : m # image
      BY <3>4
    <3> QED
      BY <3>4, <3>6, <3>7
  <2>3. Counted(k, d)'
    BY <1>2, <2>2 DEF Counted
  <2>4. StageOK(k, "done", todo[k], NoOffer, reply[k], d, TRUE)
    BY <2>1 DEF StageOK
  <2>5. phase' = [phase EXCEPT ![k] = "done"]
    BY <1>6 DEF Receive
  <2> QED
    BY <1>1, <1>3, <1>4, <2>2, <2>3, <2>4, <2>5, StageStep
<1>7. CASE phase[k] = "sending"
  <2>1. PICK p : p = IF todo[k] # <<>> THEN "building" ELSE "leaving"
    OBVIOUS
  <2>2. phase' = [phase EXCEPT ![k] = p]
    BY <1>7, <2>1 DEF Receive
  <2>3. PICK image \in 0 .. MaxImages, ok \in BOOLEAN :
           /\ offer[k] = Entry(k, image, ok) /\ image \notin d
           /\ StageOK(k, p, todo[k], NoOffer, reply[k], d \cup {image}, FALSE)
    <3>1. CASE /\ todo[k] = <<>> /\ reply[k] = {0} /\ d = {}
               /\ \E ok \in BOOLEAN : offer[k] = Entry(k, 0, ok)
      <4>1. StageOK(k, p, todo[k], NoOffer, reply[k], d \cup {0}, FALSE)
        BY <2>1, <3>1 DEF StageOK
      <4>2. 0 \in 0 .. MaxImages /\ 0 \notin d
        BY <3>1, FanOutAssumption
      <4> QED
        BY <3>1, <4>1, <4>2
    <3>2. CASE \E n \in 1 .. MaxImages :
                  /\ reply[k] = 1 .. n /\ todo[k] \in Seq(ImageKinds) /\ Len(todo[k]) \in 0 .. n - 1
                  /\ d = 1 .. (n - Len(todo[k]) - 1)
                  /\ \E ok \in BOOLEAN : offer[k] = Entry(k, n - Len(todo[k]), ok)
      <4>1. PICK n \in 1 .. MaxImages, ok \in BOOLEAN :
               /\ reply[k] = 1 .. n /\ todo[k] \in Seq(ImageKinds) /\ Len(todo[k]) \in 0 .. n - 1
               /\ d = 1 .. (n - Len(todo[k]) - 1)
               /\ offer[k] = Entry(k, n - Len(todo[k]), ok)
        BY <3>2
      <4>2. PICK image : image = n - Len(todo[k])
        OBVIOUS
      <4>3. image \in 0 .. MaxImages /\ image \notin d /\ d \cup {image} = 1 .. image
        BY <4>1, <4>2, FanOutAssumption
      <4>4. StageOK(k, p, todo[k], NoOffer, reply[k], 1 .. image, FALSE)
        <5>1. CASE todo[k] = <<>>
          BY <2>1, <4>1, <4>2, <5>1 DEF StageOK
        <5>2. CASE todo[k] # <<>>
          <6>1. Len(todo[k]) \in 1 .. n
            BY <4>1, <5>2
          <6> QED
            BY <2>1, <4>1, <4>2, <5>2, <6>1 DEF StageOK
        <5> QED
          BY <5>1, <5>2
      <4> QED
        BY <4>1, <4>2, <4>3, <4>4
    <3> QED
      BY <1>2, <1>7, <3>1, <3>2 DEF StageOK
  <2>4. /\ Listed'
        /\ \A i \in Items : PanicListed(i) => PanicListed(i)'
        /\ \A i \in Items \ {k}, m \in 0 .. MaxImages : CountOf(i, m)' = CountOf(i, m)
    BY <1>5, <2>3
  <2>5. Counted(k, d \cup {image})' /\ d \cup {image} \in SUBSET (0 .. MaxImages)
    BY <1>1, <1>2, <2>3, MoreCounted
  <2> QED
    BY <1>1, <1>3, <1>4, <2>2, <2>3, <2>4, <2>5, StageStep
<1> QED
  BY <1>1, <1>6, <1>7

\* A task is created, or is an entry of the error list at once.
LEMMA CreateStep ==
    ASSUME AccountInv, ClosingInv', CreateTask
    PROVE  AccountInv'
<1>1. /\ main = "creating" /\ next \in Items /\ next' = next + 1 /\ phase[next] = "idle"
      /\ reply[next] = {} /\ reply' = [reply EXCEPT ![next] = {0}]
      /\ UNCHANGED <<tool, main, chan, todo, offer>>
  BY FanOutAssumption DEF CreateTask, AccountInv, ClosingInv, Items
<1>2. PICK k \in Items : k = next
  BY <1>1
<1>3. PICK d \in SUBSET (0 .. MaxImages) :
         /\ Counted(k, d)
         /\ StageOK(k, phase[k], todo[k], offer[k], reply[k], d, PanicListed(k))
  BY StageOf
<1>4. todo[k] = <<>> /\ d = {}
  BY <1>1, <1>2, <1>3 DEF StageOK
<1>5. /\ todo' = [todo EXCEPT ![k] = <<>>] /\ offer' = [offer EXCEPT ![k] = offer[k]]
      /\ reply' = [reply EXCEPT ![k] = {0}]
  BY <1>1, <1>2, <1>4, StageOf
<1>6. /\ main' = "creating" => /\ main = "creating" /\ next <= next'
                               /\ k >= next' => {0} = {}
                               /\ \A i \in Items : i >= next' => i >= next
      /\ main' = "returned" => chan' = "closed"
  BY <1>1, <1>2 DEF Items
<1>7. CASE phase' = [phase EXCEPT ![next] = "calling"] /\ result' = result
  <2>1. /\ Listed' /\ (PanicListed(k) => PanicListed(k)')
        /\ \A i \in Items : PanicListed(i) => PanicListed(i)'
        /\ \A i \in Items, m \in 0 .. MaxImages : CountOf(i, m)' = CountOf(i, m)
    BY <1>7 DEF PanicListed, CountOf, Copies, Listed, AccountInv
  <2>2. Counted(k, d)'
    BY <1>3, <2>1 DEF Counted
  <2>3. StageOK(k, "calling", <<>>, offer[k], {0}, d, PanicListed(k))
    BY <1>4 DEF StageOK
  <2>4. phase' = [phase EXCEPT ![k] = "calling"] /\ tool' = tool
    BY <1>1, <1>2, <1>7
  <2> QED
    BY <1>5, <1>6, <2>1, <2>2, <2>3, <2>4, StageStep
<1>8. CASE result' = result (+) SetToBag({Entry(next, 0, FALSE)}) /\ phase' = phase
  <2>1. /\ Listed' /\ (PanicListed(k) => PanicListed(k)')
        /\ \A i \in Items : PanicListed(i) => PanicListed(i)'
        /\ \A i \in Items \ {k}, m \in 0 .. MaxImages : CountOf(i, m)' = CountOf(i, m)
    <3>1. 0 \in Int /\ FALSE \in BOOLEAN
      OBVIOUS
    <3>2. PICK image \in Int : image = 0
      BY <3>1
    <3>3. PICK ok \in BOOLEAN : ok = FALSE
      BY <3>1
    <3>4. image = 0 /\ ok = FALSE
      BY <3>2, <3>3
    <3>5. result' = result (+) SetToBag({Entry(k, image, ok)}) /\ Listed
      BY <1>2, <1>8, <3>4 DEF AccountInv
    <3>6. /\ Listed'
          /\ \A i \in Items : PanicListed(i) => PanicListed(i)'
          /\ \A i \in Items, m \in 0 .. MaxImages :
                CountOf(i, m)' = IF i = k /\ m = image THEN CountOf(i, m) + 1 ELSE CountOf(i, m)
      BY <3>5, EntryCounts
    <3> QED
      BY <3>6
  <2>2. Counted(k, {0})' /\ {0} \in SUBSET (0 .. MaxImages)
    <3>1. 0 \in 0 .. MaxImages /\ d \cup {0} = {0} /\ 0 \notin d
      BY <1>4, FanOutAssumption
    <3>2. Counted(k, d \cup {0})' /\ d \cup {0} \in SUBSET (0 .. MaxImages)
      BY <1>2, <1>3, <1>8, <3>1, MoreCounted
    <3> QED
      BY <3>1, <3>2
  <2>3. StageOK(k, "idle", <<>>, offer[k], {0}, {0}, PanicListed(k))
    BY DEF StageOK
  <2>4. phase' = [phase EXCEPT ![k] = "idle"] /\ tool' = tool
    BY <1>1, <1>2, <1>8 DEF AccountInv, ClosingInv
  <2> QED
    BY <1>5, <1>6, <2>1, <2>2, <2>3, <2>4, StageStep
<1> QED
  BY <1>7, <1>8 DEF CreateTask

\* No worker and no entry has a part in it.
LEMMA ApartStep ==
    ASSUME AccountInv, ClosingInv', UNCHANGED <<tool, next, phase, todo, offer, reply, result>>,
           main' = "creating" => main = "creating",
           main' = "returned" => chan' = "closed"
    PROVE  AccountInv'
<1>1. ASSUME NEW i \in Items PROVE AccountOK(i)'
  <2>1. PICK d \in SUBSET (0 .. MaxImages) :
           /\ Counted(i, d)
           /\ StageOK(i, phase[i], todo[i], offer[i], reply[i], d, PanicListed(i))
    BY StageOf
  <2>2. Counted(i, d)'
    BY <2>1 DEF Counted, CountOf, Copies
  <2> QED
    BY <2>1, <2>2 DEF AccountOK, StageOK, PanicListed
<1> QED
  BY <1>1 DEF AccountInv, Listed

LEMMA AccountInvInit == ToolInit => AccountInv
<1> SUFFICES ASSUME ToolInit PROVE AccountInv
  OBVIOUS
<1>1. ClosingInv
  BY ClosingInvInit
<1>2. /\ result = EmptyBag /\ todo = [i \in Items |-> <<>>] /\ reply = [i \in Items |-> {}]
      /\ offer = [i \in Items |-> NoOffer] /\ main \in {"creating", "collecting"}
      /\ \/ tool # "video" /\ phase = [i \in Items |-> "calling"]
         \/ phase = [i \in Items |-> "idle"]
  BY DEF ToolInit, ImageToolInit, VideoToolInit
<1>3. result = [x \in {} |-> 1] /\ DOMAIN result = {}
  BY <1>2 DEF EmptyBag, SetToBag
<1>4. Listed
  BY <1>3 DEF Listed
<1>5. ASSUME NEW i \in Items PROVE AccountOK(i)
  <2>1. Counted(i, {})
    <3>1. \A x : Copies(x) = 0
      BY <1>3 DEF Copies, BagIn, BagToSet
    <3>2. ASSUME NEW m \in 0 .. MaxImages PROVE CountOf(i, m) = 0
      <4>1. PICK yes, no : yes = Entry(i, m, TRUE) /\ no = Entry(i, m, FALSE)
        OBVIOUS
      <4>2. Copies(yes) = 0 /\ Copies(no) = 0
        BY <3>1
      <4>3. CountOf(i, m) = Copies(yes) + Copies(no)
        BY <4>1 DEF CountOf
      <4> QED
        BY <4>2, <4>3
    <3> QED
      BY <3>2 DEF Counted
  <2>2. StageOK(i, phase[i], todo[i], offer[i], reply[i], {}, PanicListed(i))
    BY <1>2 DEF StageOK
  <2> QED
    BY <2>1, <2>2 DEF AccountOK
<1> QED
  BY <1>1, <1>2, <1>4, <1>5 DEF AccountInv

LEMMA AccountInvStep == AccountInv /\ [ToolNext]_toolVars => AccountInv'
<1> SUFFICES ASSUME AccountInv, [ToolNext]_toolVars PROVE AccountInv'
  OBVIOUS
<1>1. ClosingInv'
  BY ClosingInvNext DEF AccountInv
<1>2. CASE CreateTask
  BY <1>1, <1>2, CreateStep
<1>3. CASE BatchPanics \/ StartCollecting \/ CloserCloses \/ HandlerReturns
  BY <1>1, <1>3, ApartStep DEF BatchPanics, StartCollecting, CloserCloses, HandlerReturns
<1>4. ASSUME NEW i \in Items, Receive(i) PROVE AccountInv'
  BY <1>1, <1>4, ReceiveStep
<1>5. ASSUME NEW i \in Items, WorkerStep(i) \/ PollFails(i) \/ CallPanics(i) PROVE AccountInv'
  BY <1>1, <1>5, AccountWorker
<1>6. ASSUME NEW i \in Items, SendOnClosed(i) \/ VideoSettles(i) PROVE AccountInv'
  BY <1>1, <1>6, ApartStep DEF SendOnClosed, VideoSettles, AccountInv
<1>7. CASE Cancel \/ UNCHANGED toolVars
  BY <1>1, <1>7, ApartStep DEF Cancel, toolVars, AccountInv
<1> QED
  BY <1>2, <1>3, <1>4, <1>5, <1>6, <1>7 DEF ToolNext, HandlerStep

\* When a generation tool has returned, each image that an item was promised is
\* in one of the two lists once, and nothing else is; only an item whose
\* goroutine panicked may lack images (the collectors of image_generate,
\* image_edit and video_generate).
THEOREM ImagesAccounted == ToolSpec => []AllAccounted
<1>1. ToolInit => AccountInv BY AccountInvInit
<1>2. AccountInv /\ [ToolNext]_toolVars => AccountInv' BY AccountInvStep
<1>3. AccountInv => AllAccounted BY AccountImplied
<1> QED BY <1>1, <1>2, <1>3, PTL DEF ToolSpec

(***************************************************************************)
(* AgentkitSkills: a second sandbox of a session has a cause               *)
(***************************************************************************)

\* A set of numbers up to n that is not empty has a greatest one.
LEMMA Greatest ==
    ASSUME NEW n \in Nat, NEW S \in SUBSET (1 .. n), S # {}
    PROVE  Max(S) \in S /\ \A x \in S : Max(S) >= x
<1> DEFINE T == {n - x : x \in S}
<1>1. T \in SUBSET Nat /\ T # {}
  <2>1. \A x \in S : n - x \in Nat
    OBVIOUS
  <2> QED
    BY <2>1
<1> HIDE DEF T
<1>2. PICK m \in T : \A k \in T : ~ (<<k, m>> \in OpToRel(<, Nat))
  BY <1>1, WFMin, NatLessThanWellFounded
<1>3. \A k \in T : m <= k
  <2> SUFFICES ASSUME NEW k \in T PROVE m <= k
    OBVIOUS
  <2>1. k \in Nat /\ m \in Nat /\ ~ (k < m)
    BY <1>1, <1>2 DEF OpToRel
  <2> QED
    BY <2>1
<1>4. \E y \in S : \A x \in S : y >= x
  BY <1>3 DEF T
<1> QED
  BY <1>4 DEF Max

Places == {"idle", "listing", "creating", "readying", "sending", "fetching"}
Calls == [op : {"none", "execute", "invoke", "poll"}, pc : Places, box : Nat, home : Nat,
          late : BOOLEAN, since : Nat, listed : BOOLEAN]
Boxes == [status : {"creating", "ready", "terminated"}, since : Nat, listed : BOOLEAN]

SkillsTyped ==
    /\ boxes \in Seq(Boxes)
    /\ homes \subseteq DOMAIN boxes
    /\ call \in [Callers -> Calls]

Gone(b) == boxes[b].status = "terminated"

\* What a listing has found, or a creation made.
Known(c) ==
    /\ call[c].pc = "listing" => ~ call[c].listed
    /\ call[c].pc = "creating" =>
          /\ call[c].since <= Len(boxes)
          /\ call[c].listed => \A a \in 1 .. call[c].since : Gone(a)
    /\ call[c].pc \in {"readying", "sending", "fetching"} => call[c].box \in DOMAIN boxes
    /\ call[c].op = "poll" =>
          /\ call[c].home \in DOMAIN boxes
          /\ call[c].pc \in {"readying", "fetching"} =>
                call[c].box >= call[c].home \/ Gone(call[c].home)
          /\ call[c].pc # "sending"

SkillsInv ==
    /\ SkillsTyped
    /\ \A c \in Callers : Known(c)
    /\ \A b \in DOMAIN boxes :
          boxes[b].listed => boxes[b].since < b /\ \A a \in 1 .. boxes[b].since : Gone(a)

LEMMA SinceTyped == SkillsInv => \A b \in DOMAIN boxes : boxes[b].since \in Nat
<1> SUFFICES ASSUME SkillsInv, NEW b \in DOMAIN boxes PROVE boxes[b].since \in Nat
  OBVIOUS
<1>1. boxes[b] \in Boxes
  BY DEF SkillsInv, SkillsTyped
<1> QED
  BY <1>1 DEF Boxes

LEMMA CausesImplied == SkillsInv => SandboxHasCause
<1> SUFFICES ASSUME SkillsInv PROVE SandboxHasCause
  OBVIOUS
<1>1. DOMAIN boxes = 1 .. Len(boxes) /\ Len(boxes) \in Nat
  BY DEF SkillsInv, SkillsTyped
<1>2. ASSUME NEW a \in DOMAIN boxes, NEW b \in DOMAIN boxes, a < b, ~ Gone(a), ~ Gone(b)
      PROVE  ~ boxes[b].listed \/ boxes[b].since < a
  <2>1. boxes[b] \in Boxes
    BY DEF SkillsInv, SkillsTyped
  <2>2. boxes[b].since \in Nat
    BY <2>1 DEF Boxes
  <2>3. boxes[b].listed => boxes[b].since < b /\ \A x \in 1 .. boxes[b].since : Gone(x)
    BY DEF SkillsInv
  <2>4. a \in Nat /\ a >= 1
    BY <1>1
  <2> HIDE DEF Gone
  <2> QED
    BY <1>2, <2>2, <2>3, <2>4
<1>3. ASSUME NEW c \in Callers, call[c].op = "poll", call[c].pc = "fetching"
      PROVE  call[c].box >= call[c].home \/ Gone(call[c].home)
  BY <1>3 DEF SkillsInv, Known
<1> QED
  BY <1>2, <1>3 DEF SandboxHasCause, Gone

\* The call of c becomes r, the others stay; sandboxes stay.
LEMMA CallOnward ==
    ASSUME SkillsInv, NEW c \in Callers, NEW r \in Calls, call' = [call EXCEPT ![c] = r],
           boxes' = boxes, homes' \subseteq DOMAIN boxes, Known(c)'
    PROVE  SkillsInv'
<1>1. \A d \in Callers \ {c} : call'[d] = call[d]
  BY DEF SkillsInv, SkillsTyped
<1>2. \A b : Gone(b)' <=> Gone(b)
  BY DEF Gone
<1>3. ASSUME NEW d \in Callers, d # c PROVE Known(d)'
  <2>1. call'[d] = call[d] /\ Known(d)
    BY <1>1, <1>3 DEF SkillsInv
  <2> QED
    BY <2>1, <1>2 DEF Known
<1>4. \A d \in Callers : Known(d)'
  BY <1>3
<1>5. SkillsTyped'
  BY DEF SkillsInv, SkillsTyped
<1>6. \A b \in DOMAIN boxes' :
          boxes'[b].listed => boxes'[b].since < b /\ \A a \in 1 .. boxes'[b].since : Gone(a)'
  BY <1>2 DEF SkillsInv
<1> QED
  BY <1>4, <1>5, <1>6 DEF SkillsInv

\* A call that is over knows nothing.
LEMMA Returns ==
    ASSUME SkillsInv, NEW c \in Callers, Returned(c),
           boxes' = boxes, homes' \subseteq DOMAIN boxes
    PROVE  SkillsInv'
<1>1. NoCall \in Calls /\ call' = [call EXCEPT ![c] = NoCall]
  BY DEF NoCall, Calls, Places, Returned
<1>2. call'[c] = NoCall
  BY <1>1 DEF SkillsInv, SkillsTyped
<1>3. Known(c)'
  BY <1>2 DEF Known, NoCall
<1> QED
  BY <1>1, <1>3, CallOnward

\* One field of a call more.
LEMMA Again ==
    ASSUME NEW g \in [Callers -> Calls], NEW c \in Callers, NEW x, NEW f, NEW y,
           f = [g EXCEPT ![c] = x]
    PROVE  f[c] = x /\ [f EXCEPT ![c] = y] = [g EXCEPT ![c] = y]
OBVIOUS

\* What a call is when it has found a sandbox.
MoveTo(g, c, p, b) ==
    [g EXCEPT ![c].pc = p, ![c].box = b, ![c].late = FALSE, ![c].since = 0, ![c].listed = FALSE]

LEMMA Moved ==
    ASSUME NEW g \in [Callers -> Calls], NEW c \in Callers, NEW b \in Nat,
           NEW p \in {"readying", "sending", "fetching"}
    PROVE  \E r \in Calls :
              /\ MoveTo(g, c, p, b) = [g EXCEPT ![c] = r]
              /\ r.pc = p /\ r.box = b /\ r.op = g[c].op /\ r.home = g[c].home
<1> DEFINE q  == g[c]
           r1 == [q EXCEPT !.pc = p]
           r2 == [r1 EXCEPT !.box = b]
           r3 == [r2 EXCEPT !.late = FALSE]
           r4 == [r3 EXCEPT !.since = 0]
           r5 == [r4 EXCEPT !.listed = FALSE]
           f1 == [g EXCEPT ![c].pc = p]
           f2 == [f1 EXCEPT ![c].box = b]
           f3 == [f2 EXCEPT ![c].late = FALSE]
           f4 == [f3 EXCEPT ![c].since = 0]
           f5 == [f4 EXCEPT ![c].listed = FALSE]
<1>1. q \in Calls
  OBVIOUS
<1>2. /\ r1 \in Calls /\ r1.pc = p /\ r1.op = q.op /\ r1.home = q.home
      /\ f1 = [g EXCEPT ![c] = r1]
  BY <1>1 DEF Calls, Places
<1>3. MoveTo(g, c, p, b) = f5
  BY DEF MoveTo
<1> HIDE DEF r1, f1
<1>4. r2 \in Calls /\ r2.pc = p /\ r2.op = q.op /\ r2.home = q.home /\ r2.box = b
  BY <1>2 DEF Calls
<1>5. f2 = [g EXCEPT ![c] = r2]
  BY <1>2, Again
<1> HIDE DEF r2, f2
<1>6. r3 \in Calls /\ r3.pc = p /\ r3.op = q.op /\ r3.home = q.home /\ r3.box = b
  BY <1>4 DEF Calls
<1>7. f3 = [g EXCEPT ![c] = r3]
  BY <1>5, Again
<1> HIDE DEF r3, f3
<1>8. r4 \in Calls /\ r4.pc = p /\ r4.op = q.op /\ r4.home = q.home /\ r4.box = b
  BY <1>6 DEF Calls
<1>9. f4 = [g EXCEPT ![c] = r4]
  BY <1>7, Again
<1> HIDE DEF r4, f4
<1>10. r5 \in Calls /\ r5.pc = p /\ r5.op = q.op /\ r5.home = q.home /\ r5.box = b
  BY <1>8 DEF Calls
<1>11. f5 = [g EXCEPT ![c] = r5]
  BY <1>9, Again
<1> QED
  BY <1>3, <1>10, <1>11

\* A call that goes on to a sandbox that is there.
LEMMA CallGoes ==
    ASSUME SkillsInv, NEW c \in Callers, NEW p \in {"readying", "sending", "fetching"},
           NEW b \in DOMAIN boxes, boxes' = boxes, homes' = homes,
           call' = MoveTo(call, c, p, b),
           call[c].op = "poll" => p # "sending" /\ (b >= call[c].home \/ Gone(call[c].home))
    PROVE  SkillsInv'
<1>1. call[c] \in Calls /\ DOMAIN boxes = 1 .. Len(boxes)
  BY DEF SkillsInv, SkillsTyped
<1>2. PICK r \in Calls : /\ call' = [call EXCEPT ![c] = r]
                         /\ r.pc = p /\ r.box = b /\ r.op = call[c].op /\ r.home = call[c].home
  BY <1>1, Moved DEF SkillsInv, SkillsTyped
<1>3. call'[c] = r
  BY <1>2 DEF SkillsInv, SkillsTyped
<1>4. Known(c)
  BY DEF SkillsInv
<1>5. \A a : Gone(a)' <=> Gone(a)
  BY DEF Gone
<1>6. Known(c)'
  BY <1>2, <1>3, <1>4, <1>5 DEF Known
<1> QED
  BY <1>2, <1>6, CallOnward DEF SkillsInv, SkillsTyped

LEMMA Contacts ==
    ASSUME SkillsInv, NEW c \in Callers, NEW b \in DOMAIN boxes, NEW status,
           Found(c, b, status), boxes' = boxes, homes' = homes,
           call[c].op = "poll" => b >= call[c].home \/ Gone(call[c].home)
    PROVE  SkillsInv'
<1>1. PICK p \in {"readying", "sending", "fetching"} :
          /\ call' = MoveTo(call, c, p, b)
          /\ call[c].op = "poll" => p # "sending"
  <2>1. CASE status = "ready"
    BY <2>1 DEF Found, Contact, MoveTo
  <2>2. CASE status # "ready"
    BY <2>2 DEF Found, MoveTo
  <2> QED
    BY <2>1, <2>2
<1> QED
  BY <1>1, CallGoes

LEMMA StartStep ==
    ASSUME SkillsInv, NEW c \in Callers, Execute(c) \/ Invoke(c) \/ Poll(c)
    PROVE  SkillsInv'
<1>1. PICK op \in {"execute", "invoke", "poll"}, home \in Nat :
          StartCall(c, op, home) /\ (op = "poll" => home \in DOMAIN boxes)
  <2>1. CASE Execute(c)
    BY <2>1 DEF Execute
  <2>2. CASE Invoke(c)
    BY <2>2 DEF Invoke
  <2>3. CASE Poll(c)
    <3>1. PICK home \in homes : StartCall(c, "poll", home)
      BY <2>3 DEF Poll
    <3>2. home \in DOMAIN boxes /\ home \in Nat
      BY DEF SkillsInv, SkillsTyped
    <3> QED
      BY <3>1, <3>2
  <2> QED
    BY <2>1, <2>2, <2>3
<1> DEFINE r == [NoCall EXCEPT !.op = op, !.pc = "listing", !.home = home]
<1>2. r \in Calls /\ r.pc = "listing" /\ r.op = op /\ r.home = home /\ r.listed = FALSE
  BY <1>1 DEF NoCall, Calls, Places
<1>3. call' = [call EXCEPT ![c] = r] /\ boxes' = boxes /\ homes' = homes
  BY <1>1 DEF StartCall
<1> HIDE DEF r
<1>4. call'[c] = r
  BY <1>3 DEF SkillsInv, SkillsTyped
<1>5. Known(c)'
  BY <1>1, <1>2, <1>3, <1>4 DEF Known
<1> QED
  BY <1>2, <1>3, <1>5, CallOnward DEF SkillsInv, SkillsTyped

\* The listing of a call is answered without a sandbox, or fails.
LEMMA Creating ==
    ASSUME SkillsInv, NEW c \in Callers, NEW answered \in BOOLEAN, NEW r, r = [call[c] EXCEPT
               !.pc = "creating", !.listed = answered, !.since = Len(boxes)],
           call' = [call EXCEPT ![c] = r], boxes' = boxes, homes' = homes,
           answered => \A a \in 1 .. Len(boxes) : Gone(a)
    PROVE  SkillsInv'
<1>1. call[c] \in Calls /\ Len(boxes) \in Nat
  BY DEF SkillsInv, SkillsTyped
<1>2. /\ r \in Calls /\ r.pc = "creating" /\ r.op = call[c].op /\ r.home = call[c].home
      /\ r.listed = answered /\ r.since = Len(boxes)
  BY <1>1 DEF Calls, Places
<1>3. call'[c] = r
  BY DEF SkillsInv, SkillsTyped
<1>4. Known(c)
  BY DEF SkillsInv
<1>5. \A a : Gone(a)' <=> Gone(a)
  BY DEF Gone
<1>6. Known(c)'
  BY <1>1, <1>2, <1>3, <1>4, <1>5 DEF Known
<1> QED
  BY <1>2, <1>6, CallOnward DEF SkillsInv, SkillsTyped

LEMMA ListedStep ==
    ASSUME SkillsInv, NEW c \in Callers, SessionsListed(c) PROVE SkillsInv'
<1>1. DOMAIN boxes = 1 .. Len(boxes) /\ Len(boxes) \in Nat /\ call[c] \in Calls
  BY DEF SkillsInv, SkillsTyped
<1>2. CASE Reusable = {}
  <2>1. \A a \in 1 .. Len(boxes) : Gone(a)
    BY <1>1, <1>2 DEF Reusable, Gone
  <2>2. call' = [call EXCEPT ![c] = [call[c] EXCEPT !.pc = "creating", !.listed = TRUE,
                                                    !.since = Len(boxes)]]
    BY <1>2 DEF SessionsListed
  <2>3. boxes' = boxes /\ homes' = homes
    BY DEF SessionsListed
  <2> QED
    BY <2>1, <2>2, <2>3, Creating
<1>3. CASE Reusable # {}
  <2>1. Reusable \in SUBSET (1 .. Len(boxes))
    BY <1>1 DEF Reusable
  <2>2. Best \in Reusable /\ \A b \in Reusable : Best >= b
    BY <1>1, <1>3, <2>1, Greatest DEF Best
  <2>3. ASSUME call[c].op = "poll" PROVE Best >= call[c].home \/ Gone(call[c].home)
    <3>1. call[c].home \in DOMAIN boxes
      BY <2>3 DEF SkillsInv, Known
    <3> QED
      BY <2>2, <3>1 DEF Reusable, Gone
  <2>4. Found(c, Best, boxes[Best].status) /\ boxes' = boxes /\ homes' = homes
    BY <1>3 DEF SessionsListed
  <2> QED
    BY <1>1, <2>1, <2>2, <2>3, <2>4, Contacts
<1> QED
  BY <1>2, <1>3

LEMMA ListingFailsStep ==
    ASSUME SkillsInv, NEW c \in Callers, ListingFails(c) PROVE SkillsInv'
<1>1. call[c] \in Calls /\ ~ call[c].listed
  BY DEF SkillsInv, SkillsTyped, Known, ListingFails
<1>2. [call[c] EXCEPT !.pc = "creating", !.listed = FALSE, !.since = Len(boxes)]
      = [call[c] EXCEPT !.pc = "creating", !.since = Len(boxes)]
  BY <1>1 DEF Calls
<1>3. call' = [call EXCEPT ![c] = [call[c] EXCEPT !.pc = "creating", !.listed = FALSE,
                                                  !.since = Len(boxes)]]
  BY <1>2 DEF ListingFails
<1> QED
  BY <1>3, Creating DEF ListingFails

\* A sandbox more, made by a call: what is known of the others stays true.
LEMMA OneMore ==
    ASSUME SkillsInv, NEW c \in Callers, NEW status \in {"creating", "ready"},
           call[c].pc = "creating", SessionMade(c, status)
    PROVE  /\ boxes' \in Seq(Boxes) /\ Len(boxes) \in Nat /\ Len(boxes') = Len(boxes) + 1
           /\ DOMAIN boxes = 1 .. Len(boxes) /\ DOMAIN boxes' = 1 .. (Len(boxes) + 1)
           /\ \A b \in DOMAIN boxes : boxes'[b] = boxes[b] /\ (Gone(b)' <=> Gone(b))
           /\ boxes'[Len(boxes) + 1]
                 = [status |-> status, since |-> call[c].since, listed |-> call[c].listed]
<1> DEFINE box == [status |-> status, since |-> call[c].since, listed |-> call[c].listed]
<1>1. call[c] \in Calls /\ boxes \in Seq(Boxes)
  BY DEF SkillsInv, SkillsTyped
<1>2. box \in Boxes
  BY <1>1 DEF Calls, Boxes
<1>3. boxes' = Append(boxes, box)
  BY DEF SessionMade
<1> HIDE DEF box
<1>4. \A b \in DOMAIN boxes : Append(boxes, box)[b] = boxes[b]
  BY <1>1, <1>2
<1> QED
  BY <1>1, <1>2, <1>3, <1>4 DEF Gone, box

LEMMA Made ==
    ASSUME SkillsInv, NEW c \in Callers, NEW status \in {"creating", "ready"},
           call[c].pc = "creating", SessionMade(c, status), homes' = homes,
           NEW r \in Calls, call' = [call EXCEPT ![c] = r], Known(c)'
    PROVE  SkillsInv'
<1> DEFINE n == Len(boxes)
           box == [status |-> status, since |-> call[c].since, listed |-> call[c].listed]
<1>1. /\ boxes' \in Seq(Boxes) /\ Len(boxes') = n + 1 /\ n \in Nat
      /\ \A b \in DOMAIN boxes : boxes'[b] = boxes[b] /\ (Gone(b)' <=> Gone(b))
      /\ boxes'[n + 1] = box
      /\ DOMAIN boxes = 1 .. n /\ DOMAIN boxes' = 1 .. (n + 1)
  BY OneMore
<1>2. Known(c) /\ call[c] \in Calls
  BY DEF SkillsInv, SkillsTyped
<1>3. ASSUME NEW d \in Callers PROVE Known(d)'
  <2>1. CASE d = c
    BY <2>1
  <2>2. CASE d # c
    <3>1. call'[d] = call[d] /\ Known(d) /\ call[d] \in Calls
      BY <2>2 DEF SkillsInv, SkillsTyped
    <3>2. call[d].since \in Nat
      BY <3>1 DEF Calls
    <3> QED
      BY <1>1, <3>1, <3>2 DEF Known
  <2> QED
    BY <2>1, <2>2
<1>4. ASSUME NEW b \in DOMAIN boxes', boxes'[b].listed
      PROVE  boxes'[b].since < b /\ \A a \in 1 .. boxes'[b].since : Gone(a)'
  <2>1. CASE b = n + 1
    <3>1. call[c].since \in Nat /\ boxes'[b].since = call[c].since /\ call[c].listed
      BY <1>1, <1>2, <1>4, <2>1 DEF Calls
    <3>2. call[c].since <= n /\ \A a \in 1 .. call[c].since : Gone(a)
      BY <1>2, <3>1 DEF Known
    <3>3. ASSUME NEW a \in 1 .. call[c].since PROVE Gone(a)'
      <4>1. a \in 1 .. n /\ Gone(a)
        BY <1>1, <3>1, <3>2
      <4> QED
        BY <1>1, <4>1
    <3> QED
      BY <1>1, <2>1, <3>1, <3>2, <3>3
  <2>2. CASE b # n + 1
    <3>1. b \in DOMAIN boxes /\ boxes'[b] = boxes[b]
      BY <1>1, <2>2
    <3>2. b \in DOMAIN boxes /\ boxes'[b] = boxes[b] /\ boxes[b].since \in Nat
      BY <3>1, SinceTyped
    <3>3. boxes[b].since < b /\ \A a \in 1 .. boxes[b].since : Gone(a)
      BY <1>4, <3>2 DEF SkillsInv
    <3> QED
      BY <1>1, <3>2, <3>3
  <2> QED
    BY <2>1, <2>2
<1>5. SkillsTyped'
  BY <1>1 DEF SkillsInv, SkillsTyped
<1> QED
  BY <1>3, <1>4, <1>5 DEF SkillsInv

LEMMA CreatedStep ==
    ASSUME SkillsInv, NEW c \in Callers, SessionCreated(c) PROVE SkillsInv'
<1> DEFINE n == Len(boxes)
<1>1. PICK status \in {"creating", "ready"} :
          SessionMade(c, status) /\ Found(c, n + 1, status)
  BY DEF SessionCreated
<1>2. call[c].pc = "creating" /\ homes' = homes /\ call[c] \in Calls /\ Known(c)
      /\ DOMAIN boxes = 1 .. n /\ n \in Nat
  BY DEF SessionCreated, SkillsInv, SkillsTyped
<1>3. PICK p \in {"readying", "sending", "fetching"} :
          /\ call' = MoveTo(call, c, p, n + 1)
          /\ call[c].op = "poll" => p # "sending"
  <2>1. CASE status = "ready"
    BY <1>1, <2>1 DEF Found, Contact, MoveTo
  <2>2. CASE status # "ready"
    BY <1>1, <2>2 DEF Found, MoveTo
  <2> QED
    BY <2>1, <2>2
<1>4. PICK r \in Calls :
          /\ call' = [call EXCEPT ![c] = r]
          /\ r.pc = p /\ r.box = n + 1 /\ r.op = call[c].op /\ r.home = call[c].home
  <2>1. call \in [Callers -> Calls]
    BY <1>2 DEF SkillsInv, SkillsTyped
  <2>2. PICK k \in Nat : k = n + 1
    BY <1>2
  <2>3. \E r \in Calls :
          /\ MoveTo(call, c, p, k) = [call EXCEPT ![c] = r]
          /\ r.pc = p /\ r.box = k /\ r.op = call[c].op /\ r.home = call[c].home
    BY <2>1, Moved
  <2> QED
    BY <1>3, <2>2, <2>3
<1>5. call \in [Callers -> Calls]
  BY DEF SkillsInv, SkillsTyped
<1>6. call'[c] = r
  BY <1>4, <1>5
<1>7. n + 1 \in DOMAIN boxes' /\ DOMAIN boxes \subseteq DOMAIN boxes'
  <2>1. DOMAIN boxes' = 1 .. (Len(boxes) + 1)
    BY <1>1, <1>2, OneMore
  <2> QED
    BY <1>2, <2>1
<1>8. r.op = "poll" => r.home \in DOMAIN boxes /\ n + 1 >= r.home
  BY <1>2, <1>4 DEF Known
<1>9. Known(c)'
  BY <1>3, <1>4, <1>6, <1>7, <1>8 DEF Known
<1> QED
  BY <1>1, <1>2, <1>4, <1>9, Made

LEMMA UnheardStep ==
    ASSUME SkillsInv, NEW c \in Callers, CreatedUnheard(c) PROVE SkillsInv'
<1>1. NoCall \in Calls /\ call' = [call EXCEPT ![c] = NoCall]
  BY DEF NoCall, Calls, Places, Returned, CreatedUnheard
<1>2. call'[c] = NoCall
  BY <1>1 DEF SkillsInv, SkillsTyped
<1>3. Known(c)'
  BY <1>2 DEF Known, NoCall
<1> QED
  BY <1>1, <1>3, Made DEF CreatedUnheard

LEMMA ReadyStep ==
    ASSUME SkillsInv, NEW c \in Callers, SessionReady(c) PROVE SkillsInv'
<1> DEFINE b == call[c].box
<1>1. call[c].pc = "readying" /\ b \in DOMAIN boxes /\ boxes' = boxes /\ homes' = homes
      /\ homes' \subseteq DOMAIN boxes
  BY DEF SessionReady, SkillsInv, SkillsTyped, Known
<1>2. CASE boxes[b].status = "ready" /\ Contact(c, b)
  <2>1. call[c].op = "poll" => b >= call[c].home \/ Gone(call[c].home)
    BY <1>1 DEF SkillsInv, Known
  <2> QED
    BY <1>1, <1>2, <2>1, Contacts DEF Found
<1>3. CASE Returned(c)
  BY <1>1, <1>3, Returns
<1>4. (boxes[b].status = "ready" /\ Contact(c, b)) \/ Returned(c)
  BY DEF SessionReady
<1> QED
  BY <1>2, <1>3, <1>4

LEMMA CallEndStep ==
    ASSUME SkillsInv, NEW c \in Callers, RequestFails(c) \/ TimesOut(c) PROVE SkillsInv'
<1>1. Returned(c) /\ boxes' = boxes /\ homes' \subseteq DOMAIN boxes
  BY DEF RequestFails, TimesOut, SkillsInv, SkillsTyped
<1> QED
  BY <1>1, Returns

LEMMA SentStep ==
    ASSUME SkillsInv, NEW c \in Callers, MessageSent(c) \/ TaskFetched(c) PROVE SkillsInv'
<1> DEFINE b == call[c].box
<1>1. /\ call[c].pc \in {"sending", "fetching"} /\ b \in DOMAIN boxes /\ boxes' = boxes
      /\ homes \subseteq DOMAIN boxes
  BY DEF MessageSent, TaskFetched, SkillsInv, SkillsTyped, Known
<1>2. CASE Returned(c) /\ homes' = homes \cup {b}
  BY <1>1, <1>2, Returns
<1>3. CASE /\ call[c].op = "execute" /\ homes' = homes
           /\ call' = [call EXCEPT ![c].pc = "fetching", ![c].late = FALSE, ![c].home = b]
  <2> DEFINE r == [call[c] EXCEPT !.pc = "fetching", !.late = FALSE, !.home = b]
  <2>1. call[c] \in Calls /\ DOMAIN boxes = 1 .. Len(boxes)
    BY DEF SkillsInv, SkillsTyped
  <2>2. r \in Calls /\ r.pc = "fetching" /\ r.box = b /\ r.op = "execute"
    BY <1>1, <1>3, <2>1 DEF Calls, Places
  <2>3. call' = [call EXCEPT ![c] = r]
    BY <1>3
  <2> HIDE DEF r
  <2>4. call'[c] = r
    BY <2>3 DEF SkillsInv, SkillsTyped
  <2>5. Known(c)'
    BY <1>1, <2>2, <2>4 DEF Known
  <2> QED
    BY <1>1, <1>3, <2>2, <2>3, <2>5, CallOnward
<1>4. \/ Returned(c) /\ homes' = homes \cup {b}
      \/ /\ call[c].op = "execute" /\ homes' = homes
         /\ call' = [call EXCEPT ![c].pc = "fetching", ![c].late = FALSE, ![c].home = b]
  BY DEF MessageSent, TaskFetched
<1> QED
  BY <1>2, <1>3, <1>4

LEMMA LateStep ==
    ASSUME SkillsInv, NEW c \in Callers, DeadlinePasses(c) PROVE SkillsInv'
<1> DEFINE r == [call[c] EXCEPT !.late = TRUE]
<1>1. call[c] \in Calls /\ Known(c) /\ homes \subseteq DOMAIN boxes
  BY DEF SkillsInv, SkillsTyped
<1>2. /\ r \in Calls /\ r.pc = call[c].pc /\ r.box = call[c].box /\ r.op = call[c].op
      /\ r.home = call[c].home /\ r.since = call[c].since /\ r.listed = call[c].listed
  BY <1>1 DEF Calls
<1>3. call' = [call EXCEPT ![c] = r] /\ boxes' = boxes /\ homes' = homes
  BY DEF DeadlinePasses
<1> HIDE DEF r
<1>4. call'[c] = r
  BY <1>3 DEF SkillsInv, SkillsTyped
<1>5. \A a : Gone(a)' <=> Gone(a)
  BY <1>3 DEF Gone
<1>6. Known(c)'
  BY <1>1, <1>2, <1>3, <1>4, <1>5 DEF Known
<1> QED
  BY <1>1, <1>2, <1>3, <1>6, CallOnward

\* A sandbox gets ready or ends; one that has ended does not get ready.
LEMMA BoxStep ==
    ASSUME SkillsInv, NEW b \in DOMAIN boxes, BoxReady(b) \/ BoxTerminates(b)
    PROVE  SkillsInv'
<1>1. PICK s \in {"ready", "terminated"} :
          boxes' = [boxes EXCEPT ![b].status = s] /\ ~ Gone(b)
  BY DEF BoxReady, BoxTerminates, Gone
<1>2. boxes \in Seq(Boxes) /\ boxes[b] \in Boxes
  BY DEF SkillsInv, SkillsTyped
<1>3. [boxes[b] EXCEPT !.status = s] \in Boxes
  BY <1>2 DEF Boxes
<1>4. boxes' \in Seq(Boxes) /\ DOMAIN boxes' = DOMAIN boxes /\ Len(boxes') = Len(boxes)
  BY <1>1, <1>2, <1>3
<1>5. \A x \in DOMAIN boxes :
          boxes'[x].since = boxes[x].since /\ boxes'[x].listed = boxes[x].listed
  BY <1>1, <1>2 DEF Boxes
<1>6. \A x \in DOMAIN boxes : Gone(x) => Gone(x)'
  BY <1>1, <1>2 DEF Gone, Boxes
<1>7. DOMAIN boxes = 1 .. Len(boxes) /\ Len(boxes) \in Nat
  BY <1>2
<1>8. call' = call /\ homes' = homes
  BY DEF BoxReady, BoxTerminates
<1>9. ASSUME NEW c \in Callers PROVE Known(c)'
  <2>1. Known(c) /\ call[c] \in Calls
    BY DEF SkillsInv, SkillsTyped
  <2>2. call[c].since \in Nat
    BY <2>1 DEF Calls
  <2>3. call'[c] = call[c] /\ Len(boxes') = Len(boxes)
    BY <1>4, <1>8
  <2>4. call[c].pc = "creating" => 
          /\ call[c].since <= Len(boxes)
          /\ call[c].listed => \A a \in 1 .. call[c].since : Gone(a)'
    <3> SUFFICES ASSUME call[c].pc = "creating"
                 PROVE  /\ call[c].since <= Len(boxes)
                        /\ call[c].listed => \A a \in 1 .. call[c].since : Gone(a)'
      OBVIOUS
    <3>1. call[c].since <= Len(boxes) /\ (call[c].listed => \A a \in 1 .. call[c].since : Gone(a))
      BY <2>1 DEF Known
    <3>2. \A a \in 1 .. call[c].since : a \in DOMAIN boxes
      BY <1>7, <2>2, <3>1
    <3> QED
      BY <1>6, <3>1, <3>2
  <2> QED
    BY <1>4, <1>6, <2>1, <2>3, <2>4 DEF Known
<1>10. ASSUME NEW x \in DOMAIN boxes', boxes'[x].listed
       PROVE  boxes'[x].since < x /\ \A a \in 1 .. boxes'[x].since : Gone(a)'
  <2>1. x \in DOMAIN boxes /\ boxes[x].since \in Nat
    BY <1>4, SinceTyped
  <2>2. boxes[x].since < x /\ \A a \in 1 .. boxes[x].since : Gone(a)
    BY <1>5, <1>10, <2>1 DEF SkillsInv
  <2> QED
    BY <1>5, <1>6, <1>7, <2>1, <2>2
<1> QED
  BY <1>4, <1>8, <1>9, <1>10 DEF SkillsInv, SkillsTyped

LEMMA SkillsStep == SkillsInv /\ [SkillsNext]_skillVars => SkillsInv'
<1> SUFFICES ASSUME SkillsInv, [SkillsNext]_skillVars PROVE SkillsInv'
  OBVIOUS
<1>1. ASSUME NEW c \in Callers, CallStep(c) PROVE SkillsInv'
  BY <1>1, ListedStep, CreatedStep, CallEndStep DEF CallStep
<1>2. CASE UNCHANGED skillVars
  <2>1. boxes' = boxes /\ homes' = homes /\ call' = call
    BY <1>2 DEF skillVars
  <2> QED
    BY <2>1 DEF SkillsInv, SkillsTyped, Known, Gone
<1> QED
  BY <1>1, <1>2, StartStep, ListingFailsStep, UnheardStep, ReadyStep, CallEndStep, SentStep, LateStep,
     BoxStep DEF SkillsNext

\* A second sandbox beside a live one was made after a listing that failed or
\* that was answered before the first was made, and poll_skill asks an older
\* sandbox than its task's only when that one has ended
\* (ensureAgentkitSessionEndpoint).
THEOREM SandboxesHaveCauses == SkillsSpec => []SandboxHasCause
<1>1. SkillsIdle => SkillsInv
  <2> SUFFICES ASSUME SkillsIdle PROVE SkillsInv
    OBVIOUS
  <2>1. boxes = <<>> /\ DOMAIN boxes = {} /\ homes = {}
        /\ call = [c \in Callers |-> NoCall]
    BY DEF SkillsIdle
  <2>2. NoCall \in Calls
    BY DEF NoCall, Calls, Places
  <2>3. \A c \in Callers : Known(c)
    BY <2>1 DEF Known, NoCall
  <2> QED
    BY <2>1, <2>2, <2>3 DEF SkillsInv, SkillsTyped
<1> QED
  BY <1>1, SkillsStep, CausesImplied, PTL DEF SkillsSpec

(***************************************************************************)
(* SkillFiles: what a call answers with was in the file                    *)
(***************************************************************************)

Codes == {"ok", "MISSING_SKILL_NAME", "MISSING_RESOURCE_PATH", "MISSING_SCRIPT_PATH",
          "SKILL_NOT_FOUND", "SKILL_LOAD_FAILED", "SKILL_LOAD_CANCELED",
          "INVALID_RESOURCE_PATH", "RESOURCE_NOT_FOUND", "EXECUTION_ERROR",
          "SCRIPT_NOT_LOADED", "SCRIPT_NOT_FOUND", "NO_CODE_EXECUTOR",
          "RESOURCE_READ_ERROR", "INVALID_RESOURCE_TYPE", "RESOURCE_TOO_LARGE",
          "RESOURCE_CHANGED", "RESOURCE_READ_CANCELED"}

Stages == {"stat", "open", "opened", "read", "end"}

Readers == [pc : Stages \cup {"answered"}, code : Codes,
            tool : {"load_skill", "load_skill_resource", "run_skill_script"},
            since : Nat, file : Nat, size : Nat, mtime : Nat, data : Seq(Nat)]

Files == [chunks : Seq(Nat), mtime : Nat, regular : BOOLEAN]

\* The reader has the file's chunks up to where it has come.
Prefix(data, chunks) ==
    Len(data) <= Len(chunks) /\ \A i \in 1 .. Len(data) : data[i] = chunks[i]

\* What a call knows while it reads.
ReaderOK(r) ==
    /\ r.since <= edits
    /\ r.pc \in {"stat", "open"} /\ path = NoFile => seen.missing
    /\ r.pc \in {"open", "opened", "read", "end"} => r.file \in DOMAIN files
    /\ r.pc = "open" => path = r.file \/ edits > r.since
    /\ r.pc \in {"opened", "read", "end"} => files[r.file].chunks \in seen.contents
    /\ r.pc \in {"stat", "open", "opened"} => r.data = <<>>
    /\ r.pc \in {"read", "end"} =>
          LET f == files[r.file]
          IN  /\ r.mtime <= f.mtime
              /\ edits > r.since \/ (f.mtime = r.mtime /\ Len(f.chunks) = r.size)
              /\ f.mtime = r.mtime /\ ~ seen.coarse =>
                    /\ Prefix(r.data, f.chunks)
                    /\ r.pc = "end" => r.data = f.chunks
    /\ r.pc = "answered" /\ r.file # NoFile =>
          /\ r.code = "ok" => r.data \in seen.contents \/ seen.coarse
          /\ r.code = "RESOURCE_CHANGED" => edits > r.since
          /\ r.code = "RESOURCE_NOT_FOUND" => seen.missing

Sightings == [contents : SUBSET Seq(Nat), missing : BOOLEAN, coarse : BOOLEAN]

FilesTyped ==
    /\ clock \in Nat /\ edits \in Nat
    /\ files \in Seq(Files) /\ path \in {NoFile} \cup DOMAIN files
    /\ \A f \in DOMAIN files : files[f].mtime <= clock
    /\ seen \in Sightings

FilesInv == FilesTyped /\ (reader = Idle \/ (reader \in Readers /\ ReaderOK(reader)))

LEMMA ResourcesImplied == FilesInv => ResourceAnswers
BY DEF FilesInv, ReaderOK, ResourceAnswers, Idle

\* What the call does changes nothing but itself, and perhaps what was seen.
LEMMA ReaderGoes ==
    ASSUME FilesInv, NEW r \in Readers, reader' = r, UNCHANGED <<files, path, clock, edits>>,
           seen' \in Sightings,
           ReaderOK(r)'
    PROVE  FilesInv'
BY DEF FilesInv, FilesTyped

\* The call answers.
LEMMA Answered ==
    ASSUME FilesInv, reader.pc \in Stages, NEW code \in Codes, Answer(code),
           UNCHANGED <<files, path, clock, edits>>, UNCHANGED seen,
           reader.file # NoFile =>
              /\ code = "ok" => reader.data \in seen.contents \/ seen.coarse
              /\ code = "RESOURCE_CHANGED" => edits > reader.since
              /\ code = "RESOURCE_NOT_FOUND" => seen.missing
    PROVE  FilesInv'
<1>1. PICK r : r = [reader EXCEPT !.pc = "answered", !.code = code]
  OBVIOUS
<1>2. reader \in Readers /\ ReaderOK(reader)
  BY DEF FilesInv, Idle, Stages
<1>3. /\ r \in Readers /\ r.pc = "answered" /\ r.code = code /\ r.file = reader.file
      /\ r.data = reader.data /\ r.since = reader.since
  BY <1>2, <1>1 DEF Readers
<1>4. reader' = r
  BY <1>1 DEF Answer, Becomes
<1>5. ReaderOK(r)'
  BY <1>2, <1>3 DEF ReaderOK, Stages
<1>6. seen' \in Sightings
  BY DEF FilesInv, FilesTyped
<1> QED
  BY <1>3, <1>4, <1>5, <1>6, ReaderGoes

\* The call goes on reading: what it knew, and what it knows now.
LEMMA StatStep == FilesInv /\ StatPath => FilesInv'
<1> SUFFICES ASSUME FilesInv, StatPath PROVE FilesInv'
  OBVIOUS
<1>1. reader \in Readers /\ ReaderOK(reader) /\ reader.pc = "stat"
  BY DEF FilesInv, Idle, StatPath
<1>2. UNCHANGED <<files, path, clock, edits>> /\ UNCHANGED seen
  BY DEF StatPath, World
<1>3. ASSUME Becomes([reader EXCEPT !.pc = "open", !.file = path]), path # NoFile
      PROVE  FilesInv'
  <2>1. PICK r : r = [reader EXCEPT !.pc = "open", !.file = path]
  OBVIOUS
  <2>2. path \in DOMAIN files /\ path \in Nat
    BY <1>3 DEF FilesInv, FilesTyped
  <2>3. /\ r \in Readers /\ r.pc = "open" /\ r.file = path /\ r.since = reader.since
        /\ r.data = reader.data
    BY <1>1, <2>2, <2>1 DEF Readers, Stages
  <2>4. reader' = r
    BY <1>3, <2>1 DEF Becomes
  <2>5. ReaderOK(r)'
    BY <1>1, <1>2, <1>3, <2>2, <2>3 DEF ReaderOK
  <2>6. seen' \in Sightings
    BY <1>2 DEF FilesInv, FilesTyped
  <2> QED
    BY <1>2, <2>3, <2>4, <2>5, <2>6, ReaderGoes
<1>4. ASSUME NEW code \in {"RESOURCE_NOT_FOUND", "RESOURCE_READ_ERROR", "INVALID_RESOURCE_TYPE",
                           "RESOURCE_TOO_LARGE"},
             Answer(code), code = "RESOURCE_NOT_FOUND" => path = NoFile
      PROVE  FilesInv'
  <2>1. code = "RESOURCE_NOT_FOUND" => seen.missing
    BY <1>1, <1>4 DEF ReaderOK
  <2> QED
    BY <1>1, <1>2, <1>4, <2>1, Answered DEF Codes, Stages
<1> QED
  BY <1>3, <1>4 DEF StatPath

LEMMA OpenStep == FilesInv /\ OpenPath => FilesInv'
<1> SUFFICES ASSUME FilesInv, OpenPath PROVE FilesInv'
  OBVIOUS
<1>1. reader \in Readers /\ ReaderOK(reader) /\ reader.pc = "open"
  BY DEF FilesInv, Idle, OpenPath
<1>2. UNCHANGED <<files, path, clock, edits>>
  BY DEF OpenPath, World
<1>3. ASSUME NEW code \in {"RESOURCE_NOT_FOUND", "INVALID_RESOURCE_TYPE", "RESOURCE_CHANGED"},
             Answer(code), UNCHANGED seen,
             code = "RESOURCE_NOT_FOUND" => path = NoFile,
             code = "RESOURCE_CHANGED" => path # reader.file
      PROVE  FilesInv'
  <2>1. code = "RESOURCE_NOT_FOUND" => seen.missing
    BY <1>1, <1>3 DEF ReaderOK
  <2>2. code = "RESOURCE_CHANGED" => edits > reader.since
    BY <1>1, <1>3 DEF ReaderOK
  <2> QED
    BY <1>1, <1>2, <1>3, <2>1, <2>2, Answered DEF Codes, Stages
<1>4. ASSUME path # NoFile, path = reader.file, Becomes([reader EXCEPT !.pc = "opened"]),
             seen' = [seen EXCEPT !.contents = {files[path].chunks}]
      PROVE  FilesInv'
  <2>1. PICK r : r = [reader EXCEPT !.pc = "opened"]
  OBVIOUS
  <2>2. path \in DOMAIN files /\ files[path] \in Files
    BY <1>4 DEF FilesInv, FilesTyped
  <2>3. files[path].chunks \in Seq(Nat)
    BY <2>2 DEF Files
  <2>4. /\ r \in Readers /\ r.pc = "opened" /\ r.file = path /\ r.since = reader.since
        /\ r.data = reader.data
    BY <1>1, <1>4, <2>1 DEF Readers, Stages
  <2>5. reader' = r
    BY <1>4, <2>1 DEF Becomes
  <2>6. /\ seen' \in Sightings
        /\ seen'.contents = {files[path].chunks}
    <3>1. seen \in Sightings /\ {files[path].chunks} \in SUBSET Seq(Nat)
      BY <2>3 DEF FilesInv, FilesTyped
    <3> QED
      BY <1>4, <3>1 DEF Sightings
  <2>7. ReaderOK(r)'
    BY <1>1, <1>2, <2>2, <2>4, <2>6 DEF ReaderOK
  <2> QED
    BY <1>2, <2>4, <2>5, <2>6, <2>7, ReaderGoes
<1> QED
  BY <1>3, <1>4 DEF OpenPath

LEMMA OpenedStep == FilesInv /\ StatOpened => FilesInv'
<1> SUFFICES ASSUME FilesInv, StatOpened PROVE FilesInv'
  OBVIOUS
<1>1. reader \in Readers /\ ReaderOK(reader) /\ reader.pc = "opened"
  BY DEF FilesInv, Idle, StatOpened
<1> DEFINE f == files[reader.file]
<1>2. UNCHANGED <<files, path, clock, edits>> /\ seen' = seen /\ seen \in Sightings
  BY DEF StatOpened, World, FilesInv, FilesTyped
<1>3. reader.file \in DOMAIN files /\ f \in Files
  BY <1>1 DEF FilesInv, FilesTyped, ReaderOK
<1>4. Len(f.chunks) \in Nat /\ f.mtime \in Nat /\ f.chunks \in Seq(Nat)
  BY <1>3 DEF Files
<1>5. PICK r : r = [reader EXCEPT !.pc = "read", !.size = Len(f.chunks), !.mtime = f.mtime]
  OBVIOUS
<1>6. /\ r \in Readers /\ r.pc = "read" /\ r.file = reader.file /\ r.since = reader.since
      /\ r.data = reader.data /\ r.size = Len(f.chunks) /\ r.mtime = f.mtime
  BY <1>1, <1>4, <1>5 DEF Readers, Stages
<1>7. reader' = r
  BY <1>5 DEF StatOpened, Becomes
<1>8. r.data = <<>> /\ Prefix(r.data, f.chunks)
  BY <1>1, <1>4, <1>6 DEF ReaderOK, Prefix
<1>9. ReaderOK(r)'
  BY <1>1, <1>2, <1>3, <1>4, <1>6, <1>8 DEF ReaderOK, Prefix
<1> QED
  BY <1>2, <1>6, <1>7, <1>9, ReaderGoes

LEMMA ReadStep == FilesInv /\ ReadChunk => FilesInv'
<1> SUFFICES ASSUME FilesInv, ReadChunk PROVE FilesInv'
  OBVIOUS
<1>1. reader \in Readers /\ ReaderOK(reader) /\ reader.pc = "read"
  BY DEF FilesInv, Idle, ReadChunk
<1> DEFINE f == files[reader.file]
           upcoming == Len(reader.data) + 1
<1>2. UNCHANGED <<files, path, clock, edits>> /\ seen' = seen /\ seen \in Sightings
  BY DEF ReadChunk, World, FilesInv, FilesTyped
<1>3. reader.file \in DOMAIN files /\ f \in Files
  BY <1>1 DEF FilesInv, FilesTyped, ReaderOK
<1>4. f.mtime \in Nat /\ f.chunks \in Seq(Nat) /\ reader.data \in Seq(Nat) /\ upcoming \in Nat
  BY <1>1, <1>3 DEF Files, Readers
<1>5. f.mtime = reader.mtime /\ ~ seen.coarse => Prefix(reader.data, f.chunks)
  BY <1>1 DEF ReaderOK
<1>6. ASSUME upcoming > Len(f.chunks), Becomes([reader EXCEPT !.pc = "end"]) PROVE FilesInv'
  <2>1. PICK r : r = [reader EXCEPT !.pc = "end"]
    OBVIOUS
  <2>2. /\ r \in Readers /\ r.pc = "end" /\ r.file = reader.file /\ r.since = reader.since
        /\ r.data = reader.data /\ r.size = reader.size /\ r.mtime = reader.mtime
    BY <1>1, <2>1 DEF Readers, Stages
  <2>3. reader' = r
    BY <1>6, <2>1 DEF Becomes
  <2>4. Prefix(r.data, f.chunks) => r.data = f.chunks
    <3>1. r.data = reader.data
      BY <2>2
    <3>2. ASSUME Prefix(reader.data, f.chunks) PROVE reader.data = f.chunks
      <4>1. Len(reader.data) \in Nat /\ Len(f.chunks) \in Nat
        BY <1>4, LenProperties
      <4>2. /\ Len(reader.data) <= Len(f.chunks)
            /\ \A i \in 1 .. Len(reader.data) : reader.data[i] = f.chunks[i]
        BY <3>2 DEF Prefix
      <4>3. Len(reader.data) = Len(f.chunks)
        BY <1>6, <4>1, <4>2
      <4> QED
        BY <1>4, <4>2, <4>3, SeqEqual
    <3> QED
      BY <3>1, <3>2
  <2>5. ReaderOK(r)'
    BY <1>1, <1>2, <1>3, <1>5, <2>2, <2>4 DEF ReaderOK, Prefix
  <2> QED
    BY <1>2, <2>2, <2>3, <2>5, ReaderGoes
<1>7. ASSUME ~ (upcoming > Len(f.chunks)),
             Becomes([reader EXCEPT !.data = Append(@, f.chunks[upcoming])]) PROVE FilesInv'
  <2>1. PICK r : r = [reader EXCEPT !.data = Append(@, f.chunks[upcoming])]
    OBVIOUS
  <2>2. upcoming \in 1 .. Len(f.chunks) /\ f.chunks[upcoming] \in Nat
    <3>1. Len(reader.data) \in Nat /\ Len(f.chunks) \in Nat
      BY <1>4, LenProperties
    <3>2. upcoming \in 1 .. Len(f.chunks)
      BY <1>7, <3>1
    <3> QED
      BY <1>4, <3>2, ElementOfSeq
  <2>3. Append(reader.data, f.chunks[upcoming]) \in Seq(Nat)
    BY <1>4, <2>2
  <2>4. /\ r \in Readers /\ r.pc = "read" /\ r.file = reader.file /\ r.since = reader.since
        /\ r.data = Append(reader.data, f.chunks[upcoming])
        /\ r.size = reader.size /\ r.mtime = reader.mtime
    BY <1>1, <2>1, <2>3 DEF Readers, Stages
  <2>5. reader' = r
    BY <1>7, <2>1 DEF Becomes
  <2>6. Prefix(reader.data, f.chunks) => Prefix(r.data, f.chunks)
    <3>1. ASSUME Prefix(reader.data, f.chunks)
          PROVE  Prefix(Append(reader.data, f.chunks[upcoming]), f.chunks)
      BY <1>4, <2>2, <3>1 DEF Prefix
    <3> QED
      BY <2>4, <3>1
  <2>7. ReaderOK(r)'
    BY <1>1, <1>2, <1>3, <1>5, <2>4, <2>6 DEF ReaderOK, Prefix
  <2> QED
    BY <1>2, <2>4, <2>5, <2>7, ReaderGoes
<1>8. ASSUME Answer("RESOURCE_TOO_LARGE") PROVE FilesInv'
  BY <1>1, <1>2, <1>8, Answered DEF Codes, Stages
<1> QED
  BY <1>6, <1>7, <1>8 DEF ReadChunk

LEMMA ReadEndStep == FilesInv /\ (StatRead \/ CancelRead \/ ReadFails) => FilesInv'
<1> SUFFICES ASSUME FilesInv, StatRead \/ CancelRead \/ ReadFails PROVE FilesInv'
  OBVIOUS
<1>1. reader \in Readers /\ ReaderOK(reader) /\ reader.pc \in {"open", "opened", "read", "end"}
  BY DEF FilesInv, Idle, StatRead, CancelRead, ReadFails
<1> DEFINE f == files[reader.file]
<1>2. UNCHANGED <<files, path, clock, edits>> /\ UNCHANGED seen
  BY DEF StatRead, CancelRead, ReadFails, World
<1>3. CASE CancelRead \/ ReadFails
  BY <1>1, <1>2, <1>3, Answered DEF CancelRead, ReadFails, Codes, Stages
<1>4. CASE StatRead /\ (Len(f.chunks) # reader.size \/ f.mtime # reader.mtime)
  <2>1. edits > reader.since
    BY <1>1, <1>4 DEF ReaderOK, StatRead
  <2>2. Answer("RESOURCE_CHANGED")
    BY <1>4 DEF StatRead
  <2> QED
    BY <1>1, <1>2, <2>1, <2>2, Answered DEF Codes, Stages
<1>5. CASE StatRead /\ ~ (Len(f.chunks) # reader.size \/ f.mtime # reader.mtime)
  <2>1. reader.data \in seen.contents \/ seen.coarse
    BY <1>1, <1>5 DEF ReaderOK, StatRead
  <2>2. Answer("ok")
    BY <1>5 DEF StatRead
  <2> QED
    BY <1>1, <1>2, <2>1, <2>2, Answered DEF Codes, Stages
<1> QED
  BY <1>3, <1>4, <1>5

LEMMA EndsStep == FilesInv /\ CallEnds => FilesInv'
<1> SUFFICES ASSUME FilesInv, CallEnds PROVE FilesInv'
  OBVIOUS
<1>1. UNCHANGED <<files, path, clock, edits>> /\ seen' = Unseen /\ reader' = Idle
  BY DEF CallEnds, World, Becomes
<1>2. Unseen \in Sightings
  BY DEF Unseen, Sightings
<1> QED
  BY <1>1, <1>2 DEF FilesInv, FilesTyped

LEMMA ToolCallStep == FilesInv /\ CallTool => FilesInv'
<1> SUFFICES ASSUME FilesInv, CallTool PROVE FilesInv'
  OBVIOUS
<1>1. UNCHANGED <<files, path, clock, edits>>
  BY DEF CallTool, World
<1>2. seen' \in Sightings /\ seen'.missing = (path = NoFile)
  BY DEF CallTool, Unseen, Sightings
<1>3. PICK named \in {"load_skill", "load_skill_resource", "run_skill_script"},
           code \in Codes, pc \in {"answered", "stat"} :
         reader' = [pc |-> pc, code |-> code, tool |-> named, since |-> edits,
                    file |-> NoFile, size |-> 0, mtime |-> 0, data |-> <<>>]
  <2> DEFINE Handled(made, found) ==
            LET begun == [pc |-> "answered", code |-> "ok", tool |-> made.tool,
                          since |-> edits, file |-> NoFile, size |-> 0, mtime |-> 0, data |-> <<>>]
                refusal == IF found = "ok" THEN Refusal(made) ELSE found
             IN  \/ refusal # "ok" /\ Becomes([begun EXCEPT !.code = refusal])
                 \/ /\ refusal = "ok" /\ made.tool = "load_skill"
                    /\ Becomes(begun)
                 \/ /\ refusal = "ok" /\ made.tool = "run_skill_script"
                    /\ \E code \in RunScript : Becomes([begun EXCEPT !.code = code])
                 \/ /\ refusal = "ok" /\ made.tool = "load_skill_resource"
                    /\ toolset.origin = "memory"
                    /\ Becomes([begun EXCEPT !.code = ReadInMemory(made)])
                 \/ /\ refusal = "ok" /\ made.tool = "load_skill_resource"
                    /\ toolset.origin # "memory"
                    /\ Becomes(IF made.path = "outside"
                               THEN [begun EXCEPT !.code = "INVALID_RESOURCE_PATH"]
                               ELSE [begun EXCEPT !.pc = "stat"])
  <2>1. PICK made \in [tool : ToolNames, name : {"", "known", "unknown"},
                       path : {"", "outside", "loose", "resource"}] :
          \E found \in Resolve(made.name) : Handled(made, found)
    BY DEF CallTool
  <2>2. PICK found \in Resolve(made.name) : Handled(made, found)
    BY <2>1
  <2>3. made.tool \in {"load_skill", "load_skill_resource", "run_skill_script"}
    BY DEF ToolNames
  <2>4. /\ found \in Codes /\ Refusal(made) \in Codes /\ RunScript \subseteq Codes
        /\ ReadInMemory(made) \in Codes
    <3>1. Refusal(made) \in Codes
      BY DEF Refusal, Codes
    <3>2. ReadInMemory(made) \in Codes
      BY DEF ReadInMemory, Codes
    <3>3. RunScript \subseteq Codes
      BY DEF RunScript, Codes
    <3>4. found \in {"ok", "SKILL_LOAD_FAILED", "SKILL_LOAD_CANCELED"}
      BY <2>2 DEF Resolve
    <3> QED
      BY <3>1, <3>2, <3>3, <3>4 DEF Codes
  <2>5. "ok" \in Codes /\ "INVALID_RESOURCE_PATH" \in Codes
    BY DEF Codes
  <2> QED
    BY <2>2, <2>3, <2>4, <2>5 DEF Becomes
<1>4. PICK r : r = [pc |-> pc, code |-> code, tool |-> named, since |-> edits,
                    file |-> NoFile, size |-> 0, mtime |-> 0, data |-> <<>>]
  OBVIOUS
<1>5. /\ r \in Readers /\ r.pc = pc /\ r.file = NoFile /\ r.since = edits /\ r.data = <<>>
  <2>1. edits \in Nat /\ <<>> \in Seq(Nat)
    BY DEF FilesInv, FilesTyped
  <2> QED
    BY <1>4, <2>1 DEF Readers, Stages, NoFile
<1>6. ReaderOK(r)'
  <2>1. edits \in Nat /\ r.since <= edits
    BY <1>5 DEF FilesInv, FilesTyped
  <2>2. path' = NoFile => seen'.missing
    BY <1>1, <1>2
  <2>3. r.pc \notin {"open", "opened", "read", "end"}
    BY <1>5
  <2> QED
    BY <1>1, <1>2, <1>5, <2>1, <2>2, <2>3 DEF ReaderOK
<1>7. reader' = r /\ seen' \in Sightings
  BY <1>2, <1>3, <1>4
<1> QED
  BY <1>1, <1>5, <1>6, <1>7, ReaderGoes

\* Somebody edits a file, or what the path leads to.
LEMMA Disturbed ==
    ASSUME FilesInv, Reading, edits' = edits + 1, reader' = reader, FilesTyped',
           DOMAIN files \subseteq DOMAIN files', path' = NoFile => path = NoFile \/ seen'.missing,
           seen.missing => seen'.missing,
           ASSUME NEW f \in DOMAIN files, IsOpen(f)
           PROVE  /\ files'[f].chunks \in seen'.contents
                  /\ reader.pc # "opened" /\ reader.mtime <= files[f].mtime =>
                        /\ reader.mtime <= files'[f].mtime
                        /\ files'[f].mtime = reader.mtime /\ ~ seen'.coarse =>
                              /\ files[f].mtime = reader.mtime /\ ~ seen.coarse
                              /\ files'[f].chunks = files[f].chunks
    PROVE  FilesInv'
<1>1. reader \in Readers /\ ReaderOK(reader) /\ reader.pc \in Stages
  BY DEF FilesInv, Reading, Idle, Stages
<1>2. edits \in Nat /\ reader.since \in Nat
  BY <1>1 DEF FilesInv, FilesTyped, Readers
<1>3. edits' > reader.since /\ reader.since <= edits'
  BY <1>1, <1>2 DEF ReaderOK
<1>4. PICK r : r = reader
  OBVIOUS
<1>5. r.pc \in {"opened", "read", "end"} => IsOpen(r.file)
  BY <1>4 DEF IsOpen
<1>6. r \in Readers /\ ReaderOK(r) /\ r.pc \in Stages /\ edits' > r.since /\ r.since <= edits'
  BY <1>1, <1>3, <1>4
<1>7. r.pc \in {"opened", "read", "end"} => files'[r.file].chunks \in seen'.contents
  BY <1>5, <1>6 DEF ReaderOK
<1>8. ASSUME r.pc \in {"read", "end"}
      PROVE  /\ r.mtime <= files'[r.file].mtime
             /\ files'[r.file].mtime = r.mtime /\ ~ seen'.coarse =>
                   /\ files[r.file].mtime = r.mtime /\ ~ seen.coarse
                   /\ files'[r.file].chunks = files[r.file].chunks
  <2>1. r.file \in DOMAIN files /\ r.mtime <= files[r.file].mtime
    BY <1>6, <1>8 DEF ReaderOK
  <2> QED
    BY <1>4, <1>5, <1>8, <2>1
<1>9. ASSUME r.pc \in {"read", "end"}, files'[r.file].mtime = r.mtime, ~ seen'.coarse
      PROVE  /\ Prefix(r.data, files'[r.file].chunks)
             /\ r.pc = "end" => r.data = files'[r.file].chunks
  BY <1>6, <1>8, <1>9 DEF ReaderOK
<1>10. ReaderOK(r)'
  BY <1>6, <1>7, <1>8, <1>9 DEF ReaderOK, Stages, Prefix
<1> QED
  BY <1>4, <1>6, <1>10 DEF FilesInv

LEMMA ReplaceStep ==
    ASSUME FilesInv, Reading, edits' = edits + 1, Replace, clock' = clock, reader' = reader
    PROVE  FilesInv'
<1>1. /\ files \in Seq(Files) /\ edits \in Nat /\ clock \in Nat /\ seen \in Sightings
      /\ \A f \in DOMAIN files : files[f].mtime <= clock
  BY DEF FilesInv, FilesTyped
<1>2. PICK isFile \in BOOLEAN :
         files' = Append(files, [chunks |-> <<edits + 1, edits + 1>>, mtime |-> clock,
                                 regular |-> isFile])
  BY DEF Replace
<1>3. PICK new : new = [chunks |-> <<edits + 1, edits + 1>>, mtime |-> clock, regular |-> isFile]
  OBVIOUS
<1>4. new \in Files /\ new.mtime = clock
  BY <1>1, <1>3 DEF Files
<1>5. /\ files' \in Seq(Files) /\ Len(files') = Len(files) + 1 /\ Len(files) \in Nat
      /\ DOMAIN files = 1 .. Len(files) /\ DOMAIN files' = 1 .. Len(files')
      /\ \A f \in DOMAIN files : files'[f] = files[f]
      /\ files'[Len(files) + 1] = new
  BY <1>1, <1>2, <1>3, <1>4
<1>6. path' = Len(files') /\ seen' = seen
  BY DEF Replace
<1>7. \A f \in DOMAIN files' : files'[f].mtime <= clock
  <2>1. ASSUME NEW f \in DOMAIN files', f # Len(files) + 1 PROVE f \in DOMAIN files
    BY <1>5, <2>1
  <2>2. ASSUME NEW f \in DOMAIN files' PROVE files'[f].mtime <= clock
    <3>1. CASE f = Len(files) + 1
      <4>1. files'[f] = new
        BY <1>5, <3>1
      <4>2. clock <= clock
        BY <1>1
      <4> QED
        BY <1>4, <4>1, <4>2
    <3>2. CASE f # Len(files) + 1
      BY <1>1, <1>5, <2>1, <3>2
    <3> QED
      BY <3>1, <3>2
  <2> QED
    BY <2>2
<1>8. FilesTyped'
  BY <1>1, <1>5, <1>6, <1>7 DEF FilesTyped
<1>9. path' # NoFile
  BY <1>5, <1>6 DEF NoFile
<1>10. ASSUME NEW f \in DOMAIN files, IsOpen(f) PROVE files'[f].chunks \in seen'.contents
  <2>1. files'[f] = files[f]
    BY <1>5
  <2>2. files[f].chunks \in seen.contents
    BY <1>10 DEF FilesInv, ReaderOK, IsOpen, Idle
  <2> QED
    BY <1>6, <2>1, <2>2
<1>11. DOMAIN files \subseteq DOMAIN files'
  BY <1>5
<1> QED
  BY <1>5, <1>6, <1>8, <1>9, <1>10, <1>11, Disturbed

LEMMA UnlinkStep ==
    ASSUME FilesInv, Reading, edits' = edits + 1, Unlink, clock' = clock, reader' = reader
    PROVE  FilesInv'
<1>1. /\ files' = files /\ path' = NoFile /\ edits \in Nat /\ seen \in Sightings
      /\ seen' = [seen EXCEPT !.missing = seen.missing \/ Reading]
  BY DEF FilesInv, FilesTyped, Unlink
<1>2. seen.missing \/ Reading
  OBVIOUS
<1>3. /\ seen' \in Sightings /\ seen'.missing /\ seen'.contents = seen.contents
      /\ seen'.coarse = seen.coarse
  <2>1. seen' = [seen EXCEPT !.missing = TRUE]
    BY <1>1, <1>2
  <2> QED
    BY <1>1, <2>1 DEF Sightings
<1>4. FilesTyped'
  BY <1>1, <1>3 DEF FilesInv, FilesTyped
<1>5. ASSUME NEW f \in DOMAIN files, IsOpen(f) PROVE files'[f].chunks \in seen'.contents
  BY <1>1, <1>3, <1>5 DEF FilesInv, ReaderOK, IsOpen, Idle
<1> QED
  BY <1>1, <1>3, <1>4, <1>5, Disturbed

LEMMA EditStep ==
    ASSUME FilesInv, Reading, edits' = edits + 1, NEW f \in DOMAIN files, Edit(f),
           clock' = clock, reader' = reader
    PROVE  FilesInv'
<1>1. /\ files \in Seq(Files) /\ edits \in Nat /\ clock \in Nat /\ seen \in Sightings
      /\ \A g \in DOMAIN files : files[g].mtime <= clock
      /\ files[f] \in Files
  BY DEF FilesInv, FilesTyped
<1>2. files[f].chunks \in Seq(Nat)
  BY <1>1 DEF Files
<1>3. PICK c \in Seq(Nat) : Edited(f, c)
  <2>1. CASE \E i \in 1 .. Len(files[f].chunks) :
                Edited(f, [files[f].chunks EXCEPT ![i] = edits + 1])
    <3>1. PICK i \in 1 .. Len(files[f].chunks) :
                Edited(f, [files[f].chunks EXCEPT ![i] = edits + 1])
      BY <2>1
    <3>2. [files[f].chunks EXCEPT ![i] = edits + 1] \in Seq(Nat)
      BY <1>1, <1>2, ExceptSeq
    <3> QED
      BY <3>1, <3>2
  <2>2. CASE Edited(f, Append(files[f].chunks, edits + 1))
    <3>1. Append(files[f].chunks, edits + 1) \in Seq(Nat)
      BY <1>1, <1>2
    <3> QED
      BY <2>2, <3>1
  <2>3. CASE Edited(f, <<>>)
    <3>1. <<>> \in Seq(Nat)
      OBVIOUS
    <3> QED
      BY <2>3, <3>1
  <2> QED
    BY <2>1, <2>2, <2>3 DEF Edit
<1>4. PICK new : new = [chunks |-> c, mtime |-> clock, regular |-> TRUE]
  OBVIOUS
<1>5. new \in Files /\ new.mtime = clock /\ new.chunks = c
  BY <1>1, <1>4 DEF Files
<1>6. /\ files' \in Seq(Files) /\ DOMAIN files' = DOMAIN files /\ files'[f] = new
      /\ \A g \in DOMAIN files : g # f => files'[g] = files[g]
  BY <1>1, <1>3, <1>4, <1>5, ExceptSeq DEF Edited
<1>7. path' = path
  BY <1>3 DEF Edited
<1>8. /\ seen' \in Sightings /\ (seen'.missing <=> seen.missing)
      /\ seen.contents \subseteq seen'.contents
      /\ IsOpen(f) => c \in seen'.contents
                      /\ (reader.pc # "opened" /\ clock = reader.mtime => seen'.coarse)
      /\ seen.coarse => seen'.coarse
  <2>1. CASE IsOpen(f)
    <3> DEFINE hides == seen.coarse \/ (reader.pc # "opened" /\ clock = reader.mtime)
    <3>1. seen' = [seen EXCEPT !.contents = seen.contents \cup {c}, !.coarse = hides]
      BY <1>3, <2>1 DEF Edited
    <3>2. hides \in BOOLEAN /\ seen.contents \cup {c} \in SUBSET Seq(Nat)
      BY <1>1 DEF Sightings
    <3>3. seen' \in Sightings /\ seen'.missing = seen.missing /\ seen'.coarse = hides
          /\ seen'.contents = seen.contents \cup {c}
      <4> HIDE DEF hides
      <4> QED
        BY <1>1, <3>1, <3>2 DEF Sightings
    <3> QED
      BY <3>3
  <2>2. CASE ~ IsOpen(f)
    BY <1>1, <1>3, <2>2 DEF Edited
  <2> QED
    BY <2>1, <2>2
<1>9. FilesTyped'
  <2>1. \A g \in DOMAIN files' : files'[g].mtime <= clock
    BY <1>1, <1>5, <1>6
  <2> QED
    BY <1>1, <1>6, <1>7, <1>8, <2>1 DEF FilesTyped, FilesInv
<1>10. ASSUME NEW g \in DOMAIN files, IsOpen(g)
      PROVE  /\ files'[g].chunks \in seen'.contents
             /\ reader.pc # "opened" /\ reader.mtime <= files[g].mtime =>
                   /\ reader.mtime <= files'[g].mtime
                   /\ files'[g].mtime = reader.mtime /\ ~ seen'.coarse =>
                         /\ files[g].mtime = reader.mtime /\ ~ seen.coarse
                         /\ files'[g].chunks = files[g].chunks
  <2>1. CASE g = f
    <3>1. files[f].mtime \in Nat /\ files[f].mtime <= clock /\ reader.mtime \in Nat
      BY <1>1, <1>10 DEF Files, FilesInv, Readers, IsOpen, Idle
    <3> QED
      BY <1>1, <1>5, <1>6, <1>8, <1>10, <2>1, <3>1
  <2>2. CASE g # f
    <3>1. files[g].chunks \in seen.contents
      BY <1>10 DEF FilesInv, ReaderOK, IsOpen, Idle
    <3> QED
      BY <1>6, <1>8, <2>2, <3>1
  <2> QED
    BY <2>1, <2>2
<1> QED
  BY <1>6, <1>7, <1>8, <1>9, <1>10, Disturbed

LEMMA TickStep == FilesInv /\ Tick => FilesInv'
<1> SUFFICES ASSUME FilesInv, Tick PROVE FilesInv'
  OBVIOUS
<1>1. UNCHANGED <<files, path, edits, reader, seen>> /\ clock' = clock + 1 /\ clock \in Nat
  BY DEF Tick, FilesInv, FilesTyped
<1>2. \A f \in DOMAIN files : files[f].mtime <= clock + 1
  <2>1. ASSUME NEW f \in DOMAIN files PROVE files[f].mtime <= clock + 1
    <3>1. files[f] \in Files /\ files[f].mtime <= clock
      BY DEF FilesInv, FilesTyped
    <3>2. files[f].mtime \in Nat
      BY <3>1 DEF Files
    <3> QED
      BY <1>1, <3>1, <3>2
  <2> QED
    BY <2>1
<1>3. FilesTyped'
  BY <1>1, <1>2 DEF FilesInv, FilesTyped
<1>4. PICK r : r = reader
  OBVIOUS
<1>5. ReaderOK(r) => ReaderOK(r)'
  BY <1>1 DEF ReaderOK
<1> QED
  BY <1>1, <1>3, <1>4, <1>5 DEF FilesInv

LEMMA FilesStep == FilesInv /\ [FilesNext]_fileVars => FilesInv'
<1> SUFFICES ASSUME FilesInv, [FilesNext]_fileVars PROVE FilesInv'
  OBVIOUS
<1>1. CASE Disturb
  BY <1>1, ReplaceStep, UnlinkStep, EditStep DEF Disturb
<1>2. CASE UNCHANGED fileVars
  <2>1. UNCHANGED <<files, path, clock, edits, reader, seen>>
    BY <1>2 DEF fileVars
  <2>2. PICK r : r = reader
    OBVIOUS
  <2>3. ReaderOK(r) => ReaderOK(r)'
    BY <2>1 DEF ReaderOK
  <2> QED
    BY <2>1, <2>2, <2>3 DEF FilesInv, FilesTyped
<1> QED
  BY <1>1, <1>2, TickStep, ToolCallStep, StatStep, OpenStep, OpenedStep, ReadStep, ReadEndStep, EndsStep
     DEF FilesNext

\* What load_skill_resource returns was the whole file at one moment of the
\* call, unless the file was written within one clock tick; it says that the
\* file changed, or is missing, only if it was so since the call began.
THEOREM ResourcesAreRead == FilesSpec => []ResourceAnswers
<1>1. FilesInit => FilesInv
  <2> SUFFICES ASSUME FilesInit PROVE FilesInv
    OBVIOUS
  <2>1. PICK first : first = [chunks |-> <<0, 0>>, mtime |-> 0, regular |-> TRUE]
    OBVIOUS
  <2>2. first \in Files /\ first.mtime = 0 /\ files = <<first>>
    BY <2>1 DEF FilesInit, Files
  <2>3. files \in Seq(Files) /\ DOMAIN files = {1} /\ files[1] = first
    BY <2>2
  <2>4. seen \in Sightings
    BY DEF FilesInit, Unseen, Sightings
  <2> QED
    BY <2>2, <2>3, <2>4 DEF FilesInit, FilesInv, FilesTyped
<1> QED
  BY <1>1, FilesStep, ResourcesImplied, PTL DEF FilesSpec

(***************************************************************************)
(* Knowledge: what was acknowledged is kept, and found                     *)
(***************************************************************************)

\* Induction over the numbers, with a set of the good ones in place of a predicate.
LEMMA Induction ==
    ASSUME NEW Good, 0 \in Good, \A n \in Nat : n \in Good => n + 1 \in Good
    PROVE  Nat \subseteq Good
<1> DEFINE Bad == Nat \ Good
<1> SUFFICES ASSUME Bad # {} PROVE FALSE
  OBVIOUS
<1>1. PICK n \in Bad : \A m \in Bad : ~ (<<m, n>> \in OpToRel(<, Nat))
  BY WFMin, NatLessThanWellFounded
<1>2. n - 1 \in Nat \ Good
  OBVIOUS
<1>3. <<n - 1, n>> \in OpToRel(<, Nat)
  BY <1>2 DEF OpToRel
<1> QED
  BY <1>1, <1>2, <1>3

\* The recursion by which Filtered filters, over the first n documents.
Taken(docs, S, h, n) ==
    IF n = 0 THEN <<>>
    ELSE IF docs[n] \in S THEN Append(h[n - 1], docs[n]) ELSE h[n - 1]
TakeStep(docs, S, m, h) == [n \in 0 .. m |-> Taken(docs, S, h, n)]
TakeIter(docs, S) == CHOOSE h : h = TakeStep(docs, S, Len(docs), h)

\* The elements of a sequence, by its places.
LEMMA ToSetIs ==
    ASSUME NEW D, NEW s \in Seq(D)
    PROVE  ToSet(s) = {s[i] : i \in 1 .. Len(s)}
BY DEF ToSet

\* What Append and Tail do to the elements of a sequence.
LEMMA Appended ==
    ASSUME NEW D, NEW s \in Seq(D), NEW d \in D
    PROVE  ToSet(Append(s, d)) = ToSet(s) \cup {d}
<1>1. ToSet(Append(s, d)) = {Append(s, d)[i] : i \in 1 .. (Len(s) + 1)}
  BY DEF ToSet
<1>2. ToSet(s) = {s[i] : i \in 1 .. Len(s)}
  BY DEF ToSet
<1>3. \A i \in 1 .. Len(s) : Append(s, d)[i] = s[i]
  OBVIOUS
<1>4. Append(s, d)[Len(s) + 1] = d /\ Len(s) \in Nat
  OBVIOUS
<1>5. \A i \in 1 .. (Len(s) + 1) : i \in 1 .. Len(s) \/ i = Len(s) + 1
  BY <1>4
<1>6. ASSUME NEW x \in ToSet(Append(s, d)) PROVE x \in ToSet(s) \cup {d}
  BY <1>1, <1>2, <1>3, <1>4, <1>5
<1>7. ASSUME NEW x \in ToSet(s) \cup {d} PROVE x \in ToSet(Append(s, d))
  <2>1. CASE x \in ToSet(s)
    <3>1. PICK i \in 1 .. Len(s) : x = s[i]
      BY <1>2, <2>1
    <3>2. i \in 1 .. (Len(s) + 1) /\ x = Append(s, d)[i]
      BY <1>3, <1>4, <3>1
    <3> QED
      BY <1>1, <3>2
  <2>2. CASE x = d
    BY <1>1, <1>4, <2>2
  <2> QED
    BY <2>1, <2>2
<1>8. \A x : x \in ToSet(Append(s, d)) <=> x \in ToSet(s) \cup {d}
  BY <1>6, <1>7
<1> QED
  BY <1>8, Zenon

LEMMA Tailed ==
    ASSUME NEW D, NEW s \in Seq(D) \ {<<>>}
    PROVE  Tail(s) \in Seq(D) /\ ToSet(s) = {Head(s)} \cup ToSet(Tail(s)) /\ Head(s) \in D
<1>1. Tail(s) \in Seq(D) /\ Len(Tail(s)) = Len(s) - 1 /\ Len(s) \in Nat \ {0}
  OBVIOUS
<1>2. \A i \in 1 .. (Len(s) - 1) : Tail(s)[i] = s[i + 1]
  OBVIOUS
<1>3. Head(s) = s[1] /\ Head(s) \in D
  OBVIOUS
<1>4. ToSet(s) = {s[i] : i \in 1 .. Len(s)} /\ ToSet(Tail(s)) = {Tail(s)[i] : i \in 1 .. (Len(s) - 1)}
  BY <1>1, ToSetIs
<1>5. ASSUME NEW i \in 1 .. Len(s) PROVE s[i] = s[1] \/ s[i] \in ToSet(Tail(s))
  <2>1. i = 1 \/ (i - 1 \in 1 .. (Len(s) - 1) /\ Tail(s)[i - 1] = s[i])
    BY <1>1, <1>2
  <2> QED
    BY <1>4, <2>1
<1>6. ASSUME NEW i \in 1 .. (Len(s) - 1) PROVE Tail(s)[i] \in ToSet(s)
  BY <1>1, <1>2, <1>4
<1> QED
  BY <1>1, <1>3, <1>4, <1>5, <1>6

LEMMA FilterUnfold ==
    ASSUME NEW docs, NEW S
    PROVE  Filtered(docs, S) = TakeIter(docs, S)[Len(docs)]
BY DEF Filtered, TakeIter, TakeStep, Taken

\* There is a function that satisfies it.
LEMMA TakeExists ==
    ASSUME NEW docs, NEW S, NEW m \in Nat
    PROVE  \E h : h = TakeStep(docs, S, m, h)
<1> DEFINE Good == {n \in Nat : \E h : h = TakeStep(docs, S, n, h)}
<1>1. 0 \in Good
  <2> DEFINE h == [n \in 0 .. 0 |-> <<>>]
  <2>1. h = TakeStep(docs, S, 0, h)
    BY DEF TakeStep, Taken
  <2> QED
    BY <2>1
<1>2. ASSUME NEW n \in Nat, n \in Good PROVE n + 1 \in Good
  <2>1. PICK h : h = TakeStep(docs, S, n, h)
    BY <1>2
  <2> DEFINE k == TakeStep(docs, S, n + 1, h)
  <2>2. ASSUME NEW i \in 0 .. n PROVE k[i] = h[i]
    <3>1. h[i] = Taken(docs, S, h, i)
      BY <2>1 DEF TakeStep
    <3>2. k[i] = Taken(docs, S, h, i)
      BY DEF TakeStep
    <3> QED
      BY <3>1, <3>2
  <2> HIDE DEF k
  <2>3. ASSUME NEW i \in 0 .. (n + 1) PROVE Taken(docs, S, h, i) = Taken(docs, S, k, i)
    BY <2>2 DEF Taken
  <2>4. k = TakeStep(docs, S, n + 1, k)
    BY <2>3 DEF k, TakeStep
  <2>5. \E g : g = TakeStep(docs, S, n + 1, g)
    BY <2>4
  <2> QED
    BY <2>5
<1> HIDE DEF Good
<1>3. Nat \subseteq Good
  BY <1>1, <1>2, Induction
<1> QED
  BY <1>3 DEF Good

\* What Filtered returns has the documents of the list that are in S, and no other.
LEMMA FilterRule ==
    ASSUME NEW D, NEW docs \in Seq(D), NEW S
    PROVE  /\ Filtered(docs, S) \in Seq(D)
           /\ ToSet(Filtered(docs, S)) = ToSet(docs) \cap S
<1> DEFINE h == TakeIter(docs, S)
           Right(n) == h[n] \in Seq(D) /\ ToSet(h[n]) = {docs[i] : i \in 1 .. n} \cap S
           Good == {n \in Nat : n <= Len(docs) => Right(n)}
<1>0. Len(docs) \in Nat /\ \A i \in 1 .. Len(docs) : docs[i] \in D
  OBVIOUS
<1>1. h = TakeStep(docs, S, Len(docs), h)
  BY <1>0, TakeExists DEF TakeIter
<1> HIDE DEF h
<1>2. \A n \in 0 .. Len(docs) : h[n] = Taken(docs, S, h, n)
  <2> SUFFICES ASSUME NEW n \in 0 .. Len(docs) PROVE h[n] = Taken(docs, S, h, n)
    OBVIOUS
  <2>1. h[n] = TakeStep(docs, S, Len(docs), h)[n]
    BY <1>1
  <2> QED
    BY <2>1 DEF TakeStep
<1>3. 0 \in Good
  <2>1. h[0] = <<>>
    BY <1>0, <1>2 DEF Taken
  <2>2. ToSet(<<>>) = {} /\ <<>> \in Seq(D) /\ {docs[i] : i \in 1 .. 0} = {}
    BY DEF ToSet
  <2> QED
    BY <2>1, <2>2
<1>4. ASSUME NEW n \in Nat, n \in Good PROVE n + 1 \in Good
  <2> SUFFICES ASSUME n + 1 <= Len(docs) PROVE Right(n + 1)
    OBVIOUS
  <2>1. Right(n)
    BY <1>0, <1>4
  <2>2. h[n + 1] = IF docs[n + 1] \in S THEN Append(h[n], docs[n + 1]) ELSE h[n]
    BY <1>0, <1>2 DEF Taken
  <2>3. {docs[i] : i \in 1 .. (n + 1)} = {docs[i] : i \in 1 .. n} \cup {docs[n + 1]}
    OBVIOUS
  <2>4. docs[n + 1] \in D
    BY <1>0
  <2>5. CASE docs[n + 1] \in S
    <3>1. h[n + 1] = Append(h[n], docs[n + 1])
      BY <2>2, <2>5
    <3>2. h[n + 1] \in Seq(D)
      BY <2>1, <2>4, <3>1
    <3>3. ToSet(h[n + 1]) = ToSet(h[n]) \cup {docs[n + 1]}
      BY <2>1, <2>4, <3>1, Appended
    <3> QED
      BY <2>1, <2>3, <2>5, <3>2, <3>3
  <2>6. CASE docs[n + 1] \notin S
    BY <2>1, <2>2, <2>3, <2>6
  <2> QED
    BY <2>5, <2>6
<1>5. Nat \subseteq Good
  <2> HIDE DEF Good
  <2> QED
    BY <1>3, <1>4, Induction
<1> HIDE DEF Right
<1>6. Right(Len(docs))
  BY <1>0, <1>5
<1> USE DEF Right
<1>7. ToSet(docs) = {docs[i] : i \in 1 .. Len(docs)}
  BY ToSetIs
<1>8. Filtered(docs, S) = h[Len(docs)]
  BY FilterUnfold DEF h
<1> HIDE DEF h
<1> DEFINE e == h[Len(docs)]
<1>9. e \in Seq(D) /\ ToSet(e) = {docs[i] : i \in 1 .. Len(docs)} \cap S
  BY <1>6
<1> HIDE DEF e
<1>10. ToSet(e) = ToSet(docs) \cap S
  BY <1>7, <1>9
<1>11. Filtered(docs, S) = e
  BY <1>8 DEF e
<1> QED
  BY <1>9, <1>10, <1>11

Keys == {NoKey} \cup {<<"text", n>> : n \in Nat} \cup {<<"file", FileKey[d]>> : d \in Documents}
Asks == [doc : Documents, key : Keys]

\* The two kinds of add, and a search.
Wholes == {"index", "embed", "store"}
Singles == {"key", "bucket", "create", "put", "register"}
Adds == [pc : Wholes \cup Singles, source : {"any", "text", "file"}, todo : Seq(Documents) \ {<<>>},
         asked : SUBSET Asks, right : [Documents -> BOOLEAN], key : Keys]

\* It is stored or on its way, or there is an excuse.
Settled(a) ==
    \/ a.doc \in Stored \cup excused.documents
    \/ a.key \in registered /\ objects[a.key] = a.doc
    \/ a.key \in excused.keys

\* What an add has promised is settled, or to be stored by it; and what it has
\* put into the object store is still there, or was overwritten.
AddOK(q) ==
    /\ \A a \in q.asked : Settled(a) \/ (q.pc \in Wholes /\ a.doc \in ToSet(q.todo))
    /\ q.pc = "register" =>
          /\ q.key \in DOMAIN objects
          /\ objects[q.key] = Head(q.todo) \/ q.key \in excused.keys

Searching(q) == "pc" \in DOMAIN q /\ q.pc \in {"search", "found"}

UseOK(q) == q = NoUse \/ Searching(q) \/ (q \in Adds /\ AddOK(q))

StoreTyped ==
    /\ entries \in Seq([doc : Documents, vector : BOOLEAN])
    /\ millis \in Nat
    /\ DOMAIN objects \subseteq Keys /\ \A k \in DOMAIN objects : objects[k] \in Documents
    /\ registered \subseteq DOMAIN objects
    /\ excused \in [documents : SUBSET Documents, keys : SUBSET Keys]

KeptInv ==
    /\ StoreTyped
    /\ kept \subseteq Asks /\ \A a \in kept : Settled(a)
    /\ DOMAIN use = Users /\ \A u \in Users : UseOK(use[u])

LEMMA KeptImplied == KeptInv => KnowledgeKept
BY DEF KeptInv, KnowledgeKept, Settled

\* What is settled stays so: what is there does not go, and a document that is
\* overwritten or read by Viking is excused or stored.
Onward ==
    /\ Stored \subseteq Stored'
    /\ excused.documents \subseteq excused'.documents /\ excused.keys \subseteq excused'.keys
    /\ \A k \in DOMAIN objects :
          /\ k \in DOMAIN objects'
          /\ objects'[k] = objects[k] \/ k \in excused'.keys
          /\ k \in registered => k \in registered' \/ objects[k] \in Stored'

LEMMA Stays ==
    ASSUME StoreTyped, Onward, NEW a, Settled(a)
    PROVE  Settled(a)'
BY DEF StoreTyped, Onward, Settled

LEMMA AddStays ==
    ASSUME StoreTyped, Onward, NEW q, UseOK(q)
    PROVE  UseOK(q)'
<1>1. CASE q \in Adds /\ AddOK(q)
  <2>1. ASSUME NEW a \in q.asked
        PROVE  Settled(a)' \/ (q.pc \in Wholes /\ a.doc \in ToSet(q.todo))
    BY <1>1, Stays DEF AddOK
  <2>2. ASSUME q.pc = "register"
        PROVE  /\ q.key \in DOMAIN objects'
               /\ objects'[q.key] = Head(q.todo) \/ q.key \in excused'.keys
    BY <1>1, <2>2 DEF AddOK, Onward
  <2> QED
    BY <1>1, <2>1, <2>2 DEF UseOK, AddOK
<1> QED
  BY <1>1 DEF UseOK, Searching

\* One goroutine goes on, from what it was doing to q.
LEMMA UseStep ==
    ASSUME KeptInv, NEW u \in Users, NEW q, use' = [use EXCEPT ![u] = q], Onward, StoreTyped',
           kept' \subseteq Asks, \A a \in kept' : a \in kept \/ Settled(a)',
           UseOK(q)'
    PROVE  KeptInv'
<1>1. ASSUME NEW v \in Users PROVE UseOK(use[v])'
  <2>1. PICK r : r = use[v]
    OBVIOUS
  <2>2. v # u => UseOK(r)' /\ use'[v] = r
    BY <2>1, AddStays DEF KeptInv
  <2>3. v = u => use'[v] = q
    BY DEF KeptInv
  <2> QED
    BY <2>2, <2>3 DEF UseOK, AddOK, Searching
<1>2. \A a \in kept' : Settled(a)'
  BY Stays DEF KeptInv
<1> QED
  BY <1>1, <1>2 DEF KeptInv

\* Nothing in the storage changes.
LEMMA Unmoved ==
    ASSUME KeptInv, UNCHANGED <<entries, objects, registered, excused, millis>>
    PROVE  Onward /\ StoreTyped'
BY DEF KeptInv, StoreTyped, Onward, Stored

\* No goroutine goes on.
LEMMA StandStep ==
    ASSUME KeptInv, UNCHANGED <<use, kept>>, Onward, StoreTyped'
    PROVE  KeptInv'
<1>1. ASSUME NEW v \in Users PROVE UseOK(use[v])'
  <2>1. PICK r : r = use[v]
    OBVIOUS
  <2>2. UseOK(r)' /\ use'[v] = r
    BY <2>1, AddStays DEF KeptInv
  <2> QED
    BY <2>2 DEF UseOK, AddOK, Searching
<1>2. \A a \in kept' : Settled(a)'
  BY Stays DEF KeptInv
<1> QED
  BY <1>1, <1>2 DEF KeptInv

\* A call returns without having added anything new.
LEMMA FailStep ==
    ASSUME KeptInv, NEW u \in Users, Fails(u), Onward, StoreTyped'
    PROVE  KeptInv'
BY UseStep DEF Fails, KeptInv, UseOK

LEMMA SucceedStep ==
    ASSUME KeptInv, NEW u \in Users, use[u] \in Adds, Succeeds(u), Onward, StoreTyped',
           \A a \in use[u].asked : Settled(a)'
    PROVE  KeptInv'
<1>1. kept' \subseteq Asks
  BY DEF Succeeds, KeptInv, Adds
<1>2. UseOK(NoUse)'
  BY DEF UseOK
<1> QED
  BY <1>1, <1>2, UseStep DEF Succeeds

\* Where only an add can be.
LEMMA AddAt ==
    ASSUME KeptInv, NEW u \in Users, NEW p \in Wholes \cup Singles, At(u, p)
    PROVE  use[u] \in Adds /\ AddOK(use[u]) /\ use[u].pc = p
BY DEF KeptInv, UseOK, Searching, NoUse, At, Wholes, Singles

\* What an add has and keeps.
LEMMA AddHas ==
    ASSUME NEW q \in Adds
    PROVE  /\ q.todo \in Seq(Documents) \ {<<>>} /\ Head(q.todo) \in Documents
           /\ ToSet(q.todo) \subseteq Documents
           /\ q.key \in Keys /\ q.asked \subseteq Asks
           /\ q.right \in [Documents -> BOOLEAN]
<1>1. q.todo \in Seq(Documents) \ {<<>>} /\ q.key \in Keys /\ q.asked \subseteq Asks
      /\ q.right \in [Documents -> BOOLEAN]
  BY DEF Adds
<1>2. ToSet(q.todo) = {q.todo[i] : i \in 1 .. Len(q.todo)}
  BY <1>1, ToSetIs
<1>3. \A i \in 1 .. Len(q.todo) : q.todo[i] \in Documents
  BY <1>1
<1> QED
  BY <1>1, <1>2, <1>3, Tailed

\* An add goes on to its next place.
LEMMA GoStep ==
    ASSUME KeptInv, NEW u \in Users, use[u] \in Adds, NEW p, Go(u, p), UNCHANGED kept,
           Onward, StoreTyped',
           \/ p \in Wholes /\ use[u].pc \in Wholes
           \/ p \in Singles /\ use[u].pc \in Singles,
           p = "register" =>
              /\ use[u].key \in DOMAIN objects'
              /\ objects'[use[u].key] = Head(use[u].todo) \/ use[u].key \in excused'.keys
    PROVE  KeptInv'
<1>1. PICK r : r = use[u]
  OBVIOUS
<1>2. PICK q : q = [r EXCEPT !.pc = p]
  OBVIOUS
<1>3. use' = [use EXCEPT ![u] = q]
  BY <1>1, <1>2 DEF Go
<1>4. q \in Adds /\ q.pc = p /\ q.asked = r.asked /\ q.todo = r.todo /\ q.key = r.key
  BY <1>1, <1>2 DEF Adds
<1>5. UseOK(r)'
  BY <1>1, AddStays DEF KeptInv
<1>6. r.pc \in Wholes \cup Singles
  BY <1>1 DEF Adds
<1>7. AddOK(r)'
  BY <1>5, <1>6 DEF UseOK, NoUse, Searching, Wholes, Singles
<1>8. AddOK(q)'
  BY <1>1, <1>4, <1>7 DEF AddOK, Wholes, Singles
<1> QED
  BY <1>3, <1>4, <1>8, UseStep DEF UseOK, KeptInv

LEMMA KeptInit == BaseInit => KeptInv
BY DEF BaseInit, KeptInv, StoreTyped, Nothing, UseOK

\* An add begins, with a list that is not empty.
LEMMA AddingOK ==
    ASSUME NEW pc \in {"index", "embed", "store"}, NEW chosen \in Seq(Documents) \ {<<>>}
    PROVE  LET q == Adding(pc, "any", chosen, Acknowledged(ToSet(chosen)))
           IN  q \in Adds /\ AddOK(q)
<1>1. PICK q : q = Adding(pc, "any", chosen, Acknowledged(ToSet(chosen)))
  OBVIOUS
<1>2. ToSet(chosen) \subseteq Documents
  <2>1. ToSet(chosen) = {chosen[i] : i \in 1 .. Len(chosen)}
    BY ToSetIs
  <2> QED
    BY <2>1
<1>3. Acknowledged(ToSet(chosen)) \subseteq Asks
  BY <1>2 DEF Acknowledged, Asks, Keys
<1>4. q \in Adds
  BY <1>1, <1>3 DEF Adding, Adds, Wholes, Keys
<1>5. q.pc = pc /\ q.asked = Acknowledged(ToSet(chosen)) /\ q.todo = chosen
  BY <1>1 DEF Adding
<1>6. AddOK(q)
  BY <1>5 DEF AddOK, Acknowledged, Wholes
<1> QED
  BY <1>1, <1>4, <1>6

LEMMA BeginOK ==
    ASSUME KeptInv, NEW u \in Users, NEW pc \in {"index", "embed", "store"}, NEW docs \in Lists,
           Begin(u, pc, docs), UNCHANGED <<entries, objects, registered, excused, millis, kept>>
    PROVE  KeptInv'
<1>1. PICK chosen : chosen = Filtered(docs, Documents \ Blank)
  OBVIOUS
<1>2. chosen \in Seq(Documents)
  BY <1>1, FilterRule, KnowledgeAssumption
<1>3. CASE chosen = <<>>
  BY <1>1, <1>3, Unmoved, FailStep DEF Begin, Fails
<1>4. CASE chosen # <<>>
  <2>1. PICK q : q = Adding(pc, "any", chosen, Acknowledged(ToSet(chosen)))
    OBVIOUS
  <2>2. q \in Adds /\ AddOK(q)
    BY <1>2, <1>4, <2>1, AddingOK
  <2>3. use' = [use EXCEPT ![u] = q]
    BY <1>1, <1>4, <2>1 DEF Begin
  <2>4. StoreTyped /\ Onward /\ StoreTyped'
    BY Unmoved DEF KeptInv
  <2>5. UseOK(q)
    BY <2>2 DEF UseOK
  <2>6. UseOK(q)'
    BY <2>4, <2>5, AddStays
  <2> QED
    BY <2>3, <2>4, <2>6, UseStep DEF KeptInv
<1> QED
  BY <1>3, <1>4

LEMMA VikingBegins ==
    ASSUME KeptInv, NEW u \in Users, NEW source \in {"text", "file"}, NEW docs \in Lists,
           use' = [use EXCEPT ![u] = Adding("key", source, docs, {})],
           UNCHANGED <<entries, objects, registered, excused, millis, kept>>
    PROVE  KeptInv'
<1>1. PICK q : q = Adding("key", source, docs, {})
  OBVIOUS
<1>2. q \in Adds
  BY <1>1, KnowledgeAssumption DEF Adding, Adds, Singles, Keys
<1>3. q.pc = "key" /\ q.asked = {}
  BY <1>1 DEF Adding
<1>4. UseOK(q)'
  BY <1>2, <1>3 DEF UseOK, AddOK
<1> QED
  BY <1>1, <1>4, Unmoved, UseStep DEF KeptInv

LEMMA AddOn ==
    ASSUME KeptInv, NEW u \in Users, Add(u)
    PROVE  KeptInv'
<1>1. UNCHANGED <<entries, objects, registered, excused, millis, kept>>
  BY DEF Add
<1>2. PICK docs \in Lists :
          \/ LocalAdd(u, docs) \/ OpenSearchAdd(u, docs) \/ RedisAdd(u, docs)
          \/ VikingAddFromText(u, docs) \/ VikingAddFromFiles(u, docs)
          \/ UNCHANGED use
  BY DEF Add
<1>3. CASE LocalAdd(u, docs) \/ OpenSearchAdd(u, docs) \/ RedisAdd(u, docs)
  <2>1. \E pc \in {"index", "embed", "store"} : Begin(u, pc, docs)
    BY <1>3 DEF LocalAdd, OpenSearchAdd, RedisAdd
  <2> QED
    BY <1>1, <2>1, BeginOK
<1>4. CASE VikingAddFromText(u, docs)
  BY <1>1, <1>4, VikingBegins DEF VikingAddFromText
<1>5. CASE VikingAddFromFiles(u, docs)
  BY <1>1, <1>5, VikingBegins DEF VikingAddFromFiles
<1>6. CASE UNCHANGED use
  BY <1>1, <1>6, Unmoved, StandStep
<1> QED
  BY <1>2, <1>3, <1>4, <1>5, <1>6

LEMMA IndexMade ==
    ASSUME KeptInv, NEW u \in Users, MakeIndex(u)
    PROVE  KeptInv'
<1>1. Onward /\ StoreTyped'
  BY Unmoved DEF MakeIndex
<1>2. use[u] \in Adds /\ use[u].pc \in Wholes
  BY AddAt DEF MakeIndex, Wholes
<1>3. CASE Go(u, "embed") /\ UNCHANGED kept
  BY <1>1, <1>2, <1>3, GoStep DEF Wholes, Singles
<1>4. CASE Fails(u)
  BY <1>1, <1>4, FailStep
<1> QED
  BY <1>3, <1>4 DEF MakeIndex

LEMMA Embedded ==
    ASSUME KeptInv, NEW u \in Users, Embed(u)
    PROVE  KeptInv'
<1>1. StoreTyped /\ Onward /\ StoreTyped'
  BY Unmoved DEF Embed, Storage, KeptInv
<1>2. CASE Fails(u)
  BY <1>1, <1>2, FailStep
<1>3. CASE \E wrong \in {{}, {Head(use[u].todo)}} :
             use' = [use EXCEPT ![u].pc = "store",
                                ![u].right = [d \in Documents |-> d \notin wrong]]
          /\ UNCHANGED kept
  <2>0. PICK wrong \in {{}, {Head(use[u].todo)}} :
          /\ use' = [use EXCEPT ![u].pc = "store",
                                ![u].right = [d \in Documents |-> d \notin wrong]]
          /\ UNCHANGED kept
    BY <1>3
  <2> DEFINE right == [d \in Documents |-> d \notin wrong]
  <2>1. /\ right \in [Documents -> BOOLEAN]
        /\ use' = [use EXCEPT ![u].pc = "store", ![u].right = right]
        /\ UNCHANGED kept
    BY <2>0
  <2> HIDE DEF right
  <2>2. PICK r : r = use[u]
    OBVIOUS
  <2>3. PICK q : q = [r EXCEPT !.pc = "store", !.right = right]
    OBVIOUS
  <2>4. use' = [use EXCEPT ![u] = q]
    BY <2>1, <2>2, <2>3
  <2>5. r \in Adds /\ AddOK(r) /\ r.pc = "embed"
    BY <2>2, AddAt DEF Embed, Wholes
  <2>6. q \in Adds /\ q.pc = "store" /\ q.asked = r.asked /\ q.todo = r.todo
    BY <2>1, <2>3, <2>5 DEF Adds, Wholes
  <2>7. AddOK(q)
    BY <2>5, <2>6 DEF AddOK, Wholes
  <2>8. UseOK(q)'
    BY <1>1, <2>6, <2>7, AddStays DEF UseOK
  <2> QED
    BY <1>1, <2>1, <2>4, <2>8, UseStep DEF KeptInv
<1> QED
  BY <1>2, <1>3 DEF Embed

\* What is stored behind the rest.
LEMMA StoredAll ==
    ASSUME KeptInv, NEW u \in Users, use[u] \in Adds, NEW docs \in Seq(Documents),
           entries' = entries \o EntriesOf(u, docs)
    PROVE  /\ entries' \in Seq([doc : Documents, vector : BOOLEAN])
           /\ Stored \subseteq Stored' /\ ToSet(docs) \subseteq Stored'
<1> DEFINE es == EntriesOf(u, docs)
<1>1. \A d \in Documents : EntryOf(u, d) \in [doc : Documents, vector : BOOLEAN]
                           /\ EntryOf(u, d).doc = d
  BY DEF EntryOf
<1>2. DOMAIN docs = 1 .. Len(docs) /\ Len(docs) \in Nat /\ \A i \in 1 .. Len(docs) : docs[i] \in Documents
  OBVIOUS
<1>3. DOMAIN es = 1 .. Len(docs) /\ \A i \in 1 .. Len(docs) : es[i] = EntryOf(u, docs[i])
  BY <1>2 DEF EntriesOf
<1>4. es \in Seq([doc : Documents, vector : BOOLEAN]) /\ Len(es) = Len(docs)
  <2>1. es \in [1 .. Len(docs) -> [doc : Documents, vector : BOOLEAN]]
    <3>1. es = [i \in 1 .. Len(docs) |-> EntryOf(u, docs[i])]
      BY <1>2 DEF EntriesOf
    <3> HIDE DEF es
    <3> QED
      BY <1>1, <1>2, <3>1
  <2> HIDE DEF es
  <2>2. es \in Seq([doc : Documents, vector : BOOLEAN])
    <3>1. PICK E : E = [doc : Documents, vector : BOOLEAN]
      OBVIOUS
    <3>2. Seq(E) = UNION {[1 .. n -> E] : n \in Nat}
      BY SeqDef
    <3>3. [1 .. Len(docs) -> E] \in {[1 .. n -> E] : n \in Nat}
      BY <1>2
    <3> QED
      BY <2>1, <3>1, <3>2, <3>3, Zenon
  <2>3. 1 .. Len(es) = 1 .. Len(docs) /\ Len(es) \in Nat
    BY <1>3, <2>2
  <2>4. Len(es) = Len(docs)
    <3>1. ASSUME NEW m \in Nat, NEW n \in Nat, 1 .. m = 1 .. n PROVE m <= n
      <4>1. m = 0 \/ m \in 1 .. n
        BY <3>1
      <4> QED
        BY <4>1
    <3> QED
      BY <1>2, <2>3, <3>1
  <2> QED
    BY <2>2, <2>4
<1> HIDE DEF es
<1>5. entries \in Seq([doc : Documents, vector : BOOLEAN]) /\ entries' = entries \o es
  BY DEF KeptInv, StoreTyped, es
<1>6. /\ entries' \in Seq([doc : Documents, vector : BOOLEAN])
      /\ Len(entries') = Len(entries) + Len(docs)
      /\ Len(entries) \in Nat
  BY <1>4, <1>5
<1>7. \A i \in 1 .. Len(entries) : entries'[i] = entries[i]
  BY <1>4, <1>5
<1>8. \A i \in 1 .. Len(docs) : entries'[Len(entries) + i] = es[i]
  BY <1>4, <1>5, <1>2
<1>9. /\ Stored = {entries[i].doc : i \in 1 .. Len(entries)}
      /\ Stored' = {entries'[i].doc : i \in 1 .. Len(entries')}
  <2>1. DOMAIN entries = 1 .. Len(entries) /\ DOMAIN entries' = 1 .. Len(entries')
    BY <1>5, <1>6
  <2> QED
    BY <2>1 DEF Stored
<1>10. Stored \subseteq Stored'
  BY <1>2, <1>6, <1>7, <1>9
<1>11. ToSet(docs) = {docs[i] : i \in 1 .. Len(docs)}
  BY ToSetIs
<1>12. ASSUME NEW i \in 1 .. Len(docs) PROVE docs[i] \in Stored'
  <2>1. Len(entries) + i \in 1 .. Len(entries') /\ entries'[Len(entries) + i].doc = docs[i]
    BY <1>1, <1>2, <1>3, <1>6, <1>8
  <2> QED
    BY <1>9, <2>1
<1> QED
  BY <1>6, <1>10, <1>11, <1>12

\* One document is stored.
LEMMA StoredOne ==
    ASSUME KeptInv, NEW e \in [doc : Documents, vector : BOOLEAN], entries' = Append(entries, e)
    PROVE  /\ entries' \in Seq([doc : Documents, vector : BOOLEAN])
           /\ Stored \subseteq Stored' /\ e.doc \in Stored'
<1>1. entries \in Seq([doc : Documents, vector : BOOLEAN])
  BY DEF KeptInv, StoreTyped
<1>2. /\ entries' \in Seq([doc : Documents, vector : BOOLEAN])
      /\ Len(entries') = Len(entries) + 1 /\ Len(entries) \in Nat
  BY <1>1
<1>3. entries'[Len(entries) + 1] = e /\ \A i \in 1 .. Len(entries) : entries'[i] = entries[i]
  BY <1>1
<1>4. /\ Stored = {entries[i].doc : i \in 1 .. Len(entries)}
      /\ Stored' = {entries'[i].doc : i \in 1 .. Len(entries')}
  BY <1>1, <1>2 DEF Stored
<1> QED
  BY <1>2, <1>3, <1>4

\* The entries grow and the excuses too, and the rest stays.
LEMMA Grown ==
    ASSUME KeptInv, UNCHANGED <<objects, registered, millis>>,
           entries' \in Seq([doc : Documents, vector : BOOLEAN]), Stored \subseteq Stored',
           NEW more \in SUBSET Documents,
           excused' = [excused EXCEPT !.documents = excused.documents \cup more]
    PROVE  Onward /\ StoreTyped' /\ more \subseteq excused'.documents
BY DEF KeptInv, StoreTyped, Onward

LEMMA GrownOnly ==
    ASSUME KeptInv, UNCHANGED <<objects, registered, millis, excused>>,
           entries' \in Seq([doc : Documents, vector : BOOLEAN]), Stored \subseteq Stored'
    PROVE  Onward /\ StoreTyped'
BY DEF KeptInv, StoreTyped, Onward

LEMMA LocalStored ==
    ASSUME KeptInv, NEW u \in Users, LocalStore(u)
    PROVE  KeptInv'
<1>1. use[u] \in Adds /\ AddOK(use[u]) /\ use[u].pc = "store"
  BY AddAt DEF LocalStore, Wholes
<1>2. use[u].todo \in Seq(Documents)
  BY <1>1, AddHas
<1>3. /\ entries' \in Seq([doc : Documents, vector : BOOLEAN])
      /\ Stored \subseteq Stored' /\ ToSet(use[u].todo) \subseteq Stored'
  BY <1>1, <1>2, StoredAll DEF LocalStore
<1>4. StoreTyped /\ Onward /\ StoreTyped'
  BY <1>3, GrownOnly DEF LocalStore, KeptInv
<1>5. ASSUME NEW a \in use[u].asked PROVE Settled(a)'
  <2>1. Settled(a) \/ a.doc \in ToSet(use[u].todo)
    BY <1>1, <1>5 DEF AddOK
  <2>2. CASE Settled(a)
    BY <1>4, <2>2, Stays
  <2>3. CASE a.doc \in ToSet(use[u].todo)
    BY <1>3, <2>3 DEF Settled
  <2> QED
    BY <2>1, <2>2, <2>3
<1> QED
  BY <1>1, <1>4, <1>5, SucceedStep DEF LocalStore

LEMMA BulkStored ==
    ASSUME KeptInv, NEW u \in Users, OpenSearchBulk(u)
    PROVE  KeptInv'
<1>1. use[u] \in Adds /\ AddOK(use[u]) /\ use[u].pc = "store"
  BY AddAt DEF OpenSearchBulk, Wholes
<1>2. use[u].todo \in Seq(Documents) /\ ToSet(use[u].todo) \subseteq Documents
  BY <1>1, AddHas
<1>3. PICK accepted \in SUBSET ToSet(use[u].todo) :
         /\ entries' = entries \o EntriesOf(u, Filtered(use[u].todo, accepted))
         /\ \/ /\ Succeeds(u)
               /\ excused' = [excused EXCEPT
                                 !.documents = @ \cup (ToSet(use[u].todo) \ accepted)]
            \/ Fails(u) /\ UNCHANGED excused
  BY DEF OpenSearchBulk
<1>4. PICK docs : docs = Filtered(use[u].todo, accepted)
  OBVIOUS
<1>5. docs \in Seq(Documents) /\ ToSet(docs) = ToSet(use[u].todo) \cap accepted
  BY <1>2, <1>4, FilterRule
<1>6. /\ entries' \in Seq([doc : Documents, vector : BOOLEAN])
      /\ Stored \subseteq Stored' /\ accepted \subseteq Stored'
  BY <1>1, <1>3, <1>4, <1>5, StoredAll
<1>7. CASE Fails(u) /\ UNCHANGED excused
  BY <1>6, <1>7, GrownOnly, FailStep DEF OpenSearchBulk
<1>8. CASE /\ Succeeds(u)
           /\ excused' = [excused EXCEPT
                             !.documents = @ \cup (ToSet(use[u].todo) \ accepted)]
  <2>1. PICK more : more = ToSet(use[u].todo) \ accepted
    OBVIOUS
  <2>2. more \in SUBSET Documents
    BY <1>2, <2>1
  <2>3. excused' = [excused EXCEPT !.documents = excused.documents \cup more]
    BY <1>8, <2>1
  <2>4. StoreTyped /\ Onward /\ StoreTyped' /\ more \subseteq excused'.documents
    BY <1>6, <2>2, <2>3, Grown DEF OpenSearchBulk, KeptInv
  <2>5. ASSUME NEW a \in use[u].asked PROVE Settled(a)'
    <3>1. Settled(a) \/ a.doc \in ToSet(use[u].todo)
      BY <1>1, <2>5 DEF AddOK
    <3>2. CASE Settled(a)
      BY <2>4, <3>2, Stays
    <3>3. CASE a.doc \in ToSet(use[u].todo)
      BY <1>6, <2>1, <2>4, <3>3 DEF Settled
    <3> QED
      BY <3>1, <3>2, <3>3
  <2> QED
    BY <1>1, <1>8, <2>4, <2>5, SucceedStep
<1> QED
  BY <1>3, <1>7, <1>8

LEMMA RedisWrites ==
    ASSUME KeptInv, NEW u \in Users, RedisWrite(u)
    PROVE  KeptInv'
<1> DEFINE d == Head(use[u].todo)
           rest == Tail(use[u].todo)
<1>1. use[u] \in Adds /\ AddOK(use[u]) /\ use[u].pc = "store"
  BY AddAt DEF RedisWrite, Wholes
<1>2. d \in Documents /\ EntryOf(u, d).doc = d
      /\ EntryOf(u, d) \in [doc : Documents, vector : BOOLEAN]
  BY <1>1, AddHas DEF EntryOf
<1>3. /\ use[u].todo \in Seq(Documents) \ {<<>>} /\ rest \in Seq(Documents)
      /\ ToSet(use[u].todo) = {d} \cup ToSet(rest)
  BY <1>1, AddHas, Tailed
<1>4. UNCHANGED <<objects, registered, millis, excused>>
  BY DEF RedisWrite
<1>5. /\ \/ ~ use[u].right[d] /\ Fails(u) /\ UNCHANGED entries
         \/ /\ use[u].right[d]
            /\ entries' = Append(entries, EntryOf(u, d))
            /\ IF rest = <<>> THEN Succeeds(u)
               ELSE use' = [use EXCEPT ![u].todo = rest] /\ UNCHANGED kept
         \/ Fails(u) /\ entries' \in {Append(entries, EntryOf(u, d)), entries}
  BY DEF RedisWrite
<1> HIDE DEF d, rest
<1>6. CASE entries' = entries /\ Fails(u)
  BY <1>4, <1>6, Unmoved, FailStep
<1>7. CASE entries' = Append(entries, EntryOf(u, d))
  <2>1. /\ entries' \in Seq([doc : Documents, vector : BOOLEAN])
        /\ Stored \subseteq Stored' /\ d \in Stored'
    BY <1>2, <1>7, StoredOne
  <2>2. StoreTyped /\ Onward /\ StoreTyped'
    BY <1>4, <2>1, GrownOnly DEF KeptInv
  <2>3. ASSUME NEW a \in use[u].asked PROVE Settled(a)' \/ a.doc \in ToSet(rest)
    <3>1. Settled(a) \/ a.doc = d \/ a.doc \in ToSet(rest)
      BY <1>1, <1>3, <2>3 DEF AddOK
    <3>2. CASE Settled(a)
      BY <2>2, <3>2, Stays
    <3>3. CASE a.doc = d
      BY <2>1, <3>3 DEF Settled
    <3> QED
      BY <3>1, <3>2, <3>3
  <2>4. CASE Fails(u)
    BY <2>2, <2>4, FailStep
  <2>5. CASE rest = <<>> /\ Succeeds(u)
    <3>1. ToSet(rest) = {}
      BY <2>5 DEF ToSet
    <3>2. \A a \in use[u].asked : Settled(a)'
      BY <2>3, <3>1
    <3> QED
      BY <1>1, <2>2, <2>5, <3>2, SucceedStep
  <2>6. CASE rest # <<>> /\ use' = [use EXCEPT ![u].todo = rest] /\ UNCHANGED kept
    <3>1. PICK r : r = use[u]
      OBVIOUS
    <3>2. PICK q : q = [r EXCEPT !.todo = rest]
      OBVIOUS
    <3>3. use' = [use EXCEPT ![u] = q]
      BY <2>6, <3>1, <3>2
    <3>4. q \in Adds /\ q.pc = "store" /\ q.asked = r.asked /\ q.todo = rest
      BY <1>1, <1>3, <2>6, <3>1, <3>2 DEF Adds
    <3>5. AddOK(q)'
      BY <2>3, <3>1, <3>4 DEF AddOK, Wholes
    <3>6. UseOK(q)'
      BY <3>4, <3>5 DEF UseOK
    <3> QED
      BY <2>2, <2>6, <3>3, <3>6, UseStep DEF KeptInv
  <2> QED
    BY <1>5, <2>4, <2>5, <2>6
<1> QED
  BY <1>5, <1>6, <1>7

LEMMA KeyBuilt ==
    ASSUME KeptInv, NEW u \in Users, BuildKey(u)
    PROVE  KeptInv'
<1>1. PICK r : r = use[u]
  OBVIOUS
<1>2. PICK key : key = IF r.source = "text" THEN TextKey ELSE FileObjectKey(Head(r.todo))
  OBVIOUS
<1>3. PICK q : q = [r EXCEPT !.pc = "bucket", !.key = key]
  OBVIOUS
<1>4. use' = [use EXCEPT ![u] = q]
  BY <1>1, <1>2, <1>3 DEF BuildKey
<1>5. r \in Adds /\ AddOK(r) /\ r.pc = "key"
  BY <1>1, AddAt DEF BuildKey, Singles
<1>6. key \in Keys
  <2>1. millis \in Nat /\ Head(r.todo) \in Documents
    BY <1>5, AddHas DEF KeptInv, StoreTyped
  <2> QED
    BY <1>2, <2>1 DEF Keys, TextKey, FileObjectKey
<1>7. q \in Adds /\ q.pc = "bucket" /\ q.asked = r.asked
  BY <1>3, <1>5, <1>6 DEF Adds, Singles
<1>8. AddOK(q)
  BY <1>5, <1>7 DEF AddOK, Wholes
<1>9. StoreTyped /\ Onward /\ StoreTyped'
  BY Unmoved DEF KeptInv, BuildKey, Storage
<1>10. UseOK(q)'
  BY <1>7, <1>8, <1>9, AddStays DEF UseOK
<1>11. kept' = kept
  BY DEF BuildKey
<1> QED
  BY <1>4, <1>9, <1>10, <1>11, UseStep DEF KeptInv

LEMMA BucketAsked ==
    ASSUME KeptInv, NEW u \in Users, BucketExist(u)
    PROVE  KeptInv'
<1>1. Onward /\ StoreTyped'
  BY Unmoved DEF BucketExist, Storage
<1>2. use[u] \in Adds /\ use[u].pc \in Singles
  BY AddAt DEF BucketExist, Singles
<1>3. \E p \in {"put", "create"} : Go(u, p) /\ UNCHANGED kept
  BY DEF BucketExist
<1> QED
  BY <1>1, <1>2, <1>3, GoStep DEF Singles

LEMMA BucketMade ==
    ASSUME KeptInv, NEW u \in Users, CreateBucket(u)
    PROVE  KeptInv'
<1>1. Onward /\ StoreTyped'
  BY Unmoved DEF CreateBucket
<1>2. use[u] \in Adds /\ use[u].pc \in Singles
  BY AddAt DEF CreateBucket, Singles
<1>3. CASE Go(u, "put") /\ UNCHANGED kept
  BY <1>1, <1>2, <1>3, GoStep DEF Singles
<1>4. CASE Fails(u)
  BY <1>1, <1>4, FailStep
<1> QED
  BY <1>3, <1>4 DEF CreateBucket

LEMMA ObjectPut ==
    ASSUME KeptInv, NEW u \in Users, PutObject(u)
    PROVE  KeptInv'
<1> DEFINE key == use[u].key
           doc == Head(use[u].todo)
<1>1. use[u] \in Adds /\ AddOK(use[u]) /\ use[u].pc = "put"
  BY AddAt DEF PutObject, Singles
<1>2. key \in Keys /\ doc \in Documents
  BY <1>1, AddHas
<1>3. UNCHANGED <<entries, registered, millis>>
  BY DEF PutObject
<1>4. CASE Fails(u) /\ UNCHANGED <<objects, excused>>
  BY <1>3, <1>4, Unmoved, FailStep
<1>5. CASE /\ objects' = [k \in DOMAIN objects \cup {key} |->
                            IF k = key THEN doc ELSE objects[k]]
           /\ excused' = IF key \in DOMAIN objects /\ objects[key] # doc
                         THEN [excused EXCEPT !.keys = @ \cup {key}] ELSE excused
           /\ Go(u, "register") /\ UNCHANGED kept
  <2>1. DOMAIN objects' = DOMAIN objects \cup {key} /\ objects'[key] = doc
        /\ \A k \in DOMAIN objects : k # key => objects'[k] = objects[k]
    BY <1>5
  <2>2. /\ excused' \in [documents : SUBSET Documents, keys : SUBSET Keys]
        /\ excused'.documents = excused.documents /\ excused.keys \subseteq excused'.keys
        /\ key \in DOMAIN objects => objects[key] = doc \/ key \in excused'.keys
    BY <1>2, <1>5 DEF KeptInv, StoreTyped
  <2> HIDE DEF key, doc
  <2>3. Stored' = Stored
    BY <1>3 DEF Stored
  <2>4. StoreTyped' /\ Onward
    BY <1>2, <1>3, <2>1, <2>2, <2>3 DEF KeptInv, StoreTyped, Onward
  <2>5. use[u].key \in DOMAIN objects' /\ objects'[use[u].key] = Head(use[u].todo)
    BY <2>1 DEF key, doc
  <2> QED
    BY <1>1, <1>5, <2>4, <2>5, GoStep DEF Singles
<1> QED
  BY <1>4, <1>5 DEF PutObject

LEMMA Registered ==
    ASSUME KeptInv, NEW u \in Users, DocumentAddTOS(u)
    PROVE  KeptInv'
<1>1. PICK r : r = use[u]
  OBVIOUS
<1>2. PICK d : d = Head(r.todo)
  OBVIOUS
<1>3. PICK rest : rest = Tail(r.todo)
  OBVIOUS
<1>4. PICK now : now = [doc |-> d, key |-> r.key]
  OBVIOUS
<1>5. r \in Adds /\ AddOK(r) /\ r.pc = "register"
  BY <1>1, AddAt DEF DocumentAddTOS, Singles
<1>6. /\ d \in Documents /\ r.key \in Keys /\ r.asked \subseteq Asks
      /\ rest \in Seq(Documents) /\ now \in Asks /\ now.doc = d /\ now.key = r.key
  BY <1>2, <1>3, <1>4, <1>5, AddHas, Tailed DEF Asks
<1>7. r.key \in DOMAIN objects /\ (objects[r.key] = d \/ r.key \in excused.keys)
  BY <1>2, <1>5 DEF AddOK
<1>8. UNCHANGED <<entries, objects, millis>>
  BY DEF DocumentAddTOS
<1>9. \/ registered' = registered \cup {r.key} /\ UNCHANGED excused
      \/ registered' = registered /\ excused' = [excused EXCEPT !.documents = excused.documents \cup {d}]
      \/ registered' = registered /\ UNCHANGED excused
  BY <1>1, <1>2 DEF DocumentAddTOS
<1>10. /\ registered' \subseteq DOMAIN objects /\ registered \subseteq registered'
       /\ excused' \in [documents : SUBSET Documents, keys : SUBSET Keys]
       /\ excused.documents \subseteq excused'.documents /\ excused'.keys = excused.keys
  BY <1>6, <1>7, <1>9 DEF KeptInv, StoreTyped
<1>11. Stored' = Stored
  BY <1>8 DEF Stored
<1>12. StoreTyped /\ StoreTyped' /\ Onward
  BY <1>8, <1>10, <1>11 DEF KeptInv, StoreTyped, Onward
<1>13. CASE Fails(u)
  BY <1>12, <1>13, FailStep
<1>14. PICK done : done = r.asked \cup {now}
  OBVIOUS
<1>15. CASE /\ \/ registered' = registered \cup {r.key} /\ UNCHANGED excused
               \/ excused' = [excused EXCEPT !.documents = excused.documents \cup {d}]
            /\ IF rest = <<>>
               THEN use' = [use EXCEPT ![u] = NoUse] /\ kept' = kept \cup done
               ELSE /\ use' = [use EXCEPT ![u] = Adding("key", @.source, rest, done)]
                    /\ UNCHANGED kept
  <2>1. Settled(now)'
    <3>1. CASE registered' = registered \cup {r.key} /\ UNCHANGED excused
      BY <1>6, <1>7, <1>8, <3>1 DEF Settled
    <3>2. CASE excused' = [excused EXCEPT !.documents = excused.documents \cup {d}]
      <4>1. d \in excused'.documents
        BY <3>2 DEF KeptInv, StoreTyped
      <4> QED
        BY <1>6, <4>1 DEF Settled
    <3> QED
      BY <1>15, <3>1, <3>2
  <2>2. ASSUME NEW a \in r.asked PROVE Settled(a)'
    <3>1. Settled(a)
      BY <1>5, <2>2 DEF AddOK, Wholes
    <3> QED
      BY <1>12, <3>1, Stays
  <2>3. done \subseteq Asks /\ \A a \in done : Settled(a)'
    BY <1>6, <1>14, <2>1, <2>2
  <2>4. CASE rest = <<>>
    <3>1. use' = [use EXCEPT ![u] = NoUse] /\ kept' = kept \cup done
      BY <1>15, <2>4
    <3>2. kept' \subseteq Asks /\ \A a \in kept' : a \in kept \/ Settled(a)'
      BY <2>3, <3>1 DEF KeptInv
    <3>3. UseOK(NoUse)'
      BY DEF UseOK
    <3> QED
      BY <1>12, <3>1, <3>2, <3>3, UseStep
  <2>5. CASE rest # <<>>
    <3>1. PICK q : q = Adding("key", r.source, rest, done)
      OBVIOUS
    <3>2. use' = [use EXCEPT ![u] = q] /\ kept' = kept
      BY <1>1, <1>15, <2>5, <3>1
    <3>3. q \in Adds /\ q.pc = "key" /\ q.asked = done
      BY <1>5, <1>6, <2>3, <2>5, <3>1 DEF Adding, Adds, Singles, Keys
    <3>4. UseOK(q)'
      BY <2>3, <3>3 DEF UseOK, AddOK
    <3> QED
      BY <1>12, <3>2, <3>4, UseStep DEF KeptInv
  <2> QED
    BY <2>4, <2>5
<1>16. \/ Fails(u)
       \/ /\ \/ registered' = registered \cup {r.key} /\ UNCHANGED excused
             \/ excused' = [excused EXCEPT !.documents = excused.documents \cup {d}]
          /\ IF rest = <<>>
             THEN use' = [use EXCEPT ![u] = NoUse] /\ kept' = kept \cup done
             ELSE /\ use' = [use EXCEPT ![u] = Adding("key", @.source, rest, done)]
                  /\ UNCHANGED kept
  BY <1>1, <1>2, <1>3, <1>4, <1>14 DEF DocumentAddTOS
<1> QED
  BY <1>13, <1>15, <1>16

\* Viking reads an object: it is stored now, and no longer on its way.
LEMMA Imported ==
    ASSUME KeptInv, NEW key \in DOMAIN objects, Import(key)
    PROVE  KeptInv'
<1>1. PICK e : e = [doc |-> objects[key], vector |-> TRUE]
  OBVIOUS
<1>2. e \in [doc : Documents, vector : BOOLEAN] /\ e.doc = objects[key]
  BY <1>1 DEF KeptInv, StoreTyped
<1>3. entries' = Append(entries, e)
  BY <1>1 DEF Import
<1>4. /\ entries' \in Seq([doc : Documents, vector : BOOLEAN])
      /\ Stored \subseteq Stored' /\ objects[key] \in Stored'
  BY <1>2, <1>3, StoredOne
<1>5. registered' = registered \ {key} /\ UNCHANGED <<objects, millis, use, kept, excused>>
  BY DEF Import
<1>6. StoreTyped' /\ Onward
  BY <1>4, <1>5 DEF KeptInv, StoreTyped, Onward
<1> QED
  BY <1>5, <1>6, StandStep

LEMMA Ticked ==
    ASSUME KeptInv, Millisecond
    PROVE  KeptInv'
<1>1. millis' \in Nat /\ UNCHANGED <<entries, objects, registered, excused, use, kept>>
  BY DEF Millisecond, KeptInv, StoreTyped
<1>2. Stored' = Stored
  BY <1>1 DEF Stored
<1>3. StoreTyped' /\ Onward
  BY <1>1, <1>2 DEF KeptInv, StoreTyped, Onward
<1> QED
  BY <1>1, <1>3, StandStep

\* A search goes on; it promises nothing.
LEMMA SearchStep ==
    ASSUME KeptInv, NEW u \in Users, NEW q, use' = [use EXCEPT ![u] = q], Searching(q),
           UNCHANGED <<entries, objects, registered, excused, millis, kept>>
    PROVE  KeptInv'
<1>1. Onward /\ StoreTyped'
  BY Unmoved
<1>2. UseOK(q)'
  BY DEF UseOK, Searching
<1> QED
  BY <1>1, <1>2, UseStep DEF KeptInv

LEMMA SearchBegun ==
    ASSUME KeptInv, NEW u \in Users, SearchBegin(u)
    PROVE  KeptInv'
<1>1. PICK query \in Queries, asked \in Requested :
          use' = [use EXCEPT ![u] =
            [pc |-> "search", query |-> query, top |-> TopK(asked), result |-> <<>>,
             copy |-> IF base.kind = "local" THEN entries ELSE <<>>,
             before |-> {a.doc : a \in kept}]]
  BY DEF SearchBegin
<1>2. PICK q : q = [pc |-> "search", query |-> query, top |-> TopK(asked), result |-> <<>>,
             copy |-> IF base.kind = "local" THEN entries ELSE <<>>,
             before |-> {a.doc : a \in kept}]
  OBVIOUS
<1>3. Searching(q) /\ use' = [use EXCEPT ![u] = q]
  BY <1>1, <1>2 DEF Searching
<1> QED
  BY <1>3, SearchStep DEF SearchBegin

\* Only a search is at this place.
LEMMA SearchAt ==
    ASSUME KeptInv, NEW u \in Users, At(u, "search")
    PROVE  Searching(use[u])
BY DEF KeptInv, UseOK, At, NoUse, Adds, Wholes, Singles, Searching

LEMMA SearchedLocally ==
    ASSUME KeptInv, NEW u \in Users, LocalSearch(u)
    PROVE  KeptInv'
<1>1. PICK r : r = use[u]
  OBVIOUS
<1>2. \E hits : use' = [use EXCEPT ![u].pc = "found", ![u].result = hits]
  BY DEF LocalSearch
<1>3. PICK hits : use' = [use EXCEPT ![u].pc = "found", ![u].result = hits]
  BY <1>2
<1>4. PICK q : q = [r EXCEPT !.pc = "found", !.result = hits]
  OBVIOUS
<1>5. use' = [use EXCEPT ![u] = q]
  BY <1>1, <1>3, <1>4
<1>6. Searching(r)
  BY <1>1, SearchAt DEF LocalSearch
<1>7. Searching(q)
  BY <1>4, <1>6 DEF Searching
<1> QED
  BY <1>5, <1>7, SearchStep DEF LocalSearch, Storage

LEMMA SearchedRemotely ==
    ASSUME KeptInv, NEW u \in Users, RemoteSearch(u)
    PROVE  KeptInv'
<1>1. PICK r : r = use[u]
  OBVIOUS
<1>2. PICK q : q = [r EXCEPT !.pc = "found"]
  OBVIOUS
<1>3. use' = [use EXCEPT ![u] = q]
  BY <1>1, <1>2 DEF RemoteSearch, OpenSearchSearch, RedisSearch, VikingSearch, Go
<1>4. Searching(r)
  BY <1>1, SearchAt DEF RemoteSearch
<1>5. Searching(q)
  BY <1>2, <1>4 DEF Searching
<1> QED
  BY <1>3, <1>5, SearchStep DEF RemoteSearch, Storage

LEMMA KeptStep == KeptInv /\ [BaseNext]_baseVars => KeptInv'
<1> SUFFICES ASSUME KeptInv, [BaseNext]_baseVars PROVE KeptInv'
  OBVIOUS
<1>1. ASSUME NEW u \in Users, UserStep(u) PROVE KeptInv'
  <2>1. CASE Add(u)
    BY <2>1, AddOn
  <2>2. CASE OpenSearchEnsureIndex(u) \/ RedisEnsureIndex(u)
    BY <2>2, IndexMade DEF OpenSearchEnsureIndex, RedisEnsureIndex
  <2>3. CASE LocalEmbed(u) \/ OpenSearchEmbed(u) \/ RedisEmbed(u)
    BY <2>3, Embedded DEF LocalEmbed, OpenSearchEmbed, RedisEmbed
  <2>4. CASE LocalStore(u)
    BY <2>4, LocalStored
  <2>5. CASE OpenSearchBulk(u)
    BY <2>5, BulkStored
  <2>6. CASE RedisWrite(u)
    BY <2>6, RedisWrites
  <2>7. CASE BuildKey(u)
    BY <2>7, KeyBuilt
  <2>8. CASE BucketExist(u)
    BY <2>8, BucketAsked
  <2>9. CASE CreateBucket(u)
    BY <2>9, BucketMade
  <2>10. CASE PutObject(u)
    BY <2>10, ObjectPut
  <2>11. CASE DocumentAddTOS(u)
    BY <2>11, Registered
  <2>12. CASE SearchBegin(u)
    BY <2>12, SearchBegun
  <2>13. CASE LocalSearch(u)
    BY <2>13, SearchedLocally
  <2>14. CASE RemoteSearch(u)
    BY <2>14, SearchedRemotely
  <2>15. CASE SearchEnds(u)
    <3>1. Onward /\ StoreTyped'
      BY <2>15, Unmoved DEF SearchEnds, Storage
    <3> QED
      BY <2>15, <3>1, FailStep DEF SearchEnds
  <2> QED
    BY <1>1, <2>1, <2>2, <2>3, <2>4, <2>5, <2>6, <2>7, <2>8, <2>9, <2>10, <2>11, <2>12,
       <2>13, <2>14, <2>15 DEF UserStep
<1>2. ASSUME NEW key \in DOMAIN objects, Import(key) PROVE KeptInv'
  BY <1>2, Imported
<1>3. CASE Millisecond
  BY <1>3, Ticked
<1>4. CASE UNCHANGED baseVars
  <2>1. Onward /\ StoreTyped' /\ UNCHANGED <<use, kept>>
    BY <1>4, Unmoved DEF baseVars
  <2> QED
    BY <2>1, StandStep
<1> QED
  BY <1>1, <1>2, <1>3, <1>4 DEF BaseNext

\* What an add has acknowledged is in the index or on its way to it, unless the
\* index refused it silently or another document was given the same object key
\* (the adds of the four backends).
THEOREM AddsAreKept == BaseSpec => []KnowledgeKept
<1>1. BaseInit => KeptInv BY KeptInit
<1>2. KeptInv /\ [BaseNext]_baseVars => KeptInv' BY KeptStep
<1>3. KeptInv => KnowledgeKept BY KeptImplied
<1> QED BY <1>1, <1>2, <1>3, PTL DEF BaseSpec

(***************************************************************************)
(* Knowledge: a local search ranks its candidates                          *)
(***************************************************************************)
Rows == Seq([doc : Documents, vector : BOOLEAN])

\* The order of the candidates is strict and total.
LEMMA BetterOrder ==
    ASSUME NEW copy \in Rows, NEW query \in [Documents -> Nat],
           NEW i \in DOMAIN copy, NEW j \in DOMAIN copy
    PROVE  /\ i # j => Better(copy, query, i, j) \/ Better(copy, query, j, i)
           /\ ~ Better(copy, query, i, i)
           /\ \A k \in DOMAIN copy : Better(copy, query, k, i) /\ Better(copy, query, i, j)
                => Better(copy, query, k, j)
           /\ Better(copy, query, i, j) => query[copy[i].doc] >= query[copy[j].doc]
<1>1. \A k \in DOMAIN copy : k \in Nat /\ query[copy[k].doc] \in Nat
  <2> SUFFICES ASSUME NEW k \in DOMAIN copy PROVE k \in Nat /\ query[copy[k].doc] \in Nat
    OBVIOUS
  <2>1. DOMAIN copy = 1 .. Len(copy) /\ Len(copy) \in Nat
    BY DEF Rows
  <2>2. \A l \in 1 .. Len(copy) : copy[l] \in [doc : Documents, vector : BOOLEAN]
    <3>1. PICK E : E = [doc : Documents, vector : BOOLEAN]
      OBVIOUS
    <3>2. copy \in Seq(E)
      BY <3>1 DEF Rows
    <3>3. \A l \in 1 .. Len(copy) : copy[l] \in E
      BY <3>2
    <3> QED
      BY <3>1, <3>3
  <2>3. k \in Nat /\ copy[k] \in [doc : Documents, vector : BOOLEAN]
    BY <2>1, <2>2
  <2>4. copy[k].doc \in Documents
    BY <2>3
  <2> QED
    BY <2>3, <2>4
<1>2. PICK score : score = [k \in DOMAIN copy |-> query[copy[k].doc]]
  OBVIOUS
<1>3. \A k \in DOMAIN copy : k \in Nat /\ score[k] \in Nat /\ score[k] = query[copy[k].doc]
  BY <1>1, <1>2
<1>4. \A k, l \in DOMAIN copy :
         Better(copy, query, k, l) <=> score[k] > score[l] \/ (score[k] = score[l] /\ k < l)
  BY <1>3 DEF Better
<1>5. i # j => Better(copy, query, i, j) \/ Better(copy, query, j, i)
  BY <1>3, <1>4
<1>6. ~ Better(copy, query, i, i)
  BY <1>3, <1>4
<1>7. \A k \in DOMAIN copy : Better(copy, query, k, i) /\ Better(copy, query, i, j)
                => Better(copy, query, k, j)
  BY <1>3, <1>4
<1>8. Better(copy, query, i, j) => query[copy[i].doc] >= query[copy[j].doc]
  BY <1>3, <1>4
<1> QED
  BY <1>5, <1>6, <1>7, <1>8

\* Who is worse has more ahead.
LEMMA AheadGrows ==
    ASSUME NEW copy \in Rows, NEW query \in [Documents -> Nat],
           NEW i \in Candidates(copy, query)
    PROVE  /\ IsFiniteSet(Candidates(copy, query)) /\ Cardinality(Candidates(copy, query)) \in Nat
           /\ i \in DOMAIN copy
           /\ Cardinality(Ahead(copy, query, i)) \in 0 .. (Cardinality(Candidates(copy, query)) - 1)
           /\ \A j \in Candidates(copy, query) : Better(copy, query, j, i) =>
                 Cardinality(Ahead(copy, query, j)) < Cardinality(Ahead(copy, query, i))
<1> DEFINE all == Candidates(copy, query)
<1>1. all \subseteq DOMAIN copy
  BY DEF Candidates
<1>2. IsFiniteSet(DOMAIN copy)
  <2>1. DOMAIN copy = 1 .. Len(copy) /\ Len(copy) \in Nat
    BY DEF Rows
  <2> QED
    BY <2>1, FS_Interval
<1>3. IsFiniteSet(all) /\ Cardinality(all) \in Nat
  BY <1>1, <1>2, FS_Subset, FS_CardinalityType
<1>4. \A j \in all : Ahead(copy, query, j) \subseteq all \ {j}
  BY <1>1, BetterOrder DEF Ahead
<1> HIDE DEF all
<1>5. \A j \in all : /\ IsFiniteSet(all \ {j}) /\ Cardinality(all \ {j}) = Cardinality(all) - 1
                     /\ IsFiniteSet(Ahead(copy, query, j))
                     /\ Cardinality(Ahead(copy, query, j)) \in Nat
                     /\ Cardinality(Ahead(copy, query, j)) <= Cardinality(all) - 1
  <2> SUFFICES ASSUME NEW j \in all
               PROVE  /\ IsFiniteSet(all \ {j}) /\ Cardinality(all \ {j}) = Cardinality(all) - 1
                      /\ IsFiniteSet(Ahead(copy, query, j))
                      /\ Cardinality(Ahead(copy, query, j)) \in Nat
                      /\ Cardinality(Ahead(copy, query, j)) <= Cardinality(all) - 1
    OBVIOUS
  <2>1. IsFiniteSet(all \ {j}) /\ Cardinality(all \ {j}) = Cardinality(all) - 1
    BY <1>3, FS_RemoveElement
  <2> QED
    BY <1>4, <2>1, FS_Subset, FS_CardinalityType
<1>6. ASSUME NEW j \in all, Better(copy, query, j, i)
      PROVE  Cardinality(Ahead(copy, query, j)) < Cardinality(Ahead(copy, query, i))
  <2>0. i \in all
    BY DEF all
  <2>1. j \in Ahead(copy, query, i)
    BY <1>6 DEF Ahead, all
  <2>2. ASSUME NEW k \in Ahead(copy, query, j) PROVE k \in Ahead(copy, query, i) /\ k # j
    <3>1. k \in all /\ Better(copy, query, k, j)
      BY DEF Ahead, all
    <3>2. k \in DOMAIN copy /\ j \in DOMAIN copy /\ i \in DOMAIN copy
      BY <1>1, <2>0, <3>1
    <3>3. Better(copy, query, k, i)
      BY <1>6, <3>1, <3>2, BetterOrder
    <3>4. k # j
      BY <3>1, <3>2, BetterOrder
    <3> QED
      BY <3>1, <3>3, <3>4 DEF Ahead, all
  <2>3. /\ IsFiniteSet(Ahead(copy, query, i) \ {j})
        /\ Cardinality(Ahead(copy, query, i) \ {j}) = Cardinality(Ahead(copy, query, i)) - 1
    BY <1>5, <2>0, <2>1, FS_RemoveElement
  <2>4. Cardinality(Ahead(copy, query, j)) <= Cardinality(Ahead(copy, query, i) \ {j})
    BY <2>2, <2>3, FS_Subset
  <2>5. Cardinality(Ahead(copy, query, i)) \in Nat /\ Cardinality(Ahead(copy, query, j)) \in Nat
    BY <1>5, <2>0
  <2> QED
    BY <2>3, <2>4, <2>5
<1>7. i \in all
  BY DEF all
<1>8. Cardinality(Ahead(copy, query, i)) \in 0 .. (Cardinality(all) - 1)
  <2>1. PICK m, c : m = Cardinality(all) /\ c = Cardinality(Ahead(copy, query, i))
    OBVIOUS
  <2>2. m \in Nat /\ c \in Nat /\ c <= m - 1
    BY <1>3, <1>5, <1>7, <2>1
  <2>3. c \in 0 .. (m - 1)
    BY <2>2
  <2> QED
    BY <2>1, <2>3
<1>9. \A j \in all : Better(copy, query, j, i) =>
         Cardinality(Ahead(copy, query, j)) < Cardinality(Ahead(copy, query, i))
  BY <1>6
<1>10. i \in DOMAIN copy
  BY <1>1, <1>7
<1> QED
  BY <1>3, <1>8, <1>9, <1>10 DEF all

\* Every place has a candidate, as no two share one.
LEMMA NthIs ==
    ASSUME NEW copy \in Rows, NEW query \in [Documents -> Nat],
           NEW n \in 1 .. Cardinality(Candidates(copy, query))
    PROVE  /\ Nth(copy, query, n) \in Candidates(copy, query)
           /\ Cardinality(Ahead(copy, query, Nth(copy, query, n))) = n - 1
<1> DEFINE all == Candidates(copy, query)
           m == Cardinality(all)
           place == [i \in all |-> Cardinality(Ahead(copy, query, i))]
<1>1. all \subseteq DOMAIN copy
  BY DEF Candidates
<1>2. IsFiniteSet(all) /\ m \in Nat
  <2>1. DOMAIN copy = 1 .. Len(copy) /\ Len(copy) \in Nat
    BY DEF Rows
  <2>2. IsFiniteSet(DOMAIN copy)
    BY <2>1, FS_Interval
  <2> QED
    BY <1>1, <2>2, FS_Subset, FS_CardinalityType
<1>3. \A i \in all : place[i] \in 0 .. (m - 1)
  BY AheadGrows
<1>4. ASSUME NEW i \in all, NEW j \in all, place[i] = place[j] PROVE i = j
  <2>1. ~ Better(copy, query, i, j)
    BY <1>3, <1>4, AheadGrows
  <2>2. ~ Better(copy, query, j, i)
    BY <1>3, <1>4, AheadGrows
  <2> QED
    BY <1>1, <2>1, <2>2, BetterOrder
<1>5. place \in Injection(all, 0 .. (m - 1))
  <2>1. place \in [all -> 0 .. (m - 1)]
    BY <1>3
  <2> HIDE DEF place, all, m
  <2> QED
    BY <1>4, <2>1 DEF Injection, IsInjective
<1> HIDE DEF place, m
<1>6. IsFiniteSet(0 .. (m - 1)) /\ Cardinality(0 .. (m - 1)) = m
  <2>1. /\ IsFiniteSet(0 .. (m - 1))
        /\ Cardinality(0 .. (m - 1)) = IF 0 > m - 1 THEN 0 ELSE (m - 1) - 0 + 1
    BY <1>2, FS_Interval
  <2> QED
    BY <1>2, <2>1
<1>7. place \in Surjection(all, 0 .. (m - 1))
  <2> HIDE DEF all
  <2>1. Cardinality(all) = Cardinality(0 .. (m - 1))
    BY <1>6 DEF m
  <2> QED
    BY <1>5, <1>6, <2>1, FS_Injection
<1>8. n - 1 \in 0 .. (m - 1)
  BY <1>2 DEF m
<1>9. \E i \in all : place[i] = n - 1
  BY <1>7, <1>8 DEF Surjection
<1>10. \E i \in all : Cardinality(Ahead(copy, query, i)) = n - 1
  BY <1>9 DEF place
<1> QED
  BY <1>10 DEF Nth

\* What the search finds is complete.
LEMMA ForemostFinds ==
    ASSUME NEW copy \in Rows, NEW query \in [Documents -> Nat], NEW top \in Nat \ {0},
           NEW i \in Candidates(copy, query)
    PROVE  LET found == Foremost(copy, query, top)
           IN  \/ copy[i].doc \in ToSet(found)
               \/ /\ Len(found) = top
                  /\ \A n \in DOMAIN found : query[found[n]] >= query[copy[i].doc]
<1> DEFINE all == Cardinality(Candidates(copy, query))
           count == IF top < all THEN top ELSE all
           found == Foremost(copy, query, top)
           place == Cardinality(Ahead(copy, query, i))
<1>1. all \in Nat /\ place \in 0 .. (all - 1) /\ i \in DOMAIN copy
  BY AheadGrows
<1>2. found = [n \in 1 .. count |-> copy[Nth(copy, query, n)].doc]
  BY DEF Foremost
<1>3. count \in Nat /\ count <= all /\ (count = top \/ count = all) /\ all > 0
  BY <1>1
<1>4. \A n \in 1 .. count : /\ Nth(copy, query, n) \in Candidates(copy, query)
                            /\ Cardinality(Ahead(copy, query, Nth(copy, query, n))) = n - 1
  <2> SUFFICES ASSUME NEW n \in 1 .. count
               PROVE  /\ Nth(copy, query, n) \in Candidates(copy, query)
                      /\ Cardinality(Ahead(copy, query, Nth(copy, query, n))) = n - 1
    OBVIOUS
  <2> HIDE DEF count
  <2>1. n \in 1 .. Cardinality(Candidates(copy, query))
    BY <1>1, <1>3
  <2> QED
    BY <2>1, NthIs
<1> HIDE DEF all, count, found, place
<1>5. DOMAIN found = 1 .. count /\ \A n \in 1 .. count : found[n] = copy[Nth(copy, query, n)].doc
  BY <1>2
<1>6. Len(found) = count
  BY <1>2, <1>3
<1>7. CASE place < count
  <2>1. place + 1 \in 1 .. count
    BY <1>1, <1>3, <1>7
  <2>2. Nth(copy, query, place + 1) = i
    <3>1. PICK j : j = Nth(copy, query, place + 1)
      OBVIOUS
    <3>2. j \in Candidates(copy, query) /\ Cardinality(Ahead(copy, query, j)) = place
      BY <1>1, <1>4, <2>1, <3>1
    <3>3. ~ Better(copy, query, i, j) /\ ~ Better(copy, query, j, i)
      BY <1>1, <3>2, AheadGrows DEF place
    <3>4. j \in DOMAIN copy
      BY <3>2, AheadGrows
    <3> QED
      BY <1>1, <3>1, <3>3, <3>4, BetterOrder
  <2>3. found[place + 1] = copy[i].doc
    BY <1>5, <2>1, <2>2
  <2> QED
    BY <1>5, <2>1, <2>3 DEF ToSet, found
<1>8. CASE place >= count
  <2>1. count = top
    BY <1>1, <1>3, <1>8
  <2>2. ASSUME NEW n \in 1 .. count PROVE query[found[n]] >= query[copy[i].doc]
    <3>1. PICK j : j = Nth(copy, query, n)
      OBVIOUS
    <3>2. j \in Candidates(copy, query) /\ Cardinality(Ahead(copy, query, j)) = n - 1
      BY <1>4, <3>1
    <3>3. j \in DOMAIN copy
      BY <3>2, AheadGrows
    <3>4. ~ Better(copy, query, i, j) /\ i # j
      <4>1. Cardinality(Ahead(copy, query, j)) < place
        BY <1>1, <1>3, <1>8, <3>2
      <4>2. Better(copy, query, i, j) => place < Cardinality(Ahead(copy, query, j))
        BY <3>2, AheadGrows DEF place
      <4>3. i # j
        BY <1>1, <1>3, <1>8, <3>2 DEF place
      <4> QED
        BY <1>1, <1>3, <3>2, <4>1, <4>2, <4>3
    <3>5. Better(copy, query, j, i)
      BY <1>1, <3>3, <3>4, BetterOrder
    <3> QED
      BY <1>1, <1>5, <3>1, <3>3, <3>5, BetterOrder
  <2> QED
    BY <1>5, <1>6, <2>1, <2>2 DEF found
<1> QED
  BY <1>1, <1>3, <1>7, <1>8

\* A search has copied every document that was acknowledged before it,
SearchOK(q) ==
    /\ q.copy \in Rows /\ q.query \in [Documents -> Nat] /\ q.top \in Nat \ {0}
    /\ q.before \subseteq {q.copy[i].doc : i \in DOMAIN q.copy}
    /\ {"pc", "result"} \subseteq DOMAIN q

\* and what it found is complete.
FoundOK(q) ==
    \A d \in q.before : q.query[d] > 0 =>
        \/ d \in ToSet(q.result)
        \/ /\ Len(q.result) = q.top
           /\ \A i \in DOMAIN q.result : q.query[q.result[i]] >= q.query[d]

LocalOK(q) ==
    /\ q.pc \in {"idle", "embed", "store", "search", "found"}
    /\ q.pc = "search" => SearchOK(q)
    /\ q.pc = "found" => FoundOK(q)

\* In a local base nothing is excused and nothing is on its way.
LocalInv ==
    base.kind = "local" =>
        /\ excused = Nothing /\ registered = {}
        /\ \A u \in Users : LocalOK(use[u])

SearchInv == KeptInv /\ LocalInv

LEMMA SearchImplied == SearchInv => SearchComplete
BY DEF SearchInv, LocalInv, LocalOK, FoundOK, SearchComplete, At

LEMMA SearchInvInit == BaseInit => SearchInv
<1> SUFFICES ASSUME BaseInit PROVE SearchInv
  OBVIOUS
<1>1. LocalInv
  BY DEF BaseInit, LocalInv, LocalOK, NoUse
<1> QED
  BY <1>1, KeptInit DEF SearchInv

\* One goroutine that uses a local base goes on.
LEMMA LocalStep ==
    ASSUME SearchInv, NEW u \in Users, NEW q, use' = [use EXCEPT ![u] = q],
           base.kind = "local" => LocalOK(q), UNCHANGED <<base, registered, excused>>
    PROVE  LocalInv'
<1> SUFFICES ASSUME base.kind = "local", NEW v \in Users PROVE LocalOK(use'[v])
  BY DEF SearchInv, LocalInv
<1>1. use'[v] = IF v = u THEN q ELSE use[v]
  BY DEF SearchInv, KeptInv
<1> QED
  BY <1>1 DEF SearchInv, LocalInv

LEMMA LocalFails ==
    ASSUME SearchInv, NEW u \in Users, use' = [use EXCEPT ![u] = NoUse],
           UNCHANGED <<base, registered, excused>>
    PROVE  LocalInv'
<1>1. LocalOK(NoUse)
  BY DEF LocalOK, NoUse
<1> QED
  BY <1>1, LocalStep

\* Of an add there is nothing to say.
LEMMA LocalAdds ==
    ASSUME NEW q, q.pc \in {"embed", "store"}
    PROVE  LocalOK(q)
BY DEF LocalOK

\* What was acknowledged by a local base is stored.
LEMMA LocalKept ==
    ASSUME SearchInv, base.kind = "local"
    PROVE  {a.doc : a \in kept} \subseteq {entries[i].doc : i \in DOMAIN entries}
BY DEF SearchInv, LocalInv, KeptInv, Settled, Stored, Nothing

LEMMA LocalAddBegins ==
    ASSUME SearchInv, NEW u \in Users, Add(u), base.kind = "local"
    PROVE  LocalInv'
<1>1. UNCHANGED <<base, registered, excused>>
  BY DEF Add
<1>2. (\E docs \in Lists : LocalAdd(u, docs)) \/ UNCHANGED use
  BY DEF Add, OpenSearchAdd, RedisAdd, VikingAddFromText, VikingAddFromFiles
<1>3. CASE UNCHANGED use
  BY <1>1, <1>3 DEF SearchInv, LocalInv
<1>4. CASE \E docs \in Lists : LocalAdd(u, docs)
  <2>1. PICK docs \in Lists, pc \in {"embed", "store"} : Begin(u, pc, docs)
    BY <1>4 DEF LocalAdd
  <2>2. PICK chosen : chosen = Filtered(docs, Documents \ Blank)
    OBVIOUS
  <2>3. CASE chosen = <<>>
    BY <1>1, <2>1, <2>2, <2>3, LocalFails DEF Begin
  <2>4. CASE chosen # <<>>
    <3>1. PICK q : q = Adding(pc, "any", chosen, Acknowledged(ToSet(chosen)))
      OBVIOUS
    <3>2. use' = [use EXCEPT ![u] = q]
      BY <2>1, <2>2, <2>4, <3>1 DEF Begin
    <3>3. LocalOK(q)
      BY <3>1, LocalAdds DEF Adding
    <3> QED
      BY <1>1, <3>2, <3>3, LocalStep
  <2> QED
    BY <2>3, <2>4
<1> QED
  BY <1>2, <1>3, <1>4

LEMMA LocalEmbeds ==
    ASSUME SearchInv, NEW u \in Users, LocalEmbed(u)
    PROVE  LocalInv'
<1>1. UNCHANGED <<base, registered, excused>>
  BY DEF LocalEmbed, Embed, Storage
<1>2. CASE Fails(u)
  BY <1>1, <1>2, LocalFails DEF Fails
<1>3. CASE ~ Fails(u)
  <2>1. \E right : use' = [use EXCEPT ![u].pc = "store", ![u].right = right]
    BY <1>3 DEF LocalEmbed, Embed
  <2>2. PICK right : use' = [use EXCEPT ![u].pc = "store", ![u].right = right]
    BY <2>1
  <2>3. PICK r : r = use[u]
    OBVIOUS
  <2>4. PICK q : q = [r EXCEPT !.pc = "store", !.right = right]
    OBVIOUS
  <2>5. use' = [use EXCEPT ![u] = q]
    BY <2>2, <2>3, <2>4
  <2>6. r \in Adds
    BY <2>3, AddAt DEF LocalEmbed, Embed, SearchInv, Wholes
  <2>7. q.pc = "store"
    BY <2>4, <2>6 DEF Adds
  <2>8. LocalOK(q)
    BY <2>7, LocalAdds
  <2> QED
    BY <1>1, <2>5, <2>8, LocalStep
<1> QED
  BY <1>2, <1>3

LEMMA LocalSearchBegins ==
    ASSUME SearchInv, NEW u \in Users, SearchBegin(u), base.kind = "local"
    PROVE  LocalInv'
<1>1. PICK query \in Queries, asked \in Requested :
          use' = [use EXCEPT ![u] =
            [pc |-> "search", query |-> query, top |-> TopK(asked), result |-> <<>>,
             copy |-> IF base.kind = "local" THEN entries ELSE <<>>,
             before |-> {a.doc : a \in kept}]]
  BY DEF SearchBegin
<1>2. PICK q : q = [pc |-> "search", query |-> query, top |-> TopK(asked), result |-> <<>>,
             copy |-> entries, before |-> {a.doc : a \in kept}]
  OBVIOUS
<1>3. use' = [use EXCEPT ![u] = q]
  BY <1>1, <1>2
<1>4. /\ q.pc = "search" /\ q.query = query /\ q.top = TopK(asked) /\ q.copy = entries
      /\ q.before = {a.doc : a \in kept} /\ {"pc", "result"} \subseteq DOMAIN q
  BY <1>2
<1>5. TopK(asked) \in Nat \ {0} /\ query \in [Documents -> Nat]
  BY KnowledgeAssumption DEF TopK
<1>6. entries \in Rows
  BY DEF SearchInv, KeptInv, StoreTyped, Rows
<1>7. SearchOK(q)
  BY <1>4, <1>5, <1>6, LocalKept DEF SearchOK
<1>8. LocalOK(q)
  BY <1>4, <1>7 DEF LocalOK
<1> QED
  BY <1>3, <1>8, LocalStep DEF SearchBegin

LEMMA LocalSearches ==
    ASSUME SearchInv, NEW u \in Users, LocalSearch(u)
    PROVE  LocalInv'
<1>1. PICK r : r = use[u]
  OBVIOUS
<1>2. PICK found : found = Foremost(r.copy, r.query, r.top)
  OBVIOUS
<1>3. PICK q : q = [r EXCEPT !.pc = "found", !.result = found]
  OBVIOUS
<1>4. use' = [use EXCEPT ![u] = q]
  BY <1>1, <1>2, <1>3 DEF LocalSearch
<1>5. SearchOK(r)
  BY <1>1 DEF LocalSearch, At, SearchInv, LocalInv, LocalOK
<1>6. /\ q.pc = "found" /\ q.result = found /\ q.query = r.query /\ q.top = r.top
      /\ q.before = r.before
  BY <1>3, <1>5 DEF SearchOK
<1>7. ASSUME NEW d \in r.before, r.query[d] > 0
      PROVE  \/ d \in ToSet(found)
             \/ /\ Len(found) = r.top
                /\ \A n \in DOMAIN found : r.query[found[n]] >= r.query[d]
  <2>1. PICK i \in DOMAIN r.copy : d = r.copy[i].doc
    BY <1>5, <1>7 DEF SearchOK
  <2>2. i \in Candidates(r.copy, r.query)
    BY <1>7, <2>1 DEF Candidates
  <2> QED
    BY <1>2, <1>5, <2>1, <2>2, ForemostFinds DEF SearchOK
<1>8. FoundOK(q)
  BY <1>6, <1>7 DEF FoundOK
<1>9. LocalOK(q)
  BY <1>6, <1>8 DEF LocalOK
<1> QED
  BY <1>4, <1>9, LocalStep DEF LocalSearch, Storage

LEMMA SearchInvStep == SearchInv /\ [BaseNext]_baseVars => SearchInv'
<1> SUFFICES ASSUME SearchInv, [BaseNext]_baseVars PROVE SearchInv'
  OBVIOUS
<1>1. KeptInv'
  BY KeptStep DEF SearchInv
<1>2. CASE UNCHANGED baseVars
  BY <1>1, <1>2 DEF SearchInv, LocalInv, baseVars
<1>3. ASSUME NEW u \in Users, UserStep(u) PROVE LocalInv'
  <2>1. base' = base
    BY <1>3 DEF UserStep, Add, OpenSearchEnsureIndex, RedisEnsureIndex, MakeIndex, LocalEmbed,
         OpenSearchEmbed, RedisEmbed, Embed, LocalStore, OpenSearchBulk, RedisWrite, BuildKey,
         BucketExist, CreateBucket, PutObject, DocumentAddTOS, SearchBegin, LocalSearch,
         RemoteSearch, SearchEnds
  <2>2. CASE base.kind # "local"
    BY <2>1, <2>2 DEF LocalInv
  <2>3. CASE base.kind = "local"
    <3>1. use[u].pc \in {"idle", "embed", "store", "search", "found"}
      BY <2>3 DEF SearchInv, LocalInv, LocalOK
    <3>2. CASE Add(u)
      BY <2>3, <3>2, LocalAddBegins
    <3>3. CASE LocalEmbed(u)
      BY <3>3, LocalEmbeds
    <3>4. CASE LocalStore(u)
      BY <3>4, LocalFails DEF LocalStore, Succeeds
    <3>5. CASE SearchBegin(u)
      BY <2>3, <3>5, LocalSearchBegins
    <3>6. CASE LocalSearch(u)
      BY <3>6, LocalSearches
    <3>7. CASE SearchEnds(u)
      BY <3>7, LocalFails DEF SearchEnds, Fails, Storage
    <3>8. ~ (BuildKey(u) \/ BucketExist(u) \/ CreateBucket(u) \/ PutObject(u) \/ DocumentAddTOS(u))
      BY <3>1 DEF BuildKey, BucketExist, CreateBucket, PutObject, DocumentAddTOS, At
    <3>9. ~ (OpenSearchEnsureIndex(u) \/ RedisEnsureIndex(u) \/ OpenSearchEmbed(u) \/ RedisEmbed(u)
             \/ OpenSearchBulk(u) \/ RedisWrite(u) \/ RemoteSearch(u))
      BY <2>3 DEF OpenSearchEnsureIndex, RedisEnsureIndex, OpenSearchEmbed, RedisEmbed,
           OpenSearchBulk, RedisWrite, RemoteSearch, OpenSearchSearch, RedisSearch, VikingSearch
    <3> QED
      BY <1>3, <3>2, <3>3, <3>4, <3>5, <3>6, <3>7, <3>8, <3>9 DEF UserStep
  <2> QED
    BY <2>2, <2>3
<1>4. ASSUME NEW key \in DOMAIN objects, Import(key) PROVE LocalInv'
  <2>1. base' = base /\ registered # {}
    BY <1>4 DEF Import
  <2> QED
    BY <2>1 DEF SearchInv, LocalInv
<1>5. CASE Millisecond
  BY <1>1, <1>5 DEF Millisecond, SearchInv, LocalInv
<1> QED
  BY <1>1, <1>2, <1>3, <1>4, <1>5 DEF BaseNext, SearchInv

\* A search of a local base misses no document that was acknowledged before it
\* began, unless all that it returns rank as high (Search of the local backend).
THEOREM SearchesAreComplete == BaseSpec => []SearchComplete
<1>1. BaseInit => SearchInv BY SearchInvInit
<1>2. SearchInv /\ [BaseNext]_baseVars => SearchInv' BY SearchInvStep
<1>3. SearchInv => SearchComplete BY SearchImplied
<1> QED BY <1>1, <1>2, <1>3, PTL DEF BaseSpec
=============================================================================
