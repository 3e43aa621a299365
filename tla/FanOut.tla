------------------------------- MODULE FanOut -------------------------------
(***************************************************************************)
(* One call of a generation tool: image_generate, image_edit or            *)
(* video_generate (tool/builtin_tools).  The handler starts one goroutine  *)
(* per item of the request, a closer that waits for them and closes an     *)
(* unbuffered channel, and ranges over that channel to fill the two lists  *)
(* of the result.                                                          *)
(*                                                                         *)
(* A send on the channel is the step Receive, in which the worker hands    *)
(* the entry it offers to the handler.  A worker that panics has called    *)
(* wg.Done before its deferred function sends the panic entry, so that     *)
(* send may meet a closed channel and take the process down.               *)
(*                                                                         *)
(* External: the Ark service (what a call answers, when a video settles)   *)
(* and the object store an uploaded image goes to.                         *)
(***************************************************************************)
EXTENDS Integers, Sequences, FiniteSets, Bags

CONSTANTS NItems,      \* length of the request's task list
          MaxImages    \* bound: images in one answer of the service

ASSUME FanOutAssumption == NItems \in Nat /\ MaxImages \in Nat

Items      == 1 .. NItems
ImageKinds == {"nil", "url", "b64", "neither"}
Replies    == UNION {[1 .. n -> ImageKinds] : n \in 0 .. MaxImages}

\* Entries of SuccessList and ErrorList.  Image 0 stands for the whole task,
\* image -1 for the entry of a recovered panic.
Entries == [item : Items, image : -1 .. MaxImages, ok : BOOLEAN]

Entry(i, image, ok) == [item |-> i, image |-> image, ok |-> ok]

VARIABLES
    tool,       \* which handler runs
    batch,      \* VideoGenerateToolRequest.BatchSize after its default
    main,       \* the handler: creating | collecting | returned | panicked
    next,       \* video: the next item a task is created for
    phase,      \* per worker: where its goroutine is
    todo,       \* per worker: images of the answer still to turn into entries
    offer,      \* per worker: the entry it is blocked sending
    reply,      \* history: what each item was promised, as a set of images
    wg,         \* the WaitGroup's counter
    chan,       \* open | closed
    uploader,   \* uploaderOnce: unset | ready | failed | nil
    video,      \* external: the state of each item's video task
    ctx,        \* live | cancelled
    result,     \* the bag of entries in the two lists
    crashed     \* a panic nobody recovers took the process down

toolVars == <<tool, batch, main, next, phase, todo, offer, reply, wg, chan,
              uploader, video, ctx, result, crashed>>

NoOffer == Entry(1, 0, FALSE)

Started == {"calling", "building", "sending", "leaving"}   \* before wg.Done
Ended   == {"recovering", "done"}

-----------------------------------------------------------------------------
\* An image tool has started every worker before it ranges over the channel;
\* the video tool first creates the tasks one after the other.
ImageToolInit ==
    /\ tool \in {"generate", "edit"}
    /\ batch = 10
    /\ main = "collecting"
    /\ phase = [i \in Items |-> "calling"]
    /\ wg = NItems

VideoToolInit ==
    /\ tool = "video"
    /\ batch \in {-1, 10}       \* BatchSize 0 has become 10
    /\ main = "creating"
    /\ phase = [i \in Items |-> "idle"]
    /\ wg = 0

ToolInit ==
    /\ ImageToolInit \/ VideoToolInit
    /\ next = 1
    /\ todo = [i \in Items |-> <<>>]
    /\ offer = [i \in Items |-> NoOffer]
    /\ reply = [i \in Items |-> {}]
    /\ chan = "open"
    /\ uploader = "unset"
    /\ video = [i \in Items |-> "running"]
    /\ ctx = "live"
    /\ result = EmptyBag
    /\ crashed = FALSE

-----------------------------------------------------------------------------
\* What a worker does with its goroutine.

Offer(i, image, ok) ==
    /\ phase' = [phase EXCEPT ![i] = "sending"]
    /\ offer' = [offer EXCEPT ![i] = Entry(i, image, ok)]

\* The deferred function: Done first, then the panic entry is offered.
Recover(i) ==
    /\ phase' = [phase EXCEPT ![i] = "recovering"]
    /\ offer' = [offer EXCEPT ![i] = Entry(i, -1, FALSE)]
    /\ wg' = wg - 1

OutsideUnchanged == UNCHANGED <<tool, batch, main, next, chan, ctx, result, crashed>>

\* Mutant of TaskFails: a failed call returns without its error entry.
TaskFailsSilently(i) ==
    /\ ~crashed /\ tool # "video" /\ phase[i] = "calling"
    /\ phase' = [phase EXCEPT ![i] = "leaving"]
    /\ reply' = [reply EXCEPT ![i] = {0}]
    /\ OutsideUnchanged /\ UNCHANGED <<offer, todo, wg, uploader, video>>

\* An edit without prompt or without image is refused before the call; a call
\* that fails, and an answer that carries an error, make one error entry.
TaskFails(i) ==
    /\ ~crashed /\ tool # "video" /\ phase[i] = "calling"
    /\ Offer(i, 0, FALSE)
    /\ reply' = [reply EXCEPT ![i] = {0}]
    /\ OutsideUnchanged /\ UNCHANGED <<todo, wg, uploader, video>>

\* An answer with images is worked off one by one.  An edit answered with no
\* image is one error entry; image_generate reports nothing for it.
TaskAnswers(i) ==
    /\ ~crashed /\ tool # "video" /\ phase[i] = "calling"
    /\ \E images \in Replies :
          /\ todo' = [todo EXCEPT ![i] = images]
          /\ IF images = <<>> /\ tool = "edit"
             THEN /\ reply' = [reply EXCEPT ![i] = {0}]
                  /\ Offer(i, 0, FALSE)
             ELSE /\ reply' = [reply EXCEPT ![i] = 1 .. Len(images)]
                  /\ phase' = [phase EXCEPT ![i] =
                                 IF images = <<>> THEN "leaving" ELSE "building"]
                  /\ UNCHANGED offer
    /\ OutsideUnchanged /\ UNCHANGED <<wg, uploader, video>>

\* The image of todo the worker is at, as the loop counts them.
ImageAt(i) == Cardinality(reply[i]) - Len(todo[i]) + 1

NextImage(i, ok) ==
    /\ Offer(i, ImageAt(i), ok)
    /\ todo' = [todo EXCEPT ![i] = Tail(todo[i])]

\* An image that needs no upload: a URL, an empty image, or what image_edit
\* hands on as base64.
BuildImage(i) ==
    /\ ~crashed /\ phase[i] = "building"
    /\ tool = "edit" \/ Head(todo[i]) # "b64"
    /\ NextImage(i, Head(todo[i]) \in {"url", "b64"})
    /\ OutsideUnchanged /\ UNCHANGED <<reply, wg, uploader, video>>

\* uploaderOnce.Do: the first caller makes the uploader, and its outcome stays.
\* A panic inside leaves the Once done with neither an uploader nor an error.
GetUploader ==
    IF uploader = "unset" THEN uploader' \in {"ready", "failed", "nil"}
                          ELSE UNCHANGED uploader

\* An image in base64 is decoded and put in the object store under a key made
\* of the item's and the image's index.  What is not base64 never asks for the
\* uploader; UploadBytes of a nil uploader panics, as making it did.
UploadImage(i) ==
    /\ ~crashed /\ phase[i] = "building"
    /\ tool = "generate" /\ Head(todo[i]) = "b64"
    /\ \/ NextImage(i, FALSE) /\ UNCHANGED <<uploader, wg>>
       \/ /\ GetUploader
          /\ \/ /\ uploader' = "ready"
                /\ \E ok \in BOOLEAN : NextImage(i, ok)
                /\ UNCHANGED wg
             \/ uploader' = "failed" /\ NextImage(i, FALSE) /\ UNCHANGED wg
             \/ uploader' = "nil" /\ Recover(i) /\ UNCHANGED todo
    /\ OutsideUnchanged /\ UNCHANGED <<reply, video>>

\* The client panics inside a call.
CallPanics(i) ==
    /\ ~crashed /\ phase[i] = "calling"
    /\ Recover(i)
    /\ OutsideUnchanged /\ UNCHANGED <<todo, reply, uploader, video>>

\* The worker's function returns: its deferred function calls Done.
WorkerLeaves(i) ==
    /\ ~crashed /\ phase[i] = "leaving"
    /\ phase' = [phase EXCEPT ![i] = "done"]
    /\ wg' = wg - 1
    /\ OutsideUnchanged /\ UNCHANGED <<todo, offer, reply, uploader, video>>

\* A send on a closed channel panics outside any recover.
SendOnClosed(i) ==
    /\ ~crashed /\ chan = "closed"
    /\ phase[i] \in {"sending", "recovering"}
    /\ crashed' = TRUE
    /\ UNCHANGED <<tool, batch, main, next, phase, todo, offer, reply, wg, chan,
                   uploader, video, ctx, result>>

-----------------------------------------------------------------------------
\* The video tool: tasks are created in order by the handler itself; a task
\* that cannot be created is an error entry the handler appends at once.

\* A batch of negative size slices the request out of range.
BatchPanics ==
    /\ main = "creating" /\ batch < 0 /\ next <= NItems
    /\ main' = "panicked"
    /\ UNCHANGED <<tool, batch, next, phase, todo, offer, reply, wg, chan,
                   uploader, video, ctx, result, crashed>>

CreateTask ==
    /\ ~crashed /\ main = "creating" /\ batch > 0 /\ next <= NItems
    /\ next' = next + 1
    /\ reply' = [reply EXCEPT ![next] = {0}]
    /\ \/ /\ ctx = "live"
          /\ phase' = [phase EXCEPT ![next] = "calling"]
          /\ wg' = wg + 1
          /\ UNCHANGED result
       \/ /\ result' = result (+) SetToBag({Entry(next, 0, FALSE)})
          /\ UNCHANGED <<phase, wg>>
    /\ UNCHANGED <<tool, batch, main, todo, offer, chan, uploader, video, ctx, crashed>>

\* After the loop the closer is started and the handler starts to receive.
StartCollecting ==
    /\ ~crashed /\ main = "creating" /\ next > NItems
    /\ main' = "collecting"
    /\ UNCHANGED <<tool, batch, next, phase, todo, offer, reply, wg, chan,
                   uploader, video, ctx, result, crashed>>

\* Mutant of PollVideo: the loop knows no task that failed.
PollSucceeded(i) ==
    /\ ~crashed /\ tool = "video" /\ phase[i] = "calling"
    /\ \/ ctx = "cancelled" /\ Offer(i, 0, FALSE)
       \/ ctx = "live" /\ video[i] = "succeeded" /\ Offer(i, 0, TRUE)
    /\ OutsideUnchanged /\ UNCHANGED <<todo, reply, wg, uploader, video>>

\* The poll that ends the loop for certain: no call succeeds once the context is
\* cancelled, and "succeeded" and "failed" are final.  Any other status,
\* "cancelled" too, is asked again after ten seconds, without a limit.
PollVideo(i) ==
    /\ ~crashed /\ tool = "video" /\ phase[i] = "calling"
    /\ \/ ctx = "cancelled" /\ Offer(i, 0, FALSE)
       \/ ctx = "live" /\ video[i] \in {"succeeded", "failed"}
          /\ Offer(i, 0, video[i] = "succeeded")
    /\ OutsideUnchanged /\ UNCHANGED <<todo, reply, wg, uploader, video>>

\* Any poll may fail, or be answered with an error, but none has to.
PollFails(i) ==
    /\ ~crashed /\ tool = "video" /\ phase[i] = "calling" /\ ctx = "live"
    /\ Offer(i, 0, FALSE)
    /\ OutsideUnchanged /\ UNCHANGED <<todo, reply, wg, uploader, video>>

\* External: the service finishes a video, or somebody cancels the task there.
VideoSettles(i) ==
    /\ tool = "video" /\ phase[i] = "calling" /\ video[i] = "running"
    /\ \E status \in {"succeeded", "failed", "cancelled"} :
          video' = [video EXCEPT ![i] = status]
    /\ UNCHANGED <<tool, batch, main, next, phase, todo, offer, reply, wg, chan,
                   uploader, ctx, result, crashed>>

\* External: the caller gives up, so every later call of the service fails.
Cancel ==
    /\ tool = "video" /\ ctx = "live" /\ main \in {"creating", "collecting"}
    /\ ctx' = "cancelled"
    /\ UNCHANGED <<tool, batch, main, next, phase, todo, offer, reply, wg, chan,
                   uploader, video, result, crashed>>

-----------------------------------------------------------------------------
\* The rendezvous of a worker's send with the handler's receive.  The worker
\* goes on with its next image, returns, or is over when it had panicked.
Receive(i) ==
    /\ ~crashed /\ main = "collecting" /\ chan = "open"
    /\ phase[i] \in {"sending", "recovering"}
    /\ result' = result (+) SetToBag({offer[i]})
    /\ phase' = [phase EXCEPT ![i] =
                   CASE phase[i] = "recovering" -> "done"
                     [] phase[i] = "sending" /\ todo[i] # <<>> -> "building"
                     [] OTHER -> "leaving"]
    /\ offer' = [offer EXCEPT ![i] = NoOffer]
    /\ UNCHANGED <<tool, batch, main, next, todo, reply, wg, chan, uploader,
                   video, ctx, crashed>>

\* Mutant of CloserCloses: it closes when the last worker is about to return.
CloserClosesEarly ==
    /\ ~crashed /\ main = "collecting" /\ chan = "open"
    /\ wg <= 1
    /\ chan' = "closed"
    /\ UNCHANGED <<tool, batch, main, next, phase, todo, offer, reply, wg,
                   uploader, video, ctx, result, crashed>>

\* wg.Wait, then close(ch).
CloserCloses ==
    /\ ~crashed /\ main = "collecting" /\ chan = "open"
    /\ wg = 0
    /\ chan' = "closed"
    /\ UNCHANGED <<tool, batch, main, next, phase, todo, offer, reply, wg,
                   uploader, video, ctx, result, crashed>>

\* The range over the closed channel ends and the handler returns both lists.
HandlerReturns ==
    /\ ~crashed /\ main = "collecting" /\ chan = "closed"
    /\ main' = "returned"
    /\ UNCHANGED <<tool, batch, next, phase, todo, offer, reply, wg, chan,
                   uploader, video, ctx, result, crashed>>

WorkerStep(i) ==
    \/ TaskFails(i) \/ TaskAnswers(i) \/ BuildImage(i) \/ UploadImage(i)
    \/ WorkerLeaves(i) \/ PollVideo(i)

HandlerStep ==
    \/ CreateTask \/ BatchPanics \/ StartCollecting
    \/ CloserCloses \/ HandlerReturns
    \/ \E i \in Items : Receive(i)

ToolNext ==
    \/ HandlerStep
    \/ \E i \in Items : WorkerStep(i) \/ PollFails(i) \/ CallPanics(i) \/ SendOnClosed(i)
    \/ \E i \in Items : VideoSettles(i)
    \/ Cancel

\* Goroutines are scheduled, and the service answers a call and lets no task run
\* for ever.  Nobody has to cancel, and nothing has to fail or to panic: a poll
\* loop ends by PollVideo alone.
ToolFairness ==
    /\ WF_toolVars(HandlerStep)
    /\ \A i \in Items : WF_toolVars(WorkerStep(i))
    /\ \A i \in Items : WF_toolVars(SendOnClosed(i))
    /\ \A i \in Items : WF_toolVars(VideoSettles(i))

ToolSpec == ToolInit /\ [][ToolNext]_toolVars /\ ToolFairness

-----------------------------------------------------------------------------
HasPanicked(i) == phase[i] = "recovering" \/ BagIn(Entry(i, -1, FALSE), result)

Copies(e) == IF BagIn(e, result) THEN result[e] ELSE 0
CountOf(i, image) == Copies(Entry(i, image, TRUE)) + Copies(Entry(i, image, FALSE))

\* When the handler returns, each image an item was promised is in exactly one
\* of the two lists exactly once, and nothing else is; only the items whose
\* goroutine panicked may lack images.
AllAccounted ==
    main = "returned" =>
       \A i \in Items, image \in 0 .. MaxImages :
          \/ CountOf(i, image) = 1 /\ image \in reply[i]
          \/ CountOf(i, image) = 0 /\ (image \in reply[i] => HasPanicked(i))

\* Once the channel is closed no goroutine has an entry of a task left to send,
\* so the process goes down (SendOnClosed) only on the entry of a recovered
\* panic, whose goroutine was the last to call Done.
ClosedAfterSends ==
    chan = "closed" => \A i \in Items : phase[i] \in {"idle"} \cup Ended

\* A poll loop that only an error or the caller's giving up would end: the task
\* was cancelled at the service.
PolledForever(i) ==
    phase[i] = "calling" /\ video[i] = "cancelled" /\ ctx = "live"

\* Every worker comes to its end, whatever the service answers and whichever others
\* do not, unless it polls a task that was cancelled; and the handler returns
\* unless such a worker keeps it.
CallsEnd ==
    <>[](\/ crashed \/ main = "panicked"
         \/ /\ \A i \in Items : phase[i] \in {"idle", "done"} \/ PolledForever(i)
            /\ \/ main = "returned"
               \/ main = "collecting" /\ \E i \in Items : PolledForever(i))
=============================================================================
