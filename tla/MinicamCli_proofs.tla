-------------------------- MODULE MinicamCli_proofs --------------------------
(***************************************************************************)
(* Safety of the application for every set of command lines, every number  *)
(* of buffers and every number of frames: no buffer changes hands while it *)
(* is read, images are made of the buffer that was filled and are written, *)
(* and the prompt finds every lease accounted for.                         *)
(***************************************************************************)
EXTENDS MinicamCli, FiniteSetTheorems, TLAPS

\* What the records of the threads and tables may hold.
Buffers == Nat \cup {NoBuffer}
Ids == Nat \cup {NoId}
EntrySet == [frame : Nat, id : Ids, buffer : Buffers]
Outcomes == Results \cup {"none"}
JobSet == [id : Ids, buffer : Buffers, own : Buffers,
           pc : {"reading", "signal", "done"}, failed : BOOLEAN]
WriteSet == [path : BOOLEAN, result : Outcomes]
WriterSet == [pc : {"take", "fence", "signal", "done"}, id : Ids]
WorkerPcs == {"idle", "result", "callback", "push", "inline", "return", "requeue"}
WorkerSet == [pc : WorkerPcs, entry : EntrySet, result : Outcomes]
CliPcs == {"preview", "prompt", "submit", "wait", "fence", "swap", "join", "close",
           "flushed", "release", "stop", "exit"}
CliSet == [pc : CliPcs, entry : EntrySet, result : Outcomes, frames : SUBSET Nat]

\* The buffers main registers for the preview stream before its first wait.
PreviewBuffers ==
  IF options.preview THEN [id \in 0..(BufferCount - 1) |-> id + 1] ELSE NoBuffers

Shape ==
  /\ options \in Options
  /\ captures \in [DOMAIN captures -> Nat]
  /\ previews = PreviewBuffers \/ previews = NoBuffers
  /\ pending \in [DOMAIN pending -> WriteSet]
  /\ jobs \in [DOMAIN jobs -> JobSet]
  /\ tasks \in Seq(EntrySet) /\ device \in SUBSET EntrySet
  /\ open \in BOOLEAN /\ lock = (IF worker.pc = "requeue" THEN "worker" ELSE "free")
  /\ worker \in WorkerSet /\ cli \in CliSet
  /\ writers \in [DOMAIN writers -> WriterSet]
  /\ preview_workers \subseteq DOMAIN writers /\ DOMAIN writers \subseteq Nat
  /\ written \in Nat
  /\ nextFrame \in 1..(options.captures + 1) /\ nextPreview \in Nat
  /\ nextPreview >= PreviewBase
  /\ timedOut \subseteq Stills

\* Points of main: with a still in hand, and while stills are taken at all.
Busy == {"submit", "wait", "fence"}
Asking == Busy \cup {"prompt"}
BeforeClose == Asking \cup {"preview", "swap", "join", "close"}
\* Points of the worker at which it holds a preview frame.
Carrying == {"callback", "push", "inline", "return", "requeue"}

\* The order main does things in.
PhaseInv ==
  /\ cli.pc \in Asking => ~SavesPreview(options)
  /\ SavesPreview(options) => DOMAIN captures = {}
  /\ open <=> cli.pc \in BeforeClose
  /\ ~open => device = {}
  /\ worker.pc = "requeue" => open
  /\ cli.pc \notin {"stop", "exit"} => previews = PreviewBuffers

\* Frame numbers that have been given out.
UsedStill(f) == f \in Stills /\ f < nextFrame
UsedPreview(f) == f \in PreviewFrames /\ f < nextPreview
Used(f) == UsedStill(f) \/ UsedPreview(f)

NumberInv ==
  /\ \A f \in DOMAIN captures : UsedStill(f)
  /\ \A f \in DOMAIN pending : Used(f)
  /\ \A f \in DOMAIN jobs : Used(f)
  /\ \A f \in missing : Used(f)
  /\ \A f \in DOMAIN writers : UsedPreview(f)
  /\ \A k \in DOMAIN tasks : UsedStill(tasks[k].frame)
  /\ \A e \in device : UsedStill(e.frame) \/ (IsPreview(e.frame) /\ e.frame < nextPreview)
  /\ worker.pc = "result" => UsedStill(worker.entry.frame)
  /\ worker.pc \in Carrying => UsedPreview(worker.entry.frame)
  /\ worker.pc \in {"push", "inline"} => worker.entry.frame \in DOMAIN writers
  /\ cli.pc \in Busy => UsedStill(cli.entry.frame)
  /\ cli.pc = "flushed" => \A f \in cli.frames : UsedStill(f)

\* A frame is in one place at a time, and only once anywhere.
PlaceInv ==
  /\ \A j, k \in DOMAIN tasks : tasks[j].frame = tasks[k].frame => j = k
  /\ \A k \in DOMAIN tasks :
       /\ \A e \in device : e.frame # tasks[k].frame
       /\ worker.pc = "result" => worker.entry.frame # tasks[k].frame
       /\ tasks[k].frame \notin DOMAIN jobs \cup missing
  /\ \A e, x \in device : e.frame = x.frame => e = x
  /\ \A e \in device : /\ worker.pc # "idle" => e.frame # worker.entry.frame
                       /\ e.frame \notin DOMAIN jobs \cup missing \cup DOMAIN writers
  /\ cli.pc \in {"submit", "fence"} =>
       /\ \A k \in DOMAIN tasks : tasks[k].frame # cli.entry.frame
       /\ \A e \in device : e.frame # cli.entry.frame
       /\ worker.pc = "result" => worker.entry.frame # cli.entry.frame
  /\ cli.pc = "submit" => cli.entry.frame \notin DOMAIN jobs \cup missing
  /\ worker.pc = "callback" => worker.entry.frame \notin DOMAIN writers

\* A still whose result is still to come.
InFlight(f) ==
  \/ \E k \in DOMAIN tasks : tasks[k].frame = f
  \/ \E e \in device : e.frame = f /\ ~IsPreview(f)
  \/ worker.pc = "result" /\ worker.entry.frame = f

\* While commands are read, every lease, every pending entry and every result to
\* come is the current still's or one that was given up.
AccountInv ==
  /\ cli.pc \in Asking =>
       /\ \A f \in DOMAIN captures : f \in timedOut \/ (cli.pc \in Busy /\ f = cli.entry.frame)
       /\ \A f \in DOMAIN pending :
            f \in timedOut \/ (cli.pc \in {"submit", "wait"} /\ f = cli.entry.frame)
       /\ \A f \in Stills : InFlight(f) =>
            f \in timedOut \/ (cli.pc = "wait" /\ f = cli.entry.frame)
  /\ cli.pc = "submit" \/ (cli.pc = "wait" /\ InFlight(cli.entry.frame)) =>
       PendingWrite(pending, cli.entry.frame).result = "none"
  /\ open => /\ worker.result # "empty"
             /\ \A f \in DOMAIN pending : pending[f].result # "empty"

\* The id and the buffer of a still and of a preview frame.
StillEntry(e) ==
  IF options.v4l2
  THEN e.id = e.frame /\ (open => e.frame \in DOMAIN captures /\ captures[e.frame] = e.buffer)
  ELSE e.id = NoId /\ e.buffer = NoBuffer
PreviewEntry(e) ==
  options.preview /\ e.id \in 0..(BufferCount - 1) /\ e.buffer = e.id + 1

\* Who holds which buffer: leases are distinct, entries carry the buffer that is
\* leased for them, and a preview buffer is with the device or the worker.
LeaseInv ==
  /\ ~options.v4l2 => DOMAIN captures = {}
  /\ \A f, g \in DOMAIN captures : captures[f] = captures[g] => f = g
  /\ \A f \in DOMAIN captures, id \in DOMAIN previews : captures[f] # previews[id]
  /\ \A k \in DOMAIN tasks : StillEntry(tasks[k])
  /\ \A e \in device : IF IsPreview(e.frame) THEN PreviewEntry(e) ELSE StillEntry(e)
  /\ \A e, x \in device : IsPreview(e.frame) /\ IsPreview(x.frame) /\ e.id = x.id => e = x
  /\ cli.pc \in Busy => StillEntry(cli.entry)
  /\ worker.pc \in Carrying =>
       /\ PreviewEntry(worker.entry)
       /\ \A e \in device : IsPreview(e.frame) => e.id # worker.entry.id

\* The buffer an encoder thread reads is the one leased for its frame.
JobInv ==
  \A f \in DOMAIN jobs :
    /\ jobs[f].pc = "reading" => ~jobs[f].failed
    /\ IsPreview(f) => /\ options.preview /\ jobs[f].id \in 0..(BufferCount - 1)
                       /\ jobs[f].own = jobs[f].id + 1
    /\ ~IsPreview(f) /\ ~options.v4l2 => jobs[f].own = NoBuffer
    /\ ~IsPreview(f) /\ options.v4l2 /\ jobs[f].pc = "reading"
          /\ cli.pc \notin {"stop", "exit"} =>
         f \in DOMAIN captures /\ captures[f] = jobs[f].own
    /\ worker.pc \in Carrying /\ worker.entry.frame = f => jobs[f].id = worker.entry.id

\* The image of frame f, if its encoder has made one, waits in the store.
Untaken(f, id) ==
  f \in DOMAIN jobs =>
    /\ jobs[f].id = id
    /\ jobs[f].pc # "reading" /\ ~jobs[f].failed => KeyOf(f, id) \in encoded

\* Images are there for whoever is to write them; a writer passes the fence only
\* when it is signalled, and the worker keeps the buffer of a writer at work.
ImageInv ==
  /\ cli.pc \in Busy => Untaken(cli.entry.frame, cli.entry.id)
  /\ worker.pc = "callback" => Untaken(worker.entry.frame, worker.entry.id)
  /\ \A f \in DOMAIN writers :
       /\ options.preview /\ writers[f].id \in 0..(BufferCount - 1)
       /\ writers[f].pc \in {"take", "fence"} => Untaken(f, writers[f].id)
       /\ writers[f].pc \in {"signal", "done"} => Signalled(jobs, f)
       /\ open /\ writers[f].pc # "done" =>
            worker.entry.frame = f /\ worker.pc \in Carrying \ {"callback"}

\* Threads that save preview frames are started only when some are to be saved.
SaverInv ==
  /\ asleep \in BOOLEAN
  /\ DOMAIN writers # {} => SavesPreview(options)

Inv == /\ Shape /\ PhaseInv /\ NumberInv /\ PlaceInv /\ AccountInv /\ LeaseInv
       /\ JobInv /\ ImageInv /\ SaverInv /\ EncodesOwnBuffer /\ ImageWritten

\* Nothing has moved, except that the worker may have fallen asleep or woken up.
AtRest ==
  UNCHANGED <<options, captures, previews, pending, encoded, jobs, tasks, device, open,
              lock, worker, writers, preview_workers, written, cli, nextFrame,
              nextPreview, timedOut, missing>>

USE DEF trackerVars, encoderVars, sessionVars, previewVars, numberVars, historyVars

\* What the assumptions say of the command line in use.
LEMMA OptionTypes ==
  ASSUME options \in Options
  PROVE  /\ options.captures \in Nat /\ options.captures < PreviewBase
         /\ options.count \in Nat /\ options.frames \in Nat
         /\ options.preview => options.v4l2
         /\ BufferCount \in Nat \ {0} /\ PreviewBase \in Nat
         /\ NoId \notin Nat /\ NoBuffer \notin Nat
<1>1. PreviewBase \in Nat /\ options.captures \in 0..(PreviewBase - 1)
  BY CliAssumption
<1>2. options.captures \in Nat /\ options.captures < PreviewBase
  BY <1>1
<1>3. QED  BY <1>2, CliAssumption

\* The records the actions build.
LEMMA RecordTypes ==
  /\ \A f \in Nat, id \in Ids, b \in Buffers :
       /\ Entry(f, id, b) \in EntrySet /\ Entry(f, id, b).frame = f
       /\ Entry(f, id, b).id = id /\ Entry(f, id, b).buffer = b
  /\ IdleWorker \in WorkerSet /\ IdleWorker.pc = "idle" /\ IdleWorker.result = "none"
  /\ \A pc \in CliPcs : /\ CliAt(pc) \in CliSet /\ CliAt(pc).pc = pc
                        /\ CliAt(pc).result = "none" /\ CliAt(pc).frames = {}
<1>1. \A f \in Nat, id \in Ids, b \in Buffers :
        /\ Entry(f, id, b) \in EntrySet /\ Entry(f, id, b).frame = f
        /\ Entry(f, id, b).id = id /\ Entry(f, id, b).buffer = b
  BY DEF Entry, EntrySet
<1>2. NoEntry \in EntrySet
  BY <1>1 DEF NoEntry, Ids, Buffers
<1>3. IdleWorker \in WorkerSet /\ IdleWorker.pc = "idle" /\ IdleWorker.result = "none"
  BY <1>2 DEF IdleWorker, WorkerSet, WorkerPcs, Outcomes
<1>4. \A pc \in CliPcs : /\ CliAt(pc) \in CliSet /\ CliAt(pc).pc = pc
                         /\ CliAt(pc).result = "none" /\ CliAt(pc).frames = {}
  BY <1>2 DEF CliAt, CliSet, Outcomes
<1>5. QED  BY <1>1, <1>3, <1>4

\* A thread that moves on keeps its entry, its result and its frames.
LEMMA MoveOn ==
  /\ \A x \in CliSet, pc \in CliPcs :
       /\ [x EXCEPT !.pc = pc] \in CliSet /\ [x EXCEPT !.pc = pc].pc = pc
       /\ [x EXCEPT !.pc = pc].entry = x.entry /\ [x EXCEPT !.pc = pc].result = x.result
       /\ [x EXCEPT !.pc = pc].frames = x.frames
  /\ \A x \in WorkerSet, pc \in WorkerPcs :
       /\ [x EXCEPT !.pc = pc] \in WorkerSet /\ [x EXCEPT !.pc = pc].pc = pc
       /\ [x EXCEPT !.pc = pc].entry = x.entry /\ [x EXCEPT !.pc = pc].result = x.result
  /\ \A x \in CliSet : x.pc \in CliPcs /\ x.entry \in EntrySet /\ x.result \in Outcomes
                       /\ x.frames \in SUBSET Nat
  /\ \A x \in WorkerSet : x.pc \in WorkerPcs /\ x.entry \in EntrySet /\ x.result \in Outcomes
  /\ \A e \in EntrySet : e.frame \in Nat /\ e.id \in Ids /\ e.buffer \in Buffers
  BY DEF CliSet, WorkerSet, EntrySet

\* The tables after an insertion, a removal and a step of one thread.
LEMMA Emplaced ==
  ASSUME NEW S, NEW m, m \in [DOMAIN m -> S], NEW k, NEW v \in S
  PROVE  /\ Emplace(m, k, v) \in [DOMAIN Emplace(m, k, v) -> S]
         /\ DOMAIN Emplace(m, k, v) = DOMAIN m \cup {k}
         /\ \A x \in DOMAIN m : Emplace(m, k, v)[x] = m[x]
         /\ k \notin DOMAIN m => Emplace(m, k, v)[k] = v
  BY DEF Emplace

\* A table without one of its keys.
LEMMA Restricted ==
  ASSUME NEW S, NEW m, m \in [DOMAIN m -> S], NEW k
  PROVE  LET r == Restrict(m, DOMAIN m \ {k}) IN
         /\ r \in [DOMAIN r -> S] /\ DOMAIN r = DOMAIN m \ {k}
         /\ \A x \in DOMAIN r : r[x] = m[x]
  BY DEF Restrict

\* The result tables after register_path, register_result and cancel.
LEMMA PendingTypes ==
  ASSUME NEW p, p \in [DOMAIN p -> WriteSet], NEW f
  PROVE  /\ PendingWrite(p, f) \in WriteSet
         /\ RegisterPath(p, f) \in [DOMAIN p \cup {f} -> WriteSet]
         /\ DOMAIN RegisterPath(p, f) = DOMAIN p \cup {f}
         /\ \A x : PendingWrite(RegisterPath(p, f), x).result = PendingWrite(p, x).result
         /\ Cancel(p, f) \in [DOMAIN p \ {f} -> WriteSet]
         /\ DOMAIN Cancel(p, f) = DOMAIN p \ {f}
         /\ \A x \in DOMAIN p \ {f} : Cancel(p, f)[x] = p[x]
<1>1. \A x : PendingWrite(p, x) \in WriteSet
  BY DEF PendingWrite, WriteSet, Outcomes
<1>2. /\ RegisterPath(p, f) \in [DOMAIN p \cup {f} -> WriteSet]
      /\ DOMAIN RegisterPath(p, f) = DOMAIN p \cup {f}
      /\ \A x \in DOMAIN p \cup {f} :
           RegisterPath(p, f)[x].result = PendingWrite(p, x).result
  BY <1>1 DEF RegisterPath, WriteSet, PendingWrite
<1>3. \A x : PendingWrite(RegisterPath(p, f), x).result = PendingWrite(p, x).result
  BY <1>2 DEF PendingWrite
<1>4. QED  BY <1>1, <1>2, <1>3 DEF Cancel, Restrict

\* register_result leaves the entries of other frames alone.
LEMMA ResultTypes ==
  ASSUME NEW p, p \in [DOMAIN p -> WriteSet], NEW F, NEW r \in Outcomes
  PROVE  /\ RegisterResults(p, F, r) \in [DOMAIN p \cup F -> WriteSet]
         /\ DOMAIN RegisterResults(p, F, r) = DOMAIN p \cup F
         /\ \A x \in F : RegisterResults(p, F, r)[x].result = r
         /\ \A x \in DOMAIN p \ F : RegisterResults(p, F, r)[x] = p[x]
<1>1. \A x \in F : PendingWrite(p, x) \in WriteSet
  BY PendingTypes
<1>2. QED  BY <1>1 DEF RegisterResults, WriteSet

\* The encoder threads after a step of one of them.
LEMMA JobTypes ==
  ASSUME NEW j, j \in [DOMAIN j -> JobSet], NEW f \in DOMAIN j, NEW ok \in BOOLEAN
  PROVE  /\ Encoded(j, f, ok) \in [DOMAIN j -> JobSet]
         /\ DOMAIN Encoded(j, f, ok) = DOMAIN j
         /\ \A x \in DOMAIN j : /\ Encoded(j, f, ok)[x].id = j[x].id
                                /\ Encoded(j, f, ok)[x].own = j[x].own
                                /\ Encoded(j, f, ok)[x].buffer = j[x].buffer
                                /\ x # f => Encoded(j, f, ok)[x] = j[x]
         /\ Encoded(j, f, ok)[f].pc = "signal" /\ Encoded(j, f, ok)[f].failed = ~ok
         /\ SignalFence(j, f) \in [DOMAIN j -> JobSet]
         /\ DOMAIN SignalFence(j, f) = DOMAIN j
         /\ \A x \in DOMAIN j : /\ SignalFence(j, f)[x].id = j[x].id
                                /\ SignalFence(j, f)[x].own = j[x].own
                                /\ SignalFence(j, f)[x].buffer = j[x].buffer
                                /\ SignalFence(j, f)[x].failed = j[x].failed
                                /\ x # f => SignalFence(j, f)[x] = j[x]
         /\ SignalFence(j, f)[f].pc = "done"
  BY DEF Encoded, SignalFence, JobSet

\* The writer threads after a step of one of them.
LEMMA WriterTypes ==
  ASSUME writers \in [DOMAIN writers -> WriterSet], NEW f \in DOMAIN writers,
         NEW pc \in {"take", "fence", "signal", "done"}, WriterAt(f, pc)
  PROVE  /\ writers' \in [DOMAIN writers' -> WriterSet]
         /\ DOMAIN writers' = DOMAIN writers
         /\ \A x \in DOMAIN writers : /\ writers'[x].id = writers[x].id
                                      /\ x # f => writers'[x] = writers[x]
         /\ writers'[f].pc = pc
  BY DEF WriterAt, WriterSet

\* Free buffers are numbers that no tracker holds.
LEMMA FreeBuffers ==
  ASSUME options \in Options, NEW b \in Free
  PROVE  /\ options.v4l2 /\ b \in Nat /\ b \in Buffers
         /\ \A f \in DOMAIN captures : captures[f] # b
         /\ \A id \in DOMAIN previews : previews[id] # b
  BY OptionTypes DEF Free, Pool, Leased, Buffers

\* The preview tracker, while it has its buffers and when it is empty.
LEMMA PreviewDomain ==
  /\ DOMAIN NoBuffers = {}
  /\ options.preview => /\ DOMAIN PreviewBuffers = 0..(BufferCount - 1)
                        /\ \A id \in 0..(BufferCount - 1) : PreviewBuffers[id] = id + 1
  /\ ~options.preview => DOMAIN PreviewBuffers = {}
  /\ previews = PreviewBuffers \/ previews = NoBuffers =>
       \A id \in DOMAIN previews : previews[id] \in Nat \ {0} /\ previews[id] = id + 1
<1>1. DOMAIN NoBuffers = {}
  BY DEF NoBuffers
<1>2. options.preview => PreviewBuffers = [id \in 0..(BufferCount - 1) |-> id + 1]
  BY DEF PreviewBuffers
<1>3. ~options.preview => PreviewBuffers = NoBuffers
  BY DEF PreviewBuffers
<1>4. options.preview => /\ DOMAIN PreviewBuffers = 0..(BufferCount - 1)
                         /\ \A id \in 0..(BufferCount - 1) : PreviewBuffers[id] = id + 1
  BY <1>2
<1>5. BufferCount \in Nat
  BY CliAssumption
<1>6. \A id \in 0..(BufferCount - 1) : id + 1 \in Nat \ {0}
  BY <1>5
<1>7. QED  BY <1>1, <1>3, <1>4, <1>6

\* What the capture command does: nothing but use up a number when the pool is
\* empty, and otherwise a lease and a path under the frame's number.
LEMMA CaptureEffect ==
  ASSUME Shape, NumberInv, Capture
  PROVE  /\ cli.pc = "prompt" /\ nextFrame' = nextFrame + 1
         /\ nextFrame \in Stills /\ nextFrame' \in 1..(options.captures + 1)
         /\ ~Used(nextFrame)
         /\ \/ UNCHANGED <<captures, pending, cli>>
            \/ /\ pending' = RegisterPath(pending, nextFrame)
               /\ cli' \in CliSet /\ cli'.pc = "submit" /\ cli'.entry.frame = nextFrame
               /\ \/ /\ ~options.v4l2 /\ UNCHANGED captures
                     /\ cli'.entry.id = NoId /\ cli'.entry.buffer = NoBuffer
                  \/ /\ options.v4l2 /\ cli'.entry.buffer \in Free
                     /\ captures' = Emplace(captures, nextFrame, cli'.entry.buffer)
                     /\ cli'.entry.id = nextFrame
<1>1. /\ cli.pc = "prompt" /\ nextFrame' = nextFrame + 1 /\ nextFrame <= options.captures
      /\ options' = options
  BY DEF Capture
<1>2. nextFrame \in Stills /\ nextFrame' \in 1..(options.captures + 1)
  BY <1>1, OptionTypes DEF Shape, Stills
<1>3. ~Used(nextFrame)
  <2>1. \A o \in Options : o.frames \in Nat /\ PreviewBase \in Nat
    BY CliAssumption
  <2>2. \A f \in PreviewFrames : f \in Nat /\ f >= PreviewBase
    BY <2>1 DEF PreviewFrames
  <2> QED BY <1>2, <2>2, OptionTypes DEF Used, UsedStill, UsedPreview, Stills, Shape
<1> DEFINE Request(id, b) ==
      /\ pending' = RegisterPath(pending, nextFrame)
      /\ cli' = [CliAt("submit") EXCEPT !.entry = Entry(nextFrame, id, b)]
<1>4. ASSUME NEW id \in Ids, NEW b \in Buffers, Request(id, b)
      PROVE  /\ pending' = RegisterPath(pending, nextFrame)
             /\ cli' \in CliSet /\ cli'.pc = "submit" /\ cli'.entry.frame = nextFrame
             /\ cli'.entry.id = id /\ cli'.entry.buffer = b
  <2>1. CliAt("submit") \in CliSet /\ CliAt("submit").pc = "submit"
    BY RecordTypes DEF CliPcs
  <2>2. nextFrame \in Nat
    BY OptionTypes DEF Shape
  <2>3. /\ Entry(nextFrame, id, b) \in EntrySet /\ Entry(nextFrame, id, b).frame = nextFrame
        /\ Entry(nextFrame, id, b).id = id /\ Entry(nextFrame, id, b).buffer = b
    BY <2>2, RecordTypes
  <2> QED BY <1>4, <2>1, <2>3 DEF CliSet
<1>5. \/ ~options.v4l2 /\ Request(NoId, NoBuffer) /\ UNCHANGED captures
      \/ \E b \in Free : captures' = RegisterBuffer(captures, nextFrame, b) /\ Request(nextFrame, b)
      \/ UNCHANGED <<captures, pending, cli>>
  BY Zenon DEF Capture
<1>6. nextFrame \in Ids /\ NoId \in Ids /\ NoBuffer \in Buffers
  BY OptionTypes DEF Shape, Ids, Buffers
<1>7. CASE ~options.v4l2 /\ Request(NoId, NoBuffer) /\ UNCHANGED captures
  BY <1>1, <1>2, <1>3, <1>4, <1>6, <1>7
<1>8. ASSUME NEW b \in Free, captures' = RegisterBuffer(captures, nextFrame, b),
             Request(nextFrame, b)
      PROVE  /\ pending' = RegisterPath(pending, nextFrame)
             /\ cli' \in CliSet /\ cli'.pc = "submit" /\ cli'.entry.frame = nextFrame
             /\ options.v4l2 /\ cli'.entry.buffer \in Free
             /\ captures' = Emplace(captures, nextFrame, cli'.entry.buffer)
             /\ cli'.entry.id = nextFrame
  <2>1. options.v4l2 /\ b \in Buffers
    BY FreeBuffers DEF Shape
  <2> QED BY <1>4, <1>6, <1>8, <2>1 DEF RegisterBuffer
<1>9. CASE UNCHANGED <<captures, pending, cli>>
  BY <1>1, <1>2, <1>3, <1>9
<1> HIDE DEF Request
<1>10. QED  BY <1>1, <1>2, <1>3, <1>5, <1>7, <1>8, <1>9

\* Every step is main's, the worker's, an encoder's or a writer's, or it touches
\* nothing but the worker's sleep.
LEMMA Threads ==
  [Next]_vars => \/ Capture \/ Quit \/ CliStep \/ WorkerStep \/ AtRest
                 \/ \E e \in device : DequeueCompletion(e)
                 \/ \E f : EncoderStep(f) \/ WriterStep(f)
<1>1. Sleep \/ Wake \/ UNCHANGED vars => AtRest
  BY DEF Sleep, Wake, vars, AtRest
<1> QED BY <1>1 DEF Next

\* A completed output: the frame is new to the encoders, and its preview
\* number is within the bounds.
LEMMA DequeueEffect ==
  ASSUME Shape, NumberInv, PlaceInv, NEW e \in device, DequeueCompletion(e)
  PROVE  LET buffer == ResolveBuffer(captures, previews, e.id)
             job == [id |-> e.id, buffer |-> buffer, own |-> e.buffer,
                     pc |-> "reading", failed |-> FALSE]
         IN
         /\ e \in EntrySet /\ open /\ worker.pc = "idle" /\ worker'.pc \in {"result", "callback"}
         /\ e.frame \notin DOMAIN jobs
         /\ worker' \in WorkerSet /\ worker'.entry = e /\ worker'.result = "ok"
         /\ worker'.pc = "callback" <=> IsPreview(e.frame)
         /\ job \in JobSet /\ Used(e.frame)
         /\ jobs' = jobs \/ jobs' = Emplace(jobs, e.frame, job)
         /\ jobs' \in [DOMAIN jobs' -> JobSet]
         /\ IsPreview(e.frame) => UsedPreview(e.frame)
         /\ ~IsPreview(e.frame) => UsedStill(e.frame)
<1>1. e \in EntrySet /\ e.frame \in Nat /\ e.id \in Ids /\ e.buffer \in Buffers
  BY MoveOn DEF Shape
<1>2. open /\ worker.pc = "idle" /\ e.frame \notin DOMAIN jobs
  BY DEF DequeueCompletion, PlaceInv
<1>3. /\ worker' \in WorkerSet /\ worker'.entry = e /\ worker'.result = "ok"
      /\ worker'.pc = (IF IsPreview(e.frame) THEN "callback" ELSE "result")
  BY <1>1 DEF DequeueCompletion, WorkerSet, WorkerPcs, Outcomes, Results
<1>4. ResolveBuffer(captures, previews, e.id) \in Buffers
  <2>1. \A id : Resolve(captures, id) \in Buffers
    BY DEF Shape, Resolve, Buffers
  <2>2. BufferCount \in Nat
    BY CliAssumption
  <2>3. \A id \in DOMAIN previews : previews[id] \in Nat
    BY <2>2, PreviewDomain DEF Shape
  <2>4. \A id : Resolve(previews, id) \in Buffers
    BY <2>3 DEF Resolve, Buffers
  <2> QED BY <2>1, <2>4 DEF ResolveBuffer
<1> DEFINE job == [id |-> e.id, buffer |-> ResolveBuffer(captures, previews, e.id),
                   own |-> e.buffer, pc |-> "reading", failed |-> FALSE]
<1>5. job \in JobSet
  BY <1>1, <1>4 DEF JobSet
<1>6. jobs' = jobs \/ jobs' = Emplace(jobs, e.frame, job)
  BY DEF DequeueCompletion, ProcessOutput
<1> HIDE DEF job
<1>7. jobs' \in [DOMAIN jobs' -> JobSet]
  <2>1. jobs \in [DOMAIN jobs -> JobSet]
    BY DEF Shape
  <2> DEFINE added == Emplace(jobs, e.frame, job)
  <2>2. added \in [DOMAIN added -> JobSet]
    BY <1>5, <2>1, Emplaced
  <2> QED BY <1>6, <2>1, <2>2
<1>8. IsPreview(e.frame) => UsedPreview(e.frame)
  <2>1. IsPreview(e.frame) => e.frame < nextPreview /\ nextPreview < PreviewBase + options.frames
    BY <1>1, OptionTypes DEF DequeueCompletion, NumberInv, UsedStill, IsPreview, Stills, Shape
  <2>2. options \in Options /\ nextPreview \in Nat /\ options.frames \in Nat /\ PreviewBase \in Nat
    BY OptionTypes DEF Shape
  <2>3. IsPreview(e.frame) => e.frame \in PreviewBase..(PreviewBase + options.frames)
    BY <1>1, <2>1, <2>2 DEF IsPreview
  <2> QED BY <2>1, <2>2, <2>3 DEF UsedPreview, PreviewFrames
<1>9. ~IsPreview(e.frame) => UsedStill(e.frame)
  BY DEF NumberInv
<1>10. QED  BY <1>1, <1>2, <1>3, <1>5, <1>6, <1>7, <1>8, <1>9 DEF job, Used

-----------------------------------------------------------------------------
(* The types.                                                              *)

\* The moves of main, by what they leave in its record.
LEMMA CliTypes ==
  ASSUME Shape, CliStep \/ Quit
  PROVE  cli' \in CliSet
<1>1. cli \in CliSet /\ cli.frames \in SUBSET Nat /\ \A pc \in CliPcs : CliAt(pc) \in CliSet
  BY MoveOn, RecordTypes DEF Shape
<1>2. \A f : PendingWrite(pending, f) \in WriteSet /\ PendingWrite(pending, f).result \in Outcomes
  BY PendingTypes DEF Shape, WriteSet
<1>3. CASE ProcessCaptureRequest \/ JoinWorkers
  <2>1. \/ cli' = [cli EXCEPT !.pc = "wait"] \/ cli' = [cli EXCEPT !.pc = "close"]
        \/ cli' = CliAt("prompt")
    BY <1>3 DEF ProcessCaptureRequest, Refuse, JoinWorkers
  <2>2. "wait" \in CliPcs /\ "close" \in CliPcs /\ "prompt" \in CliPcs
    BY DEF CliPcs
  <2>3. [cli EXCEPT !.pc = "wait"] \in CliSet /\ [cli EXCEPT !.pc = "close"] \in CliSet
    BY <1>1, <2>2, MoveOn
  <2> QED BY <1>1, <2>1, <2>2, <2>3
<1>9. CASE SwapWorkers
  <2>1. preview_workers \in SUBSET Nat
    BY DEF Shape
  <2> QED BY <1>1, <1>9, <2>1 DEF SwapWorkers, CliPcs, CliSet
<1>4. CASE ResultReady
  BY <1>1, <1>2, <1>4 DEF ResultReady, CliPcs, CliSet
<1>5. CASE CloseSession
  <2>1. \A e \in device : e.frame \in Nat
    BY MoveOn DEF Shape
  <2>2. cli'.frames \in SUBSET Nat
    BY <1>1, <1>5, <2>1 DEF CloseSession, CliSet
  <2> QED BY <1>1, <1>5, <2>2 DEF CloseSession, CliPcs, CliSet
<1>6. CASE WaitPreview
  <2>1. CliAt("swap") \in CliSet
    BY <1>1 DEF CliPcs
  <2> QED BY <1>6, <2>1 DEF WaitPreview, CliSet, Outcomes, Results
<1>7. CASE ResultTimeout \/ WriteStill \/ DispatchFlushed \/ ReleaseAll \/ StopRuntime \/ Quit
  BY <1>1, <1>7 DEF ResultTimeout, WriteStill, DispatchFlushed, ReleaseAll, StopRuntime,
     Quit, CliPcs
<1>8. QED  BY <1>3, <1>4, <1>5, <1>6, <1>7, <1>9 DEF CliStep

\* What the steps of main after a command may do to each table, and what they
\* leave to the other threads.
LEMMA CliFrame ==
  ASSUME Quit \/ CliStep
  PROVE  /\ UNCHANGED <<options, jobs, asleep, lock, worker, writers, written, numberVars>>
         /\ \/ captures' = captures \/ captures' = NoBuffers
            \/ \E id : captures' = Release(captures, id)
         /\ previews' = previews \/ previews' = NoBuffers
         /\ \/ pending' = pending \/ \E f : pending' = Cancel(pending, f)
            \/ \E F : pending' = RegisterResults(pending, F, "flushed")
         /\ tasks' = tasks \/ tasks' = Append(tasks, cli.entry)
         /\ device' = device \/ device' = {}
         /\ open' = open \/ open' = FALSE
         /\ preview_workers' = preview_workers \/ preview_workers' = {}
         /\ timedOut' = timedOut \/ (cli.pc = "wait" /\ timedOut' = timedOut \cup {cli.entry.frame})
<1> USE DEF Quit, ProcessCaptureRequest, ResultReady, ResultTimeout, WriteStill,
            WaitPreview, SwapWorkers, JoinWorkers, CloseSession, DispatchFlushed, ReleaseAll,
            StopRuntime
<1>1. CASE ProcessCaptureRequest
  BY <1>1 DEF Refuse
<1>2. CASE ResultReady \/ ResultTimeout \/ WriteStill
  BY <1>2
<1>3. CASE Quit \/ WaitPreview \/ SwapWorkers \/ JoinWorkers \/ CloseSession
  BY <1>3
<1>4. CASE DispatchFlushed \/ ReleaseAll \/ StopRuntime
  BY <1>4
<1>5. QED  BY <1>1, <1>2, <1>3, <1>4 DEF CliStep

\* The capture command keeps the types.
LEMMA ShapeCapture ==
  ASSUME Shape, NumberInv, Capture
  PROVE  Shape'
<1>1. UNCHANGED <<options, previews, jobs, tasks, device, open, lock, worker, writers,
                  preview_workers, written, nextPreview, timedOut>>
  BY DEF Capture
<1>2. cli' \in CliSet
  BY CaptureEffect DEF Shape
<1>3. captures' \in [DOMAIN captures' -> Nat]
  <2>1. captures \in [DOMAIN captures -> Nat]
    BY DEF Shape
  <2>2. captures' = captures \/ \E b \in Free : captures' = Emplace(captures, nextFrame, b)
    BY CaptureEffect
  <2>3. \A b \in Free : b \in Nat
    BY FreeBuffers DEF Shape
  <2>4. ASSUME NEW b \in Free, captures' = Emplace(captures, nextFrame, b)
        PROVE  captures' \in [DOMAIN captures' -> Nat]
    BY <2>1, <2>3, <2>4, Emplaced
  <2> QED BY <2>1, <2>2, <2>4
<1>4. pending' \in [DOMAIN pending' -> WriteSet]
  <2>1. pending \in [DOMAIN pending -> WriteSet]
    BY DEF Shape
  <2>2. pending' = pending \/ pending' = RegisterPath(pending, nextFrame)
    BY CaptureEffect
  <2>3. LET r == RegisterPath(pending, nextFrame) IN r \in [DOMAIN r -> WriteSet]
    BY <2>1, PendingTypes
  <2> QED BY <2>1, <2>2, <2>3
<1>5. nextFrame' \in 1..(options.captures + 1)
  BY CaptureEffect
<1>6. PreviewBuffers' = PreviewBuffers
  BY <1>1 DEF PreviewBuffers
<1>7. QED  BY <1>1, <1>2, <1>3, <1>4, <1>5, <1>6 DEF Shape

\* So do the other steps of main.
LEMMA ShapeCli ==
  ASSUME Shape, NumberInv, Quit \/ CliStep
  PROVE  Shape'
<1>1. cli' \in CliSet
  BY CliTypes
<1>2. captures' \in [DOMAIN captures' -> Nat]
  <2>1. captures \in [DOMAIN captures -> Nat]
    BY DEF Shape
  <2>2. ASSUME NEW id, captures' = Release(captures, id)
        PROVE  captures' \in [DOMAIN captures' -> Nat]
    BY <2>1, <2>2, Restricted DEF Release
  <2> QED BY <2>1, <2>2, CliFrame DEF NoBuffers
<1>3. pending' \in [DOMAIN pending' -> WriteSet]
  <2>1. pending \in [DOMAIN pending -> WriteSet]
    BY DEF Shape
  <2>2. ASSUME NEW f, pending' = Cancel(pending, f)
        PROVE  pending' \in [DOMAIN pending' -> WriteSet]
    BY <2>1, <2>2, PendingTypes
  <2>3. ASSUME NEW F, pending' = RegisterResults(pending, F, "flushed")
        PROVE  pending' \in [DOMAIN pending' -> WriteSet]
    BY <2>1, <2>3, ResultTypes DEF Outcomes, Results
  <2> QED BY <2>1, <2>2, <2>3, CliFrame
<1>4. tasks' \in Seq(EntrySet)
  <2>1. cli.entry \in EntrySet /\ tasks \in Seq(EntrySet)
    BY MoveOn DEF Shape
  <2>2. Append(tasks, cli.entry) \in Seq(EntrySet)
    BY <2>1
  <2> QED BY <2>1, <2>2, CliFrame
<1>5. timedOut' \subseteq Stills
  <2>1. cli.pc = "wait" => cli.entry.frame \in Stills
    BY DEF NumberInv, Busy, UsedStill
  <2> QED BY <2>1, CliFrame DEF Shape
<1>6. UNCHANGED <<options, jobs, lock, worker, writers, written, numberVars>>
  BY CliFrame
<1>7. /\ device' \in SUBSET EntrySet /\ open' \in BOOLEAN
      /\ preview_workers' \subseteq DOMAIN writers
  BY CliFrame DEF Shape
<1>8. PreviewBuffers' = PreviewBuffers /\ (previews' = previews \/ previews' = NoBuffers)
  BY CliFrame DEF PreviewBuffers
<1>9. QED
  BY <1>1, <1>2, <1>3, <1>4, <1>5, <1>6, <1>7, <1>8 DEF Shape

\* What the steps of the worker leave to the other threads, and what they may
\* do to its tables.
LEMMA WorkerFrame ==
  ASSUME WorkerStep
  PROVE  /\ UNCHANGED <<options, trackerVars, encoderVars, asleep, open, written, cli,
                        nextFrame, historyVars>>
         /\ tasks' = tasks \/ SubmitRequest
         /\ device' = device \/ SubmitRequest \/ RequeuePreview
         /\ pending' = pending \/ RegisterResult \/ StreamResultCallback
         /\ writers' = writers \/ StreamResultCallback
         /\ nextPreview' = nextPreview \/ RequeuePreview
         /\ preview_workers' = preview_workers \/ PushWorker
<1> USE DEF SubmitRequest, RegisterResult, StreamResultCallback, PushWorker,
            InlineWritten, ReturnStreamBuffer, RequeuePreview
<1>1. CASE SubmitRequest
  BY <1>1
<1>2. CASE RegisterResult \/ StreamResultCallback
  BY <1>2
<1>3. CASE PushWorker \/ InlineWritten \/ ReturnStreamBuffer
  BY <1>3
<1>4. CASE RequeuePreview
  BY <1>4
<1>5. QED  BY <1>1, <1>2, <1>3, <1>4 DEF WorkerStep

\* The request the worker takes from its queue, and the rest of the queue.
LEMMA SubmitEffect ==
  ASSUME Shape, SubmitRequest
  PROVE  LET e == tasks[1] IN
         /\ worker.pc = "idle" /\ 1 \in DOMAIN tasks /\ e \in EntrySet
         /\ tasks' \in Seq(EntrySet)
         /\ \A k \in DOMAIN tasks' : k + 1 \in DOMAIN tasks /\ k + 1 # 1 /\ tasks'[k] = tasks[k + 1]
         /\ \/ open /\ device' = device \cup {e} /\ UNCHANGED worker
            \/ /\ worker' \in WorkerSet /\ worker'.pc = "result" /\ worker'.entry = e
               /\ worker'.result \in {"empty", "failed"} /\ (open => worker'.result = "failed")
               /\ UNCHANGED device
<1>1. worker.pc = "idle" /\ tasks # <<>> /\ tasks' = Tail(tasks) /\ tasks \in Seq(EntrySet)
  BY DEF SubmitRequest, Shape
<1>2. /\ 1 \in DOMAIN tasks /\ Head(tasks) = tasks[1] /\ Head(tasks) \in EntrySet
      /\ tasks' \in Seq(EntrySet)
  BY <1>1
<1>3. \A k \in DOMAIN tasks' : k + 1 \in DOMAIN tasks /\ k + 1 # 1 /\ tasks'[k] = tasks[k + 1]
  BY <1>1
<1> DEFINE e == Head(tasks)
<1>4. \/ open /\ device' = device \cup {e} /\ UNCHANGED worker
      \/ /\ \/ ~open /\ worker' = [pc |-> "result", entry |-> e, result |-> "empty"]
            \/ open /\ worker' = [pc |-> "result", entry |-> e, result |-> "failed"]
         /\ UNCHANGED device
  BY DEF SubmitRequest
<1>5. \A r \in {"empty", "failed"} : [pc |-> "result", entry |-> e, result |-> r] \in WorkerSet
  BY <1>2 DEF WorkerSet, WorkerPcs, Outcomes, Results
<1>6. QED  BY <1>1, <1>2, <1>3, <1>4, <1>5

\* The frame the worker hands to a writer thread.
LEMMA CallbackEffect ==
  ASSUME Shape, StreamResultCallback
  PROVE  LET f == worker.entry.frame IN
         /\ worker.pc = "callback" /\ worker' \in WorkerSet
         /\ worker'.entry = worker.entry /\ worker'.result = worker.result
         /\ worker'.pc \in {"return", "push", "inline"}
         /\ \/ UNCHANGED <<pending, writers>>
            \/ /\ SavesPreview(options)
               /\ pending' \in [DOMAIN pending' -> WriteSet]
               /\ DOMAIN pending' = DOMAIN pending \cup {f}
               /\ \A x \in DOMAIN pending' :
                    pending'[x].result = "ok" \/ (x \in DOMAIN pending /\ pending'[x] = pending[x])
               /\ writers' = Emplace(writers, f, [pc |-> "take", id |-> worker.entry.id])
<1> DEFINE f == worker.entry.frame
<1>1. worker \in WorkerSet /\ pending \in [DOMAIN pending -> WriteSet] /\ written \in Nat
  BY DEF Shape
<1>2. /\ worker.pc = "callback"
      /\ \E pc \in {"return", "push", "inline"} : worker' = [worker EXCEPT !.pc = pc]
  BY DEF StreamResultCallback
<1>3. /\ worker' \in WorkerSet /\ worker'.entry = worker.entry /\ worker'.result = worker.result
      /\ worker'.pc \in {"return", "push", "inline"}
  <2>1. PICK pc \in {"return", "push", "inline"} : worker' = [worker EXCEPT !.pc = pc]
    BY <1>2
  <2>2. pc \in WorkerPcs
    BY DEF WorkerPcs
  <2> QED BY <1>1, <2>1, <2>2, MoveOn
<1>4. CASE UNCHANGED <<pending, writers>>
  BY <1>2, <1>3, <1>4
<1>5. CASE /\ options.out /\ written < options.count
           /\ pending' = RegisterResults(RegisterPath(pending, f), {f}, "ok")
           /\ writers' = Emplace(writers, f, [pc |-> "take", id |-> worker.entry.id])
  <2>1. SavesPreview(options)
    BY <1>1, <1>5, OptionTypes DEF SavesPreview, Shape
  <2> DEFINE paths == RegisterPath(pending, f)
  <2>2. /\ paths \in [DOMAIN paths -> WriteSet] /\ DOMAIN paths = DOMAIN pending \cup {f}
        /\ \A x \in DOMAIN pending \ {f} : paths[x] = pending[x]
    <3>1. paths \in [DOMAIN paths -> WriteSet] /\ DOMAIN paths = DOMAIN pending \cup {f}
      BY <1>1, PendingTypes
    <3> QED BY <3>1 DEF RegisterPath
  <2>3. "ok" \in Outcomes
    BY DEF Outcomes, Results
  <2> HIDE DEF paths
  <2>4. /\ pending' \in [DOMAIN paths \cup {f} -> WriteSet]
        /\ DOMAIN pending' = DOMAIN paths \cup {f}
        /\ \A x \in {f} : pending'[x].result = "ok"
        /\ \A x \in DOMAIN paths \ {f} : pending'[x] = paths[x]
    <3>1. pending' = RegisterResults(paths, {f}, "ok")
      BY <1>5 DEF paths
    <3>2. PendingWrite(paths, f) \in WriteSet
      BY <2>2, PendingTypes
    <3> QED BY <2>2, <2>3, <3>1, <3>2 DEF RegisterResults, WriteSet
  <2> QED BY <1>2, <1>3, <1>5, <2>1, <2>2, <2>4
<1>6. QED  BY <1>4, <1>5 DEF StreamResultCallback

\* The frame that goes back to the device.
LEMMA RequeueEffect ==
  ASSUME Shape, RequeuePreview
  PROVE  LET x == Entry(nextPreview, worker.entry.id, worker.entry.buffer) IN
         /\ worker.pc = "requeue" /\ worker' = IdleWorker /\ lock' = "free"
         /\ x \in EntrySet /\ x.frame = nextPreview
         /\ x.id = worker.entry.id /\ x.buffer = worker.entry.buffer
         /\ worker.entry.frame \in DOMAIN writers => writers[worker.entry.frame].pc = "done"
         /\ \/ device' = device \cup {x} /\ nextPreview' = nextPreview + 1
            \/ UNCHANGED <<device, nextPreview>>
<1>1. worker.entry.id \in Ids /\ worker.entry.buffer \in Buffers /\ nextPreview \in Nat
  BY MoveOn DEF Shape
<1>2. LET x == Entry(nextPreview, worker.entry.id, worker.entry.buffer) IN
      /\ x \in EntrySet /\ x.frame = nextPreview
      /\ x.id = worker.entry.id /\ x.buffer = worker.entry.buffer
  BY <1>1, RecordTypes
<1>3. QED  BY <1>2 DEF RequeuePreview

\* The steps of the worker, by what they leave in its record.
LEMMA WorkerMoves ==
  ASSUME Shape, WorkerStep, ~SubmitRequest
  PROVE  /\ worker' \in WorkerSet
         /\ \/ worker' = IdleWorker /\ worker.pc \in {"result", "return", "requeue"}
            \/ /\ worker'.entry = worker.entry /\ worker'.result = worker.result
               /\ worker.pc \in {"callback", "push", "inline", "return"}
               /\ worker'.pc \in {"return", "push", "inline", "requeue"}
         /\ worker'.pc = "requeue" => worker.pc = "return" /\ open
         /\ lock' = (IF worker'.pc = "requeue" THEN "worker" ELSE "free")
<1>1. /\ worker \in WorkerSet /\ IdleWorker \in WorkerSet /\ IdleWorker.pc = "idle"
      /\ lock = (IF worker.pc = "requeue" THEN "worker" ELSE "free")
  BY RecordTypes DEF Shape
<1>2. CASE RegisterResult \/ RequeuePreview
  BY <1>1, <1>2 DEF RegisterResult, RequeuePreview
<1>3. CASE StreamResultCallback
  <2>1. lock' = lock
    BY <1>3 DEF StreamResultCallback
  <2> QED BY <1>1, <1>3, <2>1, CallbackEffect
<1>4. CASE PushWorker \/ InlineWritten
  <2>1. worker' = [worker EXCEPT !.pc = "return"] /\ lock' = lock
        /\ worker.pc \in {"push", "inline"}
    BY <1>4 DEF PushWorker, InlineWritten
  <2>2. "return" \in WorkerPcs
    BY DEF WorkerPcs
  <2>3. /\ worker' \in WorkerSet /\ worker'.entry = worker.entry
        /\ worker'.result = worker.result /\ worker'.pc = "return"
    BY <1>1, <2>1, <2>2, MoveOn
  <2> QED BY <1>1, <2>1, <2>3
<1>5. CASE ReturnStreamBuffer /\ open
  <2>1. worker' = [worker EXCEPT !.pc = "requeue"] /\ lock' = "worker" /\ worker.pc = "return"
    BY <1>5 DEF ReturnStreamBuffer
  <2>2. "requeue" \in WorkerPcs
    BY DEF WorkerPcs
  <2>3. /\ worker' \in WorkerSet /\ worker'.entry = worker.entry
        /\ worker'.result = worker.result /\ worker'.pc = "requeue"
    BY <1>1, <2>1, <2>2, MoveOn
  <2> QED BY <1>5, <2>1, <2>3
<1>6. CASE ReturnStreamBuffer /\ ~open
  BY <1>1, <1>6 DEF ReturnStreamBuffer
<1>7. QED  BY <1>2, <1>3, <1>4, <1>5, <1>6 DEF WorkerStep

\* The worker keeps the types.
LEMMA ShapeWorker ==
  ASSUME Shape, NumberInv, WorkerStep
  PROVE  Shape'
<1>1. UNCHANGED <<options, trackerVars, encoderVars, open, written, cli, nextFrame, historyVars>>
  BY WorkerFrame
<1>2. /\ worker' \in WorkerSet
      /\ lock' = (IF worker'.pc = "requeue" THEN "worker" ELSE "free")
  <2>1. CASE SubmitRequest
    <3>1. lock' = lock /\ lock = "free"
      BY <2>1 DEF SubmitRequest
    <3> QED BY <2>1, <3>1, SubmitEffect DEF Shape
  <2> QED BY <2>1, WorkerMoves
<1>3. tasks' \in Seq(EntrySet)
  BY WorkerFrame, SubmitEffect DEF Shape
<1>4. device' \in SUBSET EntrySet /\ nextPreview' \in Nat /\ nextPreview' >= PreviewBase
  <2>0. PreviewBase \in Nat
    BY CliAssumption
  <2>1. CASE RequeuePreview
    BY <2>0, <2>1, RequeueEffect DEF Shape
  <2>2. CASE SubmitRequest
    <3>1. nextPreview' = nextPreview
      BY <2>2 DEF SubmitRequest
    <3> QED BY <2>2, <3>1, SubmitEffect DEF Shape
  <2> QED BY <2>1, <2>2, WorkerFrame DEF Shape
<1>5. /\ pending' \in [DOMAIN pending' -> WriteSet]
      /\ writers' \in [DOMAIN writers' -> WriterSet]
      /\ DOMAIN writers \subseteq DOMAIN writers' /\ DOMAIN writers' \subseteq Nat
  <2>0. /\ pending \in [DOMAIN pending -> WriteSet] /\ writers \in [DOMAIN writers -> WriterSet]
        /\ DOMAIN writers \subseteq Nat
    BY DEF Shape
  <2>1. CASE RegisterResult
    <3>1. worker.result \in Outcomes /\ writers' = writers
      BY <2>1, MoveOn DEF Shape, RegisterResult
    <3>2. PICK F : pending' = RegisterResults(pending, F, worker.result)
      BY <2>1 DEF RegisterResult
    <3> DEFINE r == worker.result
               p == RegisterResults(pending, F, r)
    <3>3. p \in [DOMAIN pending \cup F -> WriteSet]
      <4> HIDE DEF r
      <4>1. r \in Outcomes
        BY <3>1 DEF r
      <4> QED BY <2>0, <4>1, ResultTypes
    <3> QED BY <2>0, <3>1, <3>2, <3>3
  <2>2. CASE StreamResultCallback
    <3>1. worker.entry.id \in Ids /\ worker.entry.frame \in Nat
      BY MoveOn DEF Shape
    <3> DEFINE x == [pc |-> "take", id |-> worker.entry.id]
    <3>2. x \in WriterSet
      BY <3>1 DEF WriterSet
    <3> HIDE DEF x
    <3>3. writers' = writers \/ writers' = Emplace(writers, worker.entry.frame, x)
      BY <2>2, CallbackEffect DEF x
    <3> DEFINE f == worker.entry.frame
               w == Emplace(writers, f, x)
    <3>4. w \in [DOMAIN w -> WriterSet] /\ DOMAIN w = DOMAIN writers \cup {f}
      BY <2>0, <3>2 DEF Emplace
    <3>5. pending' \in [DOMAIN pending' -> WriteSet]
      BY <2>0, <2>2, CallbackEffect
    <3> QED BY <2>0, <3>1, <3>3, <3>4, <3>5
  <2> QED BY <2>0, <2>1, <2>2, WorkerFrame
<1>6. preview_workers' \subseteq DOMAIN writers'
  <2>1. CASE PushWorker
    <3>1. preview_workers' = preview_workers \cup {worker.entry.frame} /\ worker.pc = "push"
      BY <2>1 DEF PushWorker
    <3>2. worker.pc = "push" => worker.entry.frame \in DOMAIN writers
      BY DEF NumberInv
    <3> QED BY <1>5, <3>1, <3>2 DEF Shape
  <2> QED BY <1>5, <2>1, WorkerFrame DEF Shape
<1>7. PreviewBuffers' = PreviewBuffers
  BY <1>1 DEF PreviewBuffers
<1>8. QED  BY <1>1, <1>2, <1>3, <1>4, <1>5, <1>6, <1>7 DEF Shape

\* So do completions, encoders and writers.
LEMMA ShapeThreads ==
  ASSUME Shape, NumberInv, PlaceInv,
         \/ \E e \in device : DequeueCompletion(e)
         \/ \E f : EncoderStep(f) \/ WriterStep(f)
  PROVE  Shape'
<1>1. CASE \E e \in device : DequeueCompletion(e)
  <2>1. PICK e \in device : DequeueCompletion(e)
    BY <1>1
  <2>2. /\ UNCHANGED <<options, trackerVars, pending, encoded, tasks, open, lock, previewVars, cli,
                       numberVars, historyVars>>
        /\ device' = device \ {e} /\ lock = "free"
    BY <2>1 DEF DequeueCompletion
  <2>3. /\ worker' \in WorkerSet /\ worker'.pc # "requeue" /\ jobs' \in [DOMAIN jobs' -> JobSet]
    BY <2>1, DequeueEffect
  <2> QED BY <2>2, <2>3 DEF Shape, PreviewBuffers
<1>2. ASSUME NEW f, EncoderStep(f) PROVE Shape'
  <2>1. UNCHANGED <<options, trackerVars, pending, sessionVars, worker, previewVars, cli,
                    numberVars, historyVars>>
    BY <1>2 DEF EncoderStep, EncodeFrame, SignalRelease
  <2>2. /\ f \in DOMAIN jobs
        /\ \/ jobs' = Encoded(jobs, f, TRUE) \/ jobs' = Encoded(jobs, f, FALSE)
           \/ jobs' = SignalFence(jobs, f)
    BY <1>2 DEF EncoderStep, EncodeFrame, SignalRelease, Reading
  <2>3. jobs \in [DOMAIN jobs -> JobSet]
    BY DEF Shape
  <2>4. \A ok \in BOOLEAN : /\ Encoded(jobs, f, ok) \in [DOMAIN jobs -> JobSet]
                            /\ SignalFence(jobs, f) \in [DOMAIN jobs -> JobSet]
    BY <2>2, <2>3, JobTypes
  <2>5. jobs' \in [DOMAIN jobs' -> JobSet]
    BY <2>2, <2>4
  <2> QED BY <2>1, <2>5 DEF Shape, PreviewBuffers
<1>3. ASSUME NEW f, WriterStep(f) PROVE Shape'
  <2>1. UNCHANGED <<options, trackerVars, jobs, sessionVars, worker, preview_workers, cli,
                    numberVars, timedOut>>
    BY <1>3 DEF WriterStep, TakePreview, WritePreview, SignalConsumer
  <2>2. /\ f \in DOMAIN writers
        /\ WriterAt(f, "fence") \/ WriterAt(f, "signal") \/ WriterAt(f, "done")
        /\ pending' = pending \/ pending' = Cancel(pending, f)
        /\ written' = written \/ written' = written + 1
    BY <1>3 DEF WriterStep, TakePreview, WritePreview, SignalConsumer
  <2>3. /\ writers \in [DOMAIN writers -> WriterSet] /\ written \in Nat
        /\ pending \in [DOMAIN pending -> WriteSet]
    BY DEF Shape
  <2>4. writers' \in [DOMAIN writers' -> WriterSet] /\ DOMAIN writers' = DOMAIN writers
    BY <2>2, <2>3, WriterTypes
  <2>5. pending' \in [DOMAIN pending' -> WriteSet] /\ written' \in Nat
    <3>1. Cancel(pending, f) \in [DOMAIN pending \ {f} -> WriteSet]
      BY <2>3, PendingTypes
    <3> QED BY <2>2, <2>3, <3>1
  <2> QED BY <2>1, <2>4, <2>5 DEF Shape, PreviewBuffers
<1>4. QED  BY <1>1, <1>2, <1>3

-----------------------------------------------------------------------------
(* The order of things in main.                                            *)

\* Where each step of main leads.
LEMMA CliMoves ==
  ASSUME Shape
  PROVE  /\ ProcessCaptureRequest =>
              /\ cli.pc = "submit" /\ cli'.pc \in {"wait", "prompt"}
              /\ cli'.pc = "wait" => cli'.entry = cli.entry
         /\ ResultReady =>
              /\ cli.pc = "wait" /\ cli'.pc \in {"fence", "prompt"}
              /\ cli'.pc = "fence" => cli'.entry = cli.entry
              /\ cli'.pc = "prompt" => PendingWrite(pending, cli.entry.frame).result = "empty"
         /\ ResultTimeout => cli.pc = "wait" /\ cli'.pc = "prompt"
         /\ WriteStill => cli.pc = "fence" /\ cli'.pc = "prompt"
         /\ Quit => cli.pc = "prompt" /\ cli'.pc = "swap"
         /\ WaitPreview => cli.pc = "preview" /\ cli'.pc = "swap"
         /\ SwapWorkers => cli.pc = "swap" /\ cli'.pc = "join"
         /\ JoinWorkers => cli.pc = "join" /\ cli'.pc = "close"
         /\ CloseSession => cli.pc = "close" /\ cli'.pc = "flushed"
         /\ DispatchFlushed => cli.pc = "flushed" /\ cli'.pc \in {"stop", "release"}
         /\ ReleaseAll => cli.pc = "release" /\ cli'.pc = "stop"
         /\ StopRuntime => cli.pc = "stop" /\ cli'.pc = "exit"
<1> USE DEF CliPcs
<1>1. cli \in CliSet
  BY DEF Shape
<1>2. \A pc \in CliPcs : CliAt(pc) \in CliSet /\ CliAt(pc).pc = pc
  BY RecordTypes
<1>3. ProcessCaptureRequest =>
        /\ cli.pc = "submit" /\ cli'.pc \in {"wait", "prompt"}
        /\ cli'.pc = "wait" => cli'.entry = cli.entry
  BY <1>1, <1>2 DEF ProcessCaptureRequest, Refuse, CliSet
<1>4. ResultReady =>
        /\ cli.pc = "wait" /\ cli'.pc \in {"fence", "prompt"}
        /\ cli'.pc = "fence" => cli'.entry = cli.entry
        /\ cli'.pc = "prompt" => PendingWrite(pending, cli.entry.frame).result = "empty"
  BY <1>1, <1>2 DEF ResultReady, CliSet
<1>5. WaitPreview => cli.pc = "preview" /\ cli'.pc = "swap"
  <2>1. CliAt("swap") \in CliSet /\ CliAt("swap").pc = "swap"
    BY <1>2
  <2> QED BY <2>1 DEF WaitPreview, CliSet
<1>6. /\ SwapWorkers => cli.pc = "swap" /\ cli'.pc = "join"
      /\ JoinWorkers => cli.pc = "join" /\ cli'.pc = "close"
      /\ CloseSession => cli.pc = "close" /\ cli'.pc = "flushed"
  BY <1>1 DEF SwapWorkers, JoinWorkers, CloseSession, CliSet
<1>7. /\ ResultTimeout => cli.pc = "wait" /\ cli'.pc = "prompt"
      /\ WriteStill => cli.pc = "fence" /\ cli'.pc = "prompt"
      /\ Quit => cli.pc = "prompt" /\ cli'.pc = "swap"
      /\ DispatchFlushed => cli.pc = "flushed" /\ cli'.pc \in {"stop", "release"}
      /\ ReleaseAll => cli.pc = "release" /\ cli'.pc = "stop"
      /\ StopRuntime => cli.pc = "stop" /\ cli'.pc = "exit"
  BY <1>2 DEF ResultTimeout, WriteStill, Quit, DispatchFlushed, ReleaseAll, StopRuntime
<1>8. QED  BY <1>3, <1>4, <1>5, <1>6, <1>7

\* Quitting and everything after it: no still is in hand, and none will be.
ClosingStep == \/ Quit \/ WaitPreview \/ SwapWorkers \/ JoinWorkers \/ CloseSession
               \/ DispatchFlushed \/ ReleaseAll \/ StopRuntime

\* What these steps leave alone.
LEMMA ClosingFrame ==
  ASSUME Shape, ClosingStep
  PROVE  /\ UNCHANGED <<encoderVars, tasks, worker, writers, options, timedOut, missing, nextFrame,
                        nextPreview>>
         /\ cli'.pc \notin Asking /\ cli'.pc # "preview"
         /\ captures' = captures \/ (captures' = NoBuffers /\ ReleaseAll)
         /\ previews' = previews \/ (previews' = NoBuffers /\ ReleaseAll)
         /\ cli.pc \in {"stop", "exit"} => cli'.pc = "exit"
         /\ \/ CloseSession /\ open' = FALSE /\ device' = {}
            \/ /\ open' = open /\ device' = device
               /\ cli.pc \in BeforeClose <=> cli'.pc \in BeforeClose
         /\ pending' = pending \/ DispatchFlushed
<1> USE DEF Quit, WaitPreview, SwapWorkers, JoinWorkers, CloseSession, DispatchFlushed,
            ReleaseAll, StopRuntime
<1>1. UNCHANGED <<encoderVars, tasks, worker, writers, options, timedOut, missing, nextFrame,
                  nextPreview>>
  BY DEF ClosingStep
<1>2. /\ captures' = captures \/ (captures' = NoBuffers /\ ReleaseAll)
      /\ previews' = previews \/ (previews' = NoBuffers /\ ReleaseAll)
      /\ pending' = pending \/ DispatchFlushed
      /\ (CloseSession /\ open' = FALSE /\ device' = {}) \/ (~CloseSession /\ open' = open /\ device' = device)
  BY DEF ClosingStep
<1> HIDE DEF Quit, WaitPreview, SwapWorkers, JoinWorkers, CloseSession, DispatchFlushed,
             ReleaseAll, StopRuntime
<1>3. /\ cli'.pc \notin Asking /\ cli'.pc # "preview"
      /\ cli.pc \in {"stop", "exit"} => cli'.pc = "exit"
      /\ ~CloseSession => (cli.pc \in BeforeClose <=> cli'.pc \in BeforeClose)
  BY CliMoves DEF ClosingStep, Asking, Busy, BeforeClose
<1>4. QED  BY <1>1, <1>2, <1>3

\* A still in hand: the steps of main between its commands.
StillStep == ProcessCaptureRequest \/ ResultReady \/ ResultTimeout \/ WriteStill

\* What those steps leave alone, and where they lead.
LEMMA StillFrame ==
  ASSUME Shape, StillStep
  PROVE  /\ UNCHANGED <<options, previews, device, open, lock, worker, writers, nextFrame,
                        nextPreview, jobs>>
         /\ cli.pc \in Busy /\ cli'.pc \in Asking
         /\ DOMAIN captures' \subseteq DOMAIN captures
<1>1. UNCHANGED <<options, previews, device, open, lock, worker, writers, nextFrame,
                  nextPreview, jobs>>
  BY DEF StillStep, ProcessCaptureRequest, ResultReady, ResultTimeout, WriteStill
<1>2. cli.pc \in Busy /\ cli'.pc \in Asking
  BY CliMoves DEF StillStep, Busy, Asking
<1>3. captures' = captures \/ \E id : captures' = Release(captures, id)
  BY DEF StillStep, ProcessCaptureRequest, Refuse, ResultReady, ResultTimeout, WriteStill
<1>4. QED  BY <1>1, <1>2, <1>3 DEF Release, Restrict

\* Every step keeps the order.
LEMMA PhaseNext ==
  ASSUME Inv, [Next]_vars
  PROVE  PhaseInv'
<1>0. Shape /\ PhaseInv /\ NumberInv /\ PlaceInv
  BY DEF Inv
<1>1. CASE Capture
  <2>1. UNCHANGED <<options, previews, device, open, worker>>
    BY <1>1 DEF Capture
  <2>2. cli.pc = "prompt" /\ cli'.pc \in {"prompt", "submit"}
    BY <1>0, <1>1, CaptureEffect
  <2> QED BY <1>0, <2>1, <2>2 DEF PhaseInv, PreviewBuffers, Asking, Busy, BeforeClose
<1>2. CASE StillStep
  <2>1. DOMAIN captures = {} => DOMAIN captures' = {}
    BY <1>0, <1>2, StillFrame
  <2> QED BY <1>0, <1>2, <2>1, StillFrame DEF PhaseInv, PreviewBuffers, Asking, Busy, BeforeClose
<1>3. CASE ClosingStep
  <2>1. UNCHANGED <<options, worker>> /\ cli'.pc \notin Asking
    BY <1>0, <1>3, ClosingFrame
  <2>2. DOMAIN captures = {} => DOMAIN captures' = {}
    BY <1>0, <1>3, ClosingFrame, PreviewDomain
  <2>3. CASE CloseSession
    <3>1. open' = FALSE /\ device' = {} /\ previews' = previews /\ lock = "free"
      BY <2>3 DEF CloseSession
    <3>2. worker.pc # "requeue"
      BY <1>0, <3>1 DEF Shape
    <3>3. cli.pc = "close" /\ cli'.pc = "flushed"
      BY <1>0, <2>3, CliMoves
    <3> QED BY <1>0, <2>1, <2>2, <3>1, <3>2, <3>3
            DEF PhaseInv, PreviewBuffers, Asking, Busy, BeforeClose
  <2>4. CASE ~CloseSession
    <3>1. open' = open /\ device' = device /\ (cli.pc \in BeforeClose <=> cli'.pc \in BeforeClose)
      BY <1>0, <1>3, <2>4, ClosingFrame
    <3>2. cli'.pc \notin {"stop", "exit"} => cli.pc \notin {"stop", "exit"} /\ previews' = previews
      BY <1>0, <1>3, ClosingFrame, CliMoves
    <3> QED BY <1>0, <2>1, <2>2, <3>1, <3>2 DEF PhaseInv, PreviewBuffers
  <2> QED BY <2>3, <2>4
<1>4. CASE WorkerStep
  <2>1. UNCHANGED <<options, captures, previews, cli, open>>
    BY <1>4, WorkerFrame
  <2>2. worker'.pc = "requeue" => open
    BY <1>0, <1>4, WorkerMoves, SubmitEffect DEF PhaseInv
  <2>3. ~open => device' = {}
    BY <1>0, <1>4, WorkerFrame, SubmitEffect, RequeueEffect DEF PhaseInv
  <2> QED BY <1>0, <2>1, <2>2, <2>3 DEF PhaseInv, PreviewBuffers
<1>5. CASE \E e \in device : DequeueCompletion(e)
  <2>1. PICK e \in device : DequeueCompletion(e)
    BY <1>5
  <2>2. UNCHANGED <<options, captures, previews, cli, open>> /\ open
    BY <2>1 DEF DequeueCompletion
  <2> QED BY <1>0, <2>2 DEF PhaseInv, PreviewBuffers
<1>6. CASE (\E f : EncoderStep(f) \/ WriterStep(f)) \/ AtRest
  <2>1. UNCHANGED <<options, captures, previews, cli, open, device, worker>>
    BY <1>6 DEF EncoderStep, EncodeFrame, SignalRelease, WriterStep, TakePreview, WritePreview,
                SignalConsumer, AtRest
  <2> QED BY <1>0, <2>1 DEF PhaseInv, PreviewBuffers
<1>7. QED
  BY <1>1, <1>2, <1>3, <1>4, <1>5, <1>6, Threads DEF CliStep, StillStep, ClosingStep

-----------------------------------------------------------------------------
(* Frame numbers.                                                          *)

\* Numbers only grow, so that a used number stays used.
LEMMA UsedStays ==
  ASSUME Shape, NumberInv, [Next]_vars
  PROVE  /\ nextFrame' = nextFrame \/ Capture
         /\ nextPreview' = nextPreview \/ RequeuePreview
         /\ nextFrame \in Nat /\ nextFrame' \in Nat /\ nextFrame' >= nextFrame
         /\ nextPreview \in Nat /\ nextPreview' \in Nat /\ nextPreview' >= nextPreview
         /\ \A f : UsedStill(f) => UsedStill(f)'
         /\ \A f : UsedPreview(f) => UsedPreview(f)'
         /\ \A f : Used(f) => Used(f)'
<1>1. nextFrame' = nextFrame \/ Capture
  <2>1. CASE DispatchFlushed \/ AtRest
    BY <2>1 DEF DispatchFlushed, AtRest
  <2>2. CASE Quit \/ CliStep \/ WorkerStep
    BY <2>2, CliFrame, WorkerFrame
  <2>3. CASE \/ \E e \in device : DequeueCompletion(e)
             \/ \E f : EncoderStep(f) \/ WriterStep(f)
    BY <2>3 DEF DequeueCompletion, EncoderStep, EncodeFrame, SignalRelease, WriterStep,
                TakePreview, WritePreview, SignalConsumer
  <2> QED BY <2>1, <2>2, <2>3, Threads
<1>2. nextPreview' = nextPreview \/ RequeuePreview
  <2>1. CASE Capture \/ AtRest
    BY <2>1 DEF Capture, AtRest
  <2>2. CASE Quit \/ CliStep \/ WorkerStep
    BY <2>2, CliFrame, WorkerFrame
  <2>3. CASE \/ \E e \in device : DequeueCompletion(e)
             \/ \E f : EncoderStep(f) \/ WriterStep(f)
    BY <2>3 DEF DequeueCompletion, EncoderStep, EncodeFrame, SignalRelease, WriterStep,
                TakePreview, WritePreview, SignalConsumer
  <2> QED BY <2>1, <2>2, <2>3, Threads
<1>3. nextFrame \in Nat /\ nextPreview \in Nat
  BY OptionTypes DEF Shape
<1>4. nextFrame' \in Nat /\ nextFrame' >= nextFrame
  BY <1>1, <1>3, CaptureEffect
<1>5. nextPreview' \in Nat /\ nextPreview' >= nextPreview
  BY <1>2, <1>3, RequeueEffect
<1>6. PreviewFrames \subseteq Nat /\ Stills \subseteq Nat
  <2>1. PreviewBase \in Nat /\ \A o \in Options : o.frames \in Nat
    BY CliAssumption
  <2> QED BY <2>1 DEF PreviewFrames, Stills
<1>7. /\ \A f : UsedStill(f) => UsedStill(f)'
      /\ \A f : UsedPreview(f) => UsedPreview(f)'
  <2>1. ASSUME NEW f, UsedStill(f) PROVE f \in Stills /\ f < nextFrame'
    BY <1>3, <1>4, <1>6, <2>1 DEF UsedStill
  <2>2. ASSUME NEW f, UsedPreview(f) PROVE f \in PreviewFrames /\ f < nextPreview'
    BY <1>3, <1>5, <1>6, <2>2 DEF UsedPreview
  <2> QED BY <2>1, <2>2 DEF UsedStill, UsedPreview
<1>8. \A f : Used(f) => Used(f)'
  BY <1>7 DEF Used
<1>9. QED
  BY <1>1, <1>2, <1>3, <1>4, <1>5, <1>7, <1>8

\* Stills and preview frames are different numbers.
LEMMA FrameKinds ==
  ASSUME options \in Options
  PROVE  /\ \A f : UsedStill(f) => f \in Nat /\ ~IsPreview(f) /\ ~UsedPreview(f)
         /\ \A f : UsedPreview(f) => f \in Nat /\ IsPreview(f)
<1>1. PreviewBase \in Nat /\ \A o \in Options : o.frames \in Nat
  BY CliAssumption
<1>2. \A f \in PreviewFrames : f \in Nat /\ f >= PreviewBase
  BY <1>1 DEF PreviewFrames
<1>3. \A f \in Stills : f \in Nat /\ f < PreviewBase
  BY <1>1 DEF Stills
<1>4. QED  BY <1>1, <1>2, <1>3 DEF UsedStill, UsedPreview, IsPreview

\* Every step keeps to the numbers given out.
LEMMA NumberNext ==
  ASSUME Inv, [Next]_vars
  PROVE  NumberInv'
<1>0. Shape /\ PhaseInv /\ NumberInv /\ PlaceInv /\ options \in Options
  BY DEF Inv, Shape
<1> DEFINE Still(f) == f \in Stills /\ f < nextFrame'
           Preview(f) == f \in PreviewFrames /\ f < nextPreview'
           Placed(f) == Still(f) \/ (IsPreview(f) /\ f < nextPreview')
<1>a. /\ \A f : UsedStill(f) => Still(f)
      /\ \A f : UsedPreview(f) => Preview(f)
      /\ \A f : Used(f) => Still(f) \/ Preview(f)
  BY <1>0, UsedStays DEF UsedStill, UsedPreview, Used
<1>b. \A e \in device : Placed(e.frame)
  <2>1. \A e \in device : e.frame \in Nat
    BY <1>0, MoveOn DEF Shape
  <2> QED BY <1>0, <1>a, <2>1, UsedStays DEF NumberInv, IsPreview
<1>1. CASE Capture
  <2>1. UNCHANGED <<jobs, missing, writers, tasks, device, worker>>
    BY <1>1 DEF Capture
  <2>2. nextFrame \in Stills /\ nextFrame < nextFrame'
    BY <1>0, <1>1, CaptureEffect, UsedStays DEF Stills
  <2>3. \A f \in DOMAIN captures' : Still(f)
    <3>1. DOMAIN captures' \subseteq DOMAIN captures \cup {nextFrame}
      BY <1>0, <1>1, CaptureEffect DEF Emplace
    <3> QED BY <1>0, <1>a, <2>2, <3>1 DEF NumberInv, UsedStill
  <2>4. \A f \in DOMAIN pending' : (Still(f) \/ Preview(f))
    <3>1. DOMAIN pending' \subseteq DOMAIN pending \cup {nextFrame}
      BY <1>0, <1>1, CaptureEffect DEF RegisterPath
    <3> QED BY <1>0, <1>a, <2>2, <3>1 DEF NumberInv, UsedStill, Used
  <2>5. /\ cli'.pc \in Busy => Still(cli'.entry.frame)
        /\ cli'.pc # "flushed"
    BY <1>0, <1>1, <2>2, CaptureEffect DEF Busy, UsedStill
  <2> QED BY <1>0, <1>a, <1>b, <2>1, <2>3, <2>4, <2>5
          DEF NumberInv, Used, UsedStill, UsedPreview
<1>2. CASE StillStep
  <2>1. UNCHANGED <<device, worker, writers, jobs>> /\ DOMAIN captures' \subseteq DOMAIN captures
    BY <1>0, <1>2, StillFrame
  <2>2. DOMAIN pending' \subseteq DOMAIN pending
    BY <1>2 DEF StillStep, ProcessCaptureRequest, Refuse, ResultReady, ResultTimeout,
                WriteStill, Cancel, Restrict
  <2>3. Still(cli.entry.frame)
    BY <1>0, <1>2, <1>a, StillFrame DEF NumberInv
  <2>4. missing' \subseteq missing \cup {cli.entry.frame}
    BY <1>2 DEF StillStep, ProcessCaptureRequest, ResultReady, ResultTimeout, WriteStill
  <2>5. \A k \in DOMAIN tasks' : Still(tasks'[k].frame)
    <3>1. tasks' = tasks \/ tasks' = Append(tasks, cli.entry)
      BY <1>2, CliFrame DEF StillStep, CliStep
    <3>2. tasks \in Seq(EntrySet) /\ cli.entry \in EntrySet
      BY <1>0, MoveOn DEF Shape
    <3>3. \A k \in DOMAIN Append(tasks, cli.entry) :
            Append(tasks, cli.entry)[k] = cli.entry
            \/ (k \in DOMAIN tasks /\ Append(tasks, cli.entry)[k] = tasks[k])
      BY <3>2
    <3> QED BY <1>0, <1>a, <2>3, <3>1, <3>3 DEF NumberInv
  <2>6. /\ cli'.pc \in Busy => cli'.entry = cli.entry
        /\ cli'.pc # "flushed"
    BY <1>0, <1>2, CliMoves DEF StillStep, Busy
  <2> QED BY <1>0, <1>a, <1>b, <2>1, <2>2, <2>3, <2>4, <2>5, <2>6
          DEF NumberInv, Used, UsedStill, UsedPreview
<1>3. CASE ClosingStep
  <2>1. /\ UNCHANGED <<jobs, missing, writers, tasks, worker>> /\ cli'.pc \notin Busy
        /\ DOMAIN captures' \subseteq DOMAIN captures
        /\ \A e \in device' : e \in device
    BY <1>0, <1>3, ClosingFrame, PreviewDomain DEF Asking
  <2>2. \A f \in DOMAIN pending' : (Still(f) \/ Preview(f))
    <3>1. CASE DispatchFlushed
      <4>1. DOMAIN pending' = DOMAIN pending \cup cli.frames /\ cli.pc = "flushed"
        BY <3>1 DEF DispatchFlushed, RegisterResults
      <4> QED BY <1>0, <1>a, <4>1 DEF NumberInv, Used
    <3> QED BY <1>0, <1>3, <1>a, <3>1, ClosingFrame DEF NumberInv
  <2>3. cli'.pc = "flushed" => \A f \in cli'.frames : Still(f)
    <3>1. cli'.pc = "flushed" => CloseSession
      BY <1>0, <1>3, CliMoves DEF ClosingStep
    <3>2. CloseSession => \A f \in cli'.frames : \E e \in device : f = e.frame /\ ~IsPreview(f)
      BY <1>0 DEF CloseSession, Shape, CliSet
    <3> QED BY <1>0, <1>a, <3>1, <3>2 DEF NumberInv
  <2> QED BY <1>0, <1>a, <1>b, <2>1, <2>2, <2>3
          DEF NumberInv, Used, UsedStill, UsedPreview
<1>4. CASE WorkerStep
  <2>1. UNCHANGED <<captures, jobs, missing, cli>>
    BY <1>4, WorkerFrame
  <2>2. \A f \in DOMAIN pending' : (Still(f) \/ Preview(f))
    <3>1. CASE RegisterResult
      <4>1. DOMAIN pending' = DOMAIN pending \cup {worker.entry.frame} /\ worker.pc = "result"
        BY <3>1 DEF RegisterResult, RegisterResults
      <4> QED BY <1>0, <1>a, <4>1 DEF NumberInv, Used
    <3>2. CASE StreamResultCallback
      <4>1. DOMAIN pending' \subseteq DOMAIN pending \cup {worker.entry.frame}
            /\ worker.pc = "callback"
        BY <1>0, <3>2, CallbackEffect
      <4> QED BY <1>0, <1>a, <4>1 DEF NumberInv, Used, Carrying
    <3> QED BY <1>0, <1>4, <1>a, <3>1, <3>2, WorkerFrame DEF NumberInv
  <2>3. /\ \A f \in DOMAIN writers' : Preview(f)
        /\ worker'.pc \in {"push", "inline"} => worker'.entry.frame \in DOMAIN writers'
    <3>1. CASE StreamResultCallback
      <4>1. /\ DOMAIN writers' \subseteq DOMAIN writers \cup {worker.entry.frame}
            /\ worker.pc = "callback"
        BY <1>0, <3>1, CallbackEffect DEF Emplace
      <4>2. worker'.pc \in {"push", "inline"} => worker'.entry.frame \in DOMAIN writers'
        <5>1. worker'.entry = worker.entry
          BY <1>0, <3>1, CallbackEffect
        <5>2. writers' = Emplace(writers, worker.entry.frame, [pc |-> "take", id |-> worker.entry.id])
              \/ worker' = [worker EXCEPT !.pc = "return"]
          BY <3>1 DEF StreamResultCallback
        <5>3. worker' = [worker EXCEPT !.pc = "return"] => worker'.pc = "return"
          BY <1>0 DEF Shape, WorkerSet
        <5> QED BY <5>1, <5>2, <5>3 DEF Emplace
      <4> QED BY <1>0, <1>a, <4>1, <4>2 DEF NumberInv, Carrying
    <3>2. CASE ~StreamResultCallback
      <4>1. writers' = writers
        BY <1>4, <3>2, WorkerFrame
      <4>2. worker'.pc \notin {"push", "inline"}
        <5>1. \A pc \in {"return", "requeue"} : [worker EXCEPT !.pc = pc].pc = pc
          BY <1>0 DEF Shape, WorkerSet
        <5>2. CASE SubmitRequest
          BY <1>0, <5>2, SubmitEffect
        <5> QED BY <1>4, <3>2, <5>1, <5>2, RecordTypes DEF WorkerStep, RegisterResult,
                PushWorker, InlineWritten, ReturnStreamBuffer, RequeuePreview
      <4> QED BY <1>0, <1>a, <4>1, <4>2 DEF NumberInv
    <3> QED BY <3>1, <3>2
  <2>4. \A k \in DOMAIN tasks' : Still(tasks'[k].frame)
    BY <1>0, <1>4, <1>a, WorkerFrame, SubmitEffect DEF NumberInv
  <2>5. \A e \in device' : Placed(e.frame)
    <3>1. CASE RequeuePreview
      <4> DEFINE x == Entry(nextPreview, worker.entry.id, worker.entry.buffer)
      <4>1. x.frame = nextPreview /\ (device' = device \/ (device' = device \cup {x} /\ nextPreview' = nextPreview + 1))
        BY <1>0, <3>1, RequeueEffect
      <4>2. nextPreview \in Nat /\ worker.pc = "requeue"
        BY <1>0, <3>1, RequeueEffect DEF Shape
      <4>3. nextPreview >= PreviewBase /\ PreviewBase \in Nat
        <5>1. worker.entry.frame < nextPreview /\ worker.entry.frame \in Nat /\ IsPreview(worker.entry.frame)
          BY <1>0, <4>2, FrameKinds DEF NumberInv, Carrying, UsedPreview
        <5> QED BY <1>0, <4>2, <5>1, OptionTypes DEF IsPreview
      <4>4. IsPreview(nextPreview) /\ nextPreview < nextPreview + 1
        BY <4>2, <4>3 DEF IsPreview
      <4> HIDE DEF x
      <4> QED BY <1>b, <4>1, <4>4 DEF IsPreview
    <3>2. CASE SubmitRequest
      <4>1. device' = device \/ device' = device \cup {tasks[1]}
        BY <1>0, <3>2, SubmitEffect
      <4>2. Still(tasks[1].frame)
        BY <1>0, <1>a, <3>2, SubmitEffect DEF NumberInv
      <4> QED BY <1>b, <4>1, <4>2
    <3> QED BY <1>4, <1>b, <3>1, <3>2, WorkerFrame
  <2>6. /\ worker'.pc = "result" => Still(worker'.entry.frame)
        /\ worker'.pc \in Carrying => Preview(worker'.entry.frame)
    <3>1. CASE SubmitRequest
      <4>1. Still(tasks[1].frame)
        BY <1>0, <1>a, <3>1, SubmitEffect DEF NumberInv
      <4> QED BY <1>0, <3>1, <4>1, SubmitEffect DEF Carrying
    <3>2. CASE ~SubmitRequest
      BY <1>0, <1>4, <1>a, <3>2, WorkerMoves, RecordTypes DEF NumberInv, Carrying
    <3> QED BY <3>1, <3>2
  <2> QED BY <1>0, <1>a, <2>1, <2>2, <2>3, <2>4, <2>5, <2>6
          DEF NumberInv, Used, UsedStill, UsedPreview
<1>5. ASSUME NEW e \in device, DequeueCompletion(e) PROVE NumberInv'
  <2>1. UNCHANGED <<captures, pending, missing, writers, tasks, cli>> /\ device' \subseteq device
    BY <1>5 DEF DequeueCompletion
  <2>2. DOMAIN jobs' \subseteq DOMAIN jobs \cup {e.frame} /\ (Still(e.frame) \/ Preview(e.frame))
    BY <1>0, <1>5, <1>a, DequeueEffect DEF Emplace
  <2>3. /\ worker'.pc = "result" => Still(worker'.entry.frame)
        /\ worker'.pc \in Carrying => Preview(worker'.entry.frame)
        /\ worker'.pc \notin {"push", "inline"}
    BY <1>0, <1>5, <1>a, DequeueEffect DEF Carrying
  <2> QED BY <1>0, <1>a, <1>b, <2>1, <2>2, <2>3
          DEF NumberInv, Used, UsedStill, UsedPreview
<1>6. ASSUME NEW f, EncoderStep(f) \/ WriterStep(f) PROVE NumberInv'
  <2>1. /\ UNCHANGED <<captures, tasks, device, worker, cli>>
        /\ DOMAIN jobs' \subseteq DOMAIN jobs
        /\ DOMAIN writers' = DOMAIN writers
        /\ DOMAIN pending' \subseteq DOMAIN pending
        /\ missing' = missing \/ (f \in DOMAIN writers /\ missing' = missing \cup {f})
    BY <1>6 DEF EncoderStep, EncodeFrame, SignalRelease, WriterStep, TakePreview, WritePreview,
                SignalConsumer, Cancel, Restrict, Encoded, SignalFence, WriterAt
  <2> QED BY <1>0, <1>a, <1>b, <2>1
          DEF NumberInv, Used, UsedStill, UsedPreview
<1>7. CASE AtRest
  BY <1>0, <1>7 DEF AtRest, NumberInv, Used, UsedStill, UsedPreview
<1>8. QED
  BY <1>1, <1>2, <1>3, <1>4, <1>5, <1>6, <1>7, Threads DEF CliStep, StillStep, ClosingStep

-----------------------------------------------------------------------------
(* One place per frame.                                                    *)

\* Numbers that tell the places apart.
LEMMA PlaceNumbers ==
  ASSUME Shape, NumberInv
  PROVE  /\ \A k \in DOMAIN tasks : UsedStill(tasks[k].frame)
         /\ \A e \in device : e.frame # nextPreview /\ ~(e.frame \in Stills /\ e.frame = nextFrame)
         /\ \A f : UsedStill(f) => f \notin DOMAIN writers /\ f # nextFrame
         /\ \A f \in DOMAIN jobs \cup missing \cup DOMAIN writers : Used(f)
         /\ worker.pc \in Carrying =>
              /\ IsPreview(nextPreview)
              /\ \A f : Used(f) => f # nextPreview
<1>1. options \in Options /\ nextPreview \in Nat /\ nextFrame \in Nat /\ PreviewBase \in Nat
  BY OptionTypes DEF Shape
<1>2. \A f : UsedStill(f) => /\ f \in Nat /\ f < PreviewBase /\ f < nextFrame
                             /\ f \notin DOMAIN writers
  BY <1>1, FrameKinds DEF NumberInv, UsedStill, Stills, IsPreview
<1>3. \A f : UsedPreview(f) => f \in Nat /\ f >= PreviewBase /\ f < nextPreview
  BY <1>1, FrameKinds DEF UsedPreview, IsPreview
<1>4. \A e \in device : e.frame # nextPreview /\ ~(e.frame \in Stills /\ e.frame = nextFrame)
  <2> SUFFICES ASSUME NEW e \in device
               PROVE  e.frame # nextPreview /\ ~(e.frame \in Stills /\ e.frame = nextFrame)
    OBVIOUS
  <2>1. CASE UsedStill(e.frame)
    <3>1. nextPreview >= PreviewBase
      BY DEF Shape
    <3> QED BY <1>1, <1>2, <2>1, <3>1
  <2>2. CASE IsPreview(e.frame) /\ e.frame < nextPreview
    <3>1. e.frame \in Nat
      BY MoveOn DEF Shape
    <3> QED BY <1>1, <2>2, <3>1 DEF IsPreview, Stills
  <2> QED BY <2>1, <2>2 DEF NumberInv
<1>5. nextPreview >= PreviewBase
  BY DEF Shape
<1>6. QED  BY <1>1, <1>2, <1>3, <1>4, <1>5 DEF NumberInv, Used, IsPreview

\* Every step moves a frame to a place where it was not.
LEMMA PlaceNext ==
  ASSUME Inv, [Next]_vars
  PROVE  PlaceInv'
<1>0. Shape /\ PhaseInv /\ NumberInv /\ PlaceInv /\ AccountInv /\ options \in Options
  BY DEF Inv, Shape
<1>1. CASE Capture
  <2>1. UNCHANGED <<tasks, device, worker, jobs, missing, writers>>
    BY <1>1 DEF Capture
  <2>2. \/ cli' = cli
        \/ cli'.pc = "submit" /\ cli'.entry.frame = nextFrame
    BY <1>0, <1>1, CaptureEffect
  <2>3. nextFrame \in Stills /\ ~Used(nextFrame)
    BY <1>0, <1>1, CaptureEffect
  <2>4. /\ \A k \in DOMAIN tasks : tasks[k].frame # nextFrame
        /\ \A e \in device : e.frame # nextFrame
        /\ worker.pc = "result" => worker.entry.frame # nextFrame
        /\ nextFrame \notin DOMAIN jobs \cup missing
    BY <1>0, <2>3, PlaceNumbers DEF NumberInv
  <2> QED BY <1>0, <2>1, <2>2, <2>4 DEF PlaceInv
<1>2. CASE StillStep
  <2>1. UNCHANGED <<device, worker, jobs, writers>> /\ cli.pc \in Busy
    BY <1>0, <1>2, StillFrame
  <2>2. CASE ProcessCaptureRequest /\ tasks' = Append(tasks, cli.entry)
    <3>1. cli.pc = "submit" /\ cli'.pc = "wait" /\ missing' = missing
      <4>1. Append(tasks, cli.entry) # tasks
        BY <1>0 DEF Shape
      <4>2. cli' = [cli EXCEPT !.pc = "wait"] /\ cli.pc = "submit" /\ missing' = missing
        BY <2>2, <4>1 DEF ProcessCaptureRequest
      <4> QED BY <1>0, <4>2 DEF Shape, CliSet
    <3>2. tasks \in Seq(EntrySet) /\ cli.entry \in EntrySet
      BY <1>0, MoveOn DEF Shape
    <3>3. \A k \in DOMAIN tasks' :
            \/ k \in DOMAIN tasks /\ tasks'[k] = tasks[k]
            \/ k = Len(tasks) + 1 /\ tasks'[k] = cli.entry
      BY <2>2, <3>2
    <3> QED BY <1>0, <2>1, <3>1, <3>3 DEF PlaceInv
  <2>3. CASE WriteStill
    <3>1. /\ cli.pc = "fence" /\ cli'.pc = "prompt" /\ tasks' = tasks
          /\ missing' = missing \/ missing' = missing \cup {cli.entry.frame}
      BY <1>0, <2>3, CliMoves DEF WriteStill
    <3> QED BY <1>0, <2>1, <3>1 DEF PlaceInv
  <2>4. CASE ResultReady
    <3>1. cli'.pc # "submit" /\ cli.pc = "wait" /\ tasks' = tasks /\ missing' = missing
          /\ (cli'.pc = "fence" => cli'.entry = cli.entry)
      BY <1>0, <2>4, CliMoves DEF ResultReady
    <3>2. PendingWrite(pending, cli.entry.frame).result # "none"
      BY <2>4 DEF ResultReady, IsRegistered
    <3>3. ~InFlight(cli.entry.frame) /\ ~IsPreview(cli.entry.frame)
      BY <1>0, <3>1, <3>2, FrameKinds DEF AccountInv, NumberInv, Busy
    <3> QED BY <1>0, <2>1, <3>1, <3>3 DEF PlaceInv, InFlight
  <2>5. CASE ResultTimeout \/ (ProcessCaptureRequest /\ tasks' # Append(tasks, cli.entry))
    <3>1. cli'.pc = "prompt" /\ UNCHANGED <<tasks, missing>>
      BY <1>0, <2>5, CliMoves, RecordTypes DEF ResultTimeout, ProcessCaptureRequest, Refuse, CliPcs
    <3> QED BY <1>0, <2>1, <3>1 DEF PlaceInv
  <2> QED BY <1>2, <2>2, <2>3, <2>4, <2>5 DEF StillStep
<1>3. CASE ClosingStep
  <2>1. /\ UNCHANGED <<tasks, worker, jobs, missing, writers>> /\ cli'.pc \notin {"submit", "fence"}
        /\ device' = device \/ device' = {}
    BY <1>0, <1>3, ClosingFrame DEF Asking, Busy
  <2> QED BY <1>0, <2>1 DEF PlaceInv
<1>4. CASE WorkerStep
  <2>1. UNCHANGED <<jobs, missing, cli>>
    BY <1>4, WorkerFrame
  <2>2. CASE SubmitRequest
    <3> DEFINE e == tasks[1]
    <3>1. /\ worker.pc = "idle" /\ 1 \in DOMAIN tasks /\ writers' = writers
          /\ \A k \in DOMAIN tasks' : k + 1 \in DOMAIN tasks /\ k + 1 # 1 /\ tasks'[k] = tasks[k + 1]
      BY <1>0, <2>2, SubmitEffect DEF SubmitRequest
    <3>2. \/ device' = device \cup {e} /\ worker' = worker
          \/ device' = device /\ worker'.pc = "result" /\ worker'.entry = e
      BY <1>0, <2>2, SubmitEffect
    <3>3. e.frame \notin DOMAIN writers
      BY <1>0, <3>1, PlaceNumbers
    <3>4. \A k \in DOMAIN tasks' : tasks'[k].frame # e.frame
      BY <1>0, <3>1 DEF PlaceInv
    <3>5. \A j, k \in DOMAIN tasks' : tasks'[j].frame = tasks'[k].frame => j = k
      <4>1. DOMAIN tasks' \subseteq Nat
        BY <1>0, <2>2, SubmitEffect
      <4> QED BY <1>0, <3>1, <4>1 DEF PlaceInv
    <3> HIDE DEF e
    <3>6. /\ \A x \in device : x.frame # e.frame
          /\ cli.pc \in {"submit", "fence"} => e.frame # cli.entry.frame
          /\ e.frame \notin DOMAIN jobs \cup missing
      BY <1>0, <3>1 DEF PlaceInv, e
    <3> QED BY <1>0, <2>1, <3>1, <3>2, <3>3, <3>4, <3>5, <3>6 DEF PlaceInv
  <2>3. CASE StreamResultCallback
    <3>1. /\ UNCHANGED <<tasks, device>> /\ worker.pc = "callback"
          /\ DOMAIN writers' \subseteq DOMAIN writers \cup {worker.entry.frame}
          /\ worker'.entry = worker.entry /\ worker'.pc \notin {"callback", "result"}
      BY <1>0, <2>3, CallbackEffect DEF StreamResultCallback, Emplace
    <3> QED BY <1>0, <2>1, <3>1 DEF PlaceInv
  <2>4. CASE RequeuePreview
    <3> DEFINE x == Entry(nextPreview, worker.entry.id, worker.entry.buffer)
    <3>1. /\ worker.pc = "requeue" /\ worker'.pc = "idle" /\ x.frame = nextPreview
          /\ device' = device \/ device' = device \cup {x}
          /\ UNCHANGED <<tasks, writers>>
      BY <1>0, <2>4, RequeueEffect, RecordTypes DEF RequeuePreview
    <3>2. /\ \A k \in DOMAIN tasks : tasks[k].frame # nextPreview
          /\ \A e \in device : e.frame # nextPreview
          /\ nextPreview \notin DOMAIN jobs \cup missing \cup DOMAIN writers
          /\ cli.pc \in {"submit", "fence"} => cli.entry.frame # nextPreview
      BY <1>0, <3>1, PlaceNumbers DEF Carrying, Used, NumberInv, Busy
    <3> HIDE DEF x
    <3> QED BY <1>0, <2>1, <3>1, <3>2 DEF PlaceInv
  <2>5. CASE ~SubmitRequest /\ ~StreamResultCallback /\ ~RequeuePreview
    <3>1. UNCHANGED <<tasks, device, writers>>
      BY <1>4, <2>5, WorkerFrame
    <3>2. worker'.pc = "idle" \/ (worker'.entry = worker.entry /\ worker.pc # "idle"
                                  /\ worker'.pc \notin {"callback", "result"})
      BY <1>0, <1>4, <2>5, WorkerMoves, RecordTypes
    <3> QED BY <1>0, <2>1, <3>1, <3>2 DEF PlaceInv
  <2> QED BY <2>2, <2>3, <2>4, <2>5
<1>5. ASSUME NEW e \in device, DequeueCompletion(e) PROVE PlaceInv'
  <2>1. UNCHANGED <<missing, writers, tasks, cli>> /\ device' = device \ {e}
    BY <1>5 DEF DequeueCompletion
  <2>2. /\ DOMAIN jobs' \subseteq DOMAIN jobs \cup {e.frame}
        /\ worker.pc = "idle" /\ worker'.entry = e
    BY <1>0, <1>5, DequeueEffect DEF Emplace
  <2> QED BY <1>0, <2>1, <2>2 DEF PlaceInv
<1>6. ASSUME NEW f, EncoderStep(f) \/ WriterStep(f) PROVE PlaceInv'
  <2>1. /\ UNCHANGED <<tasks, device, worker, cli>>
        /\ DOMAIN jobs' \subseteq DOMAIN jobs
        /\ DOMAIN writers' = DOMAIN writers
        /\ missing' = missing \/ (f \in DOMAIN writers /\ missing' = missing \cup {f})
    BY <1>6 DEF EncoderStep, EncodeFrame, SignalRelease, WriterStep, TakePreview, WritePreview,
                SignalConsumer, Encoded, SignalFence, WriterAt
  <2>2. /\ \A k \in DOMAIN tasks : tasks[k].frame \notin DOMAIN writers
        /\ cli.pc = "submit" => cli.entry.frame \notin DOMAIN writers
    BY <1>0, PlaceNumbers DEF NumberInv, Busy
  <2> QED BY <1>0, <2>1, <2>2 DEF PlaceInv
<1>7. CASE AtRest
  BY <1>0, <1>7 DEF AtRest, PlaceInv
<1>8. QED
  BY <1>1, <1>2, <1>3, <1>4, <1>5, <1>6, <1>7, Threads DEF CliStep, StillStep, ClosingStep

-----------------------------------------------------------------------------
(* Leases, pending entries and results to come.                            *)

\* No step brings a frame into flight but the hand-over by main.
LEMMA InFlightNext ==
  ASSUME Inv, [Next]_vars, NEW f, InFlight(f)', ~InFlight(f)
  PROVE  ProcessCaptureRequest /\ cli'.pc = "wait" /\ f = cli.entry.frame /\ cli'.entry = cli.entry
<1>0. Shape /\ PhaseInv /\ NumberInv /\ PlaceInv /\ options \in Options
  BY DEF Inv, Shape
<1>1. CASE ProcessCaptureRequest
  <2>1. UNCHANGED <<device, worker>>
    BY <1>1 DEF ProcessCaptureRequest
  <2>2. \E k \in DOMAIN tasks' : tasks'[k].frame = f
    BY <2>1 DEF InFlight
  <2>3. ~\E k \in DOMAIN tasks : tasks[k].frame = f
    BY DEF InFlight
  <2>4. tasks' = Append(tasks, cli.entry) /\ cli' = [cli EXCEPT !.pc = "wait"]
    BY <1>1, <2>2, <2>3 DEF ProcessCaptureRequest
  <2>5. tasks \in Seq(EntrySet) /\ cli.entry \in EntrySet
    BY <1>0, MoveOn DEF Shape
  <2>6. f = cli.entry.frame
    BY <2>2, <2>3, <2>4, <2>5
  <2>7. cli'.pc = "wait" /\ cli'.entry = cli.entry
    BY <1>0, <2>4 DEF Shape, CliSet
  <2> QED BY <1>1, <2>6, <2>7
<1>2. CASE Capture \/ ResultReady \/ ResultTimeout \/ WriteStill
  <2>1. UNCHANGED <<tasks, device, worker>>
    BY <1>2 DEF Capture, ResultReady, ResultTimeout, WriteStill
  <2> QED BY <2>1 DEF InFlight
<1>3. CASE ClosingStep
  <2>1. UNCHANGED <<tasks, worker>> /\ device' \subseteq device
    BY <1>0, <1>3, ClosingFrame
  <2> QED BY <2>1 DEF InFlight
<1>4. CASE SubmitRequest
  <2>1. \A k \in DOMAIN tasks' : \E j \in DOMAIN tasks : tasks'[k] = tasks[j]
    BY <1>0, <1>4, SubmitEffect
  <2>2. /\ 1 \in DOMAIN tasks /\ worker.pc = "idle"
        /\ \/ device' = device \cup {tasks[1]} /\ worker' = worker
           \/ device' = device /\ worker'.entry = tasks[1]
    BY <1>0, <1>4, SubmitEffect
  <2> QED BY <2>1, <2>2 DEF InFlight
<1>5. CASE WorkerStep /\ ~SubmitRequest
  <2>1. tasks' = tasks /\ worker'.pc # "result"
    BY <1>0, <1>5, WorkerFrame, WorkerMoves, RecordTypes
  <2>2. \A e \in device' : ~IsPreview(e.frame) => e \in device
    <3>1. CASE RequeuePreview
      <4>1. \A e \in device' : e \in device \/ e.frame = nextPreview
        BY <1>0, <3>1, RequeueEffect
      <4>2. IsPreview(nextPreview)
        BY <1>0, <3>1, RequeueEffect, PlaceNumbers DEF Carrying
      <4> QED BY <4>1, <4>2
    <3> QED BY <1>5, <3>1, WorkerFrame
  <2> QED BY <2>1, <2>2 DEF InFlight, IsPreview
<1>6. ASSUME NEW e \in device, DequeueCompletion(e) PROVE FALSE
  <2>1. /\ tasks' = tasks /\ device' \subseteq device /\ worker'.entry = e
        /\ worker'.pc = "result" => ~IsPreview(e.frame)
    BY <1>0, <1>6, DequeueEffect DEF DequeueCompletion
  <2> QED BY <1>6, <2>1 DEF InFlight
<1>7. CASE (\E x : EncoderStep(x) \/ WriterStep(x)) \/ AtRest
  <2>1. UNCHANGED <<tasks, device, worker>>
    BY <1>7 DEF EncoderStep, EncodeFrame, SignalRelease, WriterStep, TakePreview, WritePreview,
                SignalConsumer, AtRest
  <2> QED BY <2>1 DEF InFlight
<1>8. QED
  BY <1>1, <1>2, <1>3, <1>4, <1>5, <1>6, <1>7, Threads DEF CliStep, ClosingStep

\* Every step keeps the account.
LEMMA AccountNext ==
  ASSUME Inv, [Next]_vars
  PROVE  AccountInv'
<1>0. /\ Shape /\ PhaseInv /\ NumberInv /\ PlaceInv /\ AccountInv /\ LeaseInv
      /\ options \in Options /\ pending \in [DOMAIN pending -> WriteSet]
  BY DEF Inv, Shape
<1>a. \A f : InFlight(f)' =>
        InFlight(f) \/ (ProcessCaptureRequest /\ cli'.pc = "wait" /\ f = cli.entry.frame)
  BY InFlightNext
<1>b. \A f : f \notin DOMAIN pending => PendingWrite(pending, f).result = "none"
  BY DEF PendingWrite
<1>1. CASE Capture
  <2>0. cli.pc = "prompt" /\ ~ProcessCaptureRequest
    BY <1>1 DEF Capture, ProcessCaptureRequest
  <2>1. UNCHANGED <<tasks, device, worker, timedOut, open>>
    BY <1>1 DEF Capture
  <2>2. ~Used(nextFrame)
    BY <1>0, <1>1, CaptureEffect
  <2>3. CASE UNCHANGED <<captures, pending, cli>>
    BY <1>0, <2>0, <2>1, <2>3 DEF AccountInv, InFlight, Asking
  <2>4. CASE ~UNCHANGED <<captures, pending, cli>>
    <3>1. /\ pending' = RegisterPath(pending, nextFrame)
          /\ cli'.pc = "submit" /\ cli'.entry.frame = nextFrame
          /\ DOMAIN captures' \subseteq DOMAIN captures \cup {nextFrame}
      BY <1>0, <1>1, <2>4, CaptureEffect DEF Emplace
    <3>2. /\ DOMAIN pending' = DOMAIN pending \cup {nextFrame}
          /\ \A x : PendingWrite(pending', x).result = PendingWrite(pending, x).result
      <4>1. /\ DOMAIN RegisterPath(pending, nextFrame) = DOMAIN pending \cup {nextFrame}
            /\ \A x : PendingWrite(RegisterPath(pending, nextFrame), x).result
                       = PendingWrite(pending, x).result
        BY <1>0, PendingTypes
      <4> QED BY <3>1, <4>1
    <3>3. PendingWrite(pending', nextFrame).result = "none"
      BY <1>0, <1>b, <2>2, <3>2 DEF NumberInv
    <3>4. \A f \in DOMAIN pending' : pending'[f].result = PendingWrite(pending, f).result
      BY <3>2 DEF PendingWrite
    <3>5. open => \A f \in DOMAIN pending' : pending'[f].result # "empty"
      BY <1>0, <3>4 DEF AccountInv, PendingWrite
    <3> QED BY <1>0, <1>a, <2>0, <2>1, <3>1, <3>2, <3>3, <3>5 DEF AccountInv, Asking, Busy
  <2> QED BY <2>3, <2>4
<1>2. CASE StillStep
  <2>1. UNCHANGED <<worker, open>> /\ cli.pc \in Busy /\ cli'.pc \in Asking
    BY <1>0, <1>2, StillFrame
  <2>2. open
    BY <1>0, <2>1 DEF PhaseInv, BeforeClose, Asking
  <2>3. CASE ProcessCaptureRequest
    <3>1. timedOut' = timedOut /\ cli.pc = "submit"
      BY <2>3 DEF ProcessCaptureRequest
    <3>2. CASE cli'.pc = "wait"
      <4>1. cli'.entry = cli.entry /\ UNCHANGED <<captures, pending>>
        BY <1>0, <2>3, <3>2, CliMoves, RecordTypes DEF ProcessCaptureRequest, Refuse, CliPcs
      <4> QED BY <1>0, <1>a, <2>1, <3>1, <3>2, <4>1 DEF AccountInv, Asking, Busy
    <3>3. CASE cli'.pc # "wait"
      <4>1. cli'.pc = "prompt"
        BY <1>0, <2>3, <3>3, CliMoves
      <4>2. [cli EXCEPT !.pc = "wait"].pc = "wait"
        BY <1>0 DEF Shape, CliSet
      <4>3. Refuse
        BY <2>3, <3>3, <4>2 DEF ProcessCaptureRequest
      <4>4. /\ DOMAIN captures' = DOMAIN captures \ {cli.entry.frame}
            /\ DOMAIN pending' = DOMAIN pending \ {cli.entry.frame}
            /\ \A f \in DOMAIN pending' : pending'[f] = pending[f]
        BY <4>3 DEF Refuse, Release, Cancel, Restrict
      <4> QED BY <1>0, <1>a, <2>1, <3>1, <4>1, <4>4 DEF AccountInv, Asking, Busy
    <3> QED BY <3>2, <3>3
  <2>4. CASE ResultReady
    <3>0. /\ UNCHANGED <<captures, timedOut>> /\ cli.pc = "wait" /\ ~ProcessCaptureRequest
          /\ pending' = Cancel(pending, cli.entry.frame)
          /\ PendingWrite(pending, cli.entry.frame).result # "none"
      BY <2>4 DEF ResultReady, IsRegistered, ProcessCaptureRequest
    <3>1. PendingWrite(pending, cli.entry.frame).result # "empty"
      <4>1. cli.entry.frame \in DOMAIN pending
        BY <1>b, <3>0
      <4> QED BY <1>0, <2>2, <4>1 DEF AccountInv, PendingWrite
    <3>2. cli'.pc = "fence" /\ cli'.entry = cli.entry
      BY <1>0, <2>4, <3>1, CliMoves
    <3>3. /\ DOMAIN pending' = DOMAIN pending \ {cli.entry.frame}
          /\ \A f \in DOMAIN pending' : pending'[f] = pending[f]
      BY <3>0 DEF Cancel, Restrict
    <3>4. ~InFlight(cli.entry.frame)
      BY <1>0, <3>0 DEF AccountInv
    <3> QED BY <1>0, <1>a, <2>1, <3>0, <3>2, <3>3, <3>4 DEF AccountInv, Asking, Busy
  <2>5. CASE ResultTimeout
    <3>1. /\ UNCHANGED <<captures, pending>> /\ timedOut' = timedOut \cup {cli.entry.frame}
          /\ cli.pc = "wait" /\ ~ProcessCaptureRequest
      BY <2>5 DEF ResultTimeout, ProcessCaptureRequest
    <3>2. cli'.pc = "prompt"
      BY <1>0, <2>5, CliMoves
    <3> QED BY <1>0, <1>a, <2>1, <3>1, <3>2 DEF AccountInv, Asking, Busy
  <2>6. CASE WriteStill
    <3>1. /\ UNCHANGED <<pending, timedOut>> /\ cli.pc = "fence" /\ ~ProcessCaptureRequest
          /\ DOMAIN captures' = DOMAIN captures \ {cli.entry.id}
      BY <2>6 DEF WriteStill, ProcessCaptureRequest, Release, Restrict
    <3>2. cli.entry.id = cli.entry.frame \/ DOMAIN captures = {}
      BY <1>0, <2>1 DEF LeaseInv, StillEntry
    <3>3. cli'.pc = "prompt"
      BY <1>0, <2>6, CliMoves
    <3> QED BY <1>0, <1>a, <2>1, <3>1, <3>2, <3>3 DEF AccountInv, Asking, Busy
  <2> QED BY <1>2, <2>3, <2>4, <2>5, <2>6 DEF StillStep
<1>3. CASE ClosingStep
  <2>1. worker' = worker /\ cli'.pc \notin Asking
    BY <1>0, <1>3, ClosingFrame
  <2>2. open' => open /\ pending' = pending
    <3>1. DispatchFlushed => ~open /\ open' = open
      BY <1>0 DEF DispatchFlushed, PhaseInv, BeforeClose, Asking, Busy
    <3> QED BY <1>0, <1>3, <3>1, ClosingFrame DEF Shape
  <2> QED BY <1>0, <2>1, <2>2 DEF AccountInv, Asking, Busy
<1>4. CASE WorkerStep
  <2>1. UNCHANGED <<captures, cli, open, timedOut>>
    BY <1>4, WorkerFrame
  <2>2. \A f : InFlight(f)' => InFlight(f)
    BY <1>a, <2>1 DEF ProcessCaptureRequest
  <2>3. open => worker'.result # "empty"
    BY <1>0, <1>4, SubmitEffect, WorkerMoves, RecordTypes DEF AccountInv
  <2>4. CASE RegisterResult
    <3>0. PICK g : g = worker.entry.frame
      OBVIOUS
    <3>1. pending' = RegisterResults(pending, {g}, worker.result) /\ worker.pc = "result"
          /\ worker' = IdleWorker /\ UNCHANGED <<tasks, device>>
      BY <2>4, <3>0 DEF RegisterResult
    <3>2. /\ DOMAIN pending' = DOMAIN pending \cup {g}
          /\ \A f \in DOMAIN pending \ {g} : pending'[f] = pending[f]
          /\ pending'[g].result = worker.result
      <4>1. PendingWrite(pending, g) \in WriteSet
        BY <1>0, PendingTypes
      <4> QED BY <1>0, <3>1, <4>1 DEF RegisterResults, WriteSet
    <3>3. InFlight(g) /\ g \in Stills /\ UsedStill(g)
      BY <1>0, <3>0, <3>1 DEF InFlight, NumberInv, UsedStill
    <3>4. ~InFlight(g)'
      <4>1. worker'.pc = "idle"
        BY <3>1, RecordTypes
      <4>2. /\ \A k \in DOMAIN tasks : tasks[k].frame # g
            /\ \A e \in device : e.frame # g
        BY <1>0, <3>0, <3>1 DEF PlaceInv
      <4>3. /\ \A k \in DOMAIN tasks' : tasks'[k].frame # g
            /\ \A e \in device' : e.frame # g
        BY <3>1, <4>2
      <4> QED BY <3>1, <4>1, <4>3 DEF InFlight
    <3>5. cli.pc = "submit" => g # cli.entry.frame
      BY <1>0, <3>0, <3>1 DEF PlaceInv
    <3>6. \A f : f # g => PendingWrite(pending', f) = PendingWrite(pending, f)
      BY <3>2 DEF PendingWrite
    <3>7. open => \A f \in DOMAIN pending' : pending'[f].result # "empty"
      BY <1>0, <3>2 DEF AccountInv
    <3>8. cli.pc \in Asking => g \in timedOut \/ (cli.pc = "wait" /\ g = cli.entry.frame)
      BY <1>0, <3>3 DEF AccountInv
    <3> QED BY <1>0, <2>1, <2>2, <2>3, <3>2, <3>4, <3>5, <3>6, <3>7, <3>8 DEF AccountInv
  <2>5. CASE StreamResultCallback
    <3>1. pending' = pending \/ (SavesPreview(options) /\ cli.pc \notin Asking)
      BY <1>0, <2>5, CallbackEffect DEF PhaseInv
    <3>2. open => \A f \in DOMAIN pending' : pending'[f].result # "empty"
      BY <1>0, <2>5, CallbackEffect DEF AccountInv
    <3> QED BY <1>0, <2>1, <2>2, <2>3, <3>1, <3>2 DEF AccountInv, Asking, Busy
  <2>6. CASE ~RegisterResult /\ ~StreamResultCallback
    <3>1. pending' = pending
      BY <1>4, <2>6, WorkerFrame
    <3> QED BY <1>0, <2>1, <2>2, <2>3, <3>1 DEF AccountInv
  <2> QED BY <2>4, <2>5, <2>6
<1>5. ASSUME NEW e \in device, DequeueCompletion(e) PROVE AccountInv'
  <2>1. UNCHANGED <<captures, pending, cli, open, timedOut>>
    BY <1>5 DEF DequeueCompletion
  <2>2. worker'.result = "ok"
    BY <1>0, <1>5, DequeueEffect
  <2>3. \A f : InFlight(f)' => InFlight(f)
    BY <1>a, <2>1 DEF ProcessCaptureRequest
  <2> QED BY <1>0, <2>1, <2>2, <2>3 DEF AccountInv
<1>6. CASE (\E f : EncoderStep(f) \/ WriterStep(f)) \/ AtRest
  <2>1. UNCHANGED <<captures, tasks, device, worker, cli, open, timedOut>>
    BY <1>6 DEF EncoderStep, EncodeFrame, SignalRelease, WriterStep, TakePreview, WritePreview,
                SignalConsumer, AtRest
  <2>2. pending' = pending \/ \E f : pending' = Cancel(pending, f)
    BY <1>6 DEF EncoderStep, EncodeFrame, SignalRelease, WriterStep, TakePreview, WritePreview,
                SignalConsumer, AtRest
  <2>3. /\ DOMAIN pending' \subseteq DOMAIN pending
        /\ \A f \in DOMAIN pending' : pending'[f] = pending[f]
    BY <2>2 DEF Cancel, Restrict
  <2>4. \A f : PendingWrite(pending', f).result \in {PendingWrite(pending, f).result, "none"}
    BY <2>3 DEF PendingWrite
  <2>5. \A f : InFlight(f)' <=> InFlight(f)
    BY <2>1 DEF InFlight
  <2> QED BY <1>0, <2>1, <2>3, <2>4, <2>5 DEF AccountInv
<1>7. QED
  BY <1>1, <1>2, <1>3, <1>4, <1>5, <1>6, Threads DEF CliStep, StillStep, ClosingStep

-----------------------------------------------------------------------------
(* Who holds which buffer.                                                 *)

\* An entry keeps its buffer while its lease stays.
LEMMA EntryKept ==
  ASSUME NEW e, StillEntry(e), options' = options, open' => open,
         open' /\ e.frame \in DOMAIN captures =>
           e.frame \in DOMAIN captures' /\ captures'[e.frame] = captures[e.frame]
  PROVE  StillEntry(e)'
  BY DEF StillEntry

\* Giving leases up keeps the others apart.
LEMMA FewerLeases ==
  ASSUME LeaseInv, options' = options,
         DOMAIN captures' \subseteq DOMAIN captures,
         \A f \in DOMAIN captures' : captures'[f] = captures[f],
         DOMAIN previews' \subseteq DOMAIN previews,
         \A id \in DOMAIN previews' : previews'[id] = previews[id]
  PROVE  /\ ~options'.v4l2 => DOMAIN captures' = {}
         /\ \A f, g \in DOMAIN captures' : captures'[f] = captures'[g] => f = g
         /\ \A f \in DOMAIN captures', id \in DOMAIN previews' : captures'[f] # previews'[id]
<1>1. ~options'.v4l2 => DOMAIN captures' = {}
  BY Zenon DEF LeaseInv
<1>2. ASSUME NEW f \in DOMAIN captures', NEW g \in DOMAIN captures', captures'[f] = captures'[g]
      PROVE  f = g
  BY <1>2 DEF LeaseInv
<1>3. ASSUME NEW f \in DOMAIN captures', NEW id \in DOMAIN previews'
      PROVE  captures'[f] # previews'[id]
  <2>1. f \in DOMAIN captures /\ id \in DOMAIN previews
    OBVIOUS
  <2>2. captures[f] # previews[id]
    BY <2>1 DEF LeaseInv
  <2> QED BY <2>2
<1> QED BY <1>1, <1>2, <1>3

\* While stills are taken, only the lease of the still in hand is given up.
LEMMA StillLeases ==
  ASSUME Shape, LeaseInv, StillStep
  PROVE  \/ captures' = captures
         \/ /\ \A f \in DOMAIN captures : f # cli.entry.frame => f \in DOMAIN captures'
            /\ DOMAIN captures' \subseteq DOMAIN captures
            /\ \A f \in DOMAIN captures' : captures'[f] = captures[f]
            /\ cli.pc \in {"submit", "fence"} /\ tasks' = tasks /\ cli'.pc = "prompt"
            /\ cli.pc = "fence" => Signalled(jobs, cli.entry.frame)
<1>1. CASE ProcessCaptureRequest
  <2>1. CASE Refuse /\ UNCHANGED tasks
    BY <1>1, <2>1, RecordTypes DEF ProcessCaptureRequest, Refuse, Release, Restrict, CliPcs
  <2> QED BY <1>1, <2>1 DEF ProcessCaptureRequest
<1>2. CASE WriteStill
  <2>1. /\ captures' = Release(captures, cli.entry.id) /\ cli.pc = "fence" /\ tasks' = tasks
        /\ cli'.pc = "prompt" /\ Signalled(jobs, cli.entry.frame)
    BY <1>2, RecordTypes DEF WriteStill, CliPcs
  <2>2. cli.entry.id = cli.entry.frame \/ DOMAIN captures = {}
    BY <2>1 DEF LeaseInv, StillEntry, Busy
  <2> QED BY <2>1, <2>2 DEF Release, Restrict
<1> QED BY <1>1, <1>2 DEF StillStep, ResultReady, ResultTimeout

\* A preview frame the worker carries came with it.
LEMMA CarryingMoves ==
  ASSUME Shape, WorkerStep
  PROVE  worker'.pc \in Carrying => worker.pc \in Carrying \ {"requeue"} /\ worker'.entry = worker.entry
<1>1. CASE SubmitRequest
  BY <1>1, SubmitEffect DEF Carrying
<1>2. CASE ~SubmitRequest
  BY <1>2, WorkerMoves, RecordTypes DEF Carrying
<1> QED BY <1>1, <1>2

\* Every step keeps the leases apart.
LEMMA LeaseNext ==
  ASSUME Inv, [Next]_vars
  PROVE  LeaseInv'
<1>0. /\ Shape /\ PhaseInv /\ NumberInv /\ PlaceInv /\ LeaseInv
      /\ options \in Options /\ captures \in [DOMAIN captures -> Nat]
  BY DEF Inv, Shape
<1>1. CASE Capture
  <2>1. UNCHANGED <<options, previews, tasks, device, open, worker>>
    BY <1>1 DEF Capture
  <2>2. CASE UNCHANGED <<captures, pending, cli>>
    BY <1>0, <2>1, <2>2 DEF LeaseInv, StillEntry, PreviewEntry
  <2>3. CASE /\ ~options.v4l2 /\ UNCHANGED captures
             /\ cli'.entry.id = NoId /\ cli'.entry.buffer = NoBuffer
    BY <1>0, <2>1, <2>3 DEF LeaseInv, StillEntry, PreviewEntry
  <2>4. CASE /\ options.v4l2 /\ cli'.entry.buffer \in Free
             /\ captures' = Emplace(captures, nextFrame, cli'.entry.buffer)
             /\ cli'.entry.id = nextFrame /\ cli'.entry.frame = nextFrame
    <3>1. PICK b \in Free : b = cli'.entry.buffer
      BY <2>4
    <3>2. /\ b \in Nat
          /\ \A f \in DOMAIN captures : captures[f] # b
          /\ \A id \in DOMAIN previews : previews[id] # b
      BY <1>0, FreeBuffers
    <3>3. nextFrame \notin DOMAIN captures
      BY <1>0, <1>1, CaptureEffect DEF NumberInv, Used
    <3>4. /\ DOMAIN captures' = DOMAIN captures \cup {nextFrame}
          /\ \A f \in DOMAIN captures : captures'[f] = captures[f]
          /\ captures'[nextFrame] = b
      BY <1>0, <2>4, <3>1, <3>3 DEF Emplace
    <3>5. \A e : StillEntry(e) => StillEntry(e)'
      BY <2>1, <3>4, EntryKept
    <3>6. StillEntry(cli.entry)'
      BY <2>1, <2>4, <3>1, <3>4 DEF StillEntry
    <3> QED BY <1>0, <2>1, <2>4, <3>2, <3>4, <3>5, <3>6 DEF LeaseInv, PreviewEntry
  <2> QED BY <1>0, <1>1, <2>2, <2>3, <2>4, CaptureEffect
<1>2. CASE StillStep
  <2>1. UNCHANGED <<options, previews, device, open, worker>> /\ cli.pc \in Busy
    BY <1>0, <1>2, StillFrame
  <2>2. \/ captures' = captures
        \/ /\ \A f \in DOMAIN captures : f # cli.entry.frame => f \in DOMAIN captures'
           /\ DOMAIN captures' \subseteq DOMAIN captures
           /\ \A f \in DOMAIN captures' : captures'[f] = captures[f]
           /\ cli.pc \in {"submit", "fence"} /\ tasks' = tasks /\ cli'.pc = "prompt"
    BY <1>0, <1>2, StillLeases
  <2>3. \A e : StillEntry(e) /\ e.frame # cli.entry.frame => StillEntry(e)'
    BY <2>1, <2>2, EntryKept
  <2>4. captures' = captures => \A e : StillEntry(e) => StillEntry(e)'
    BY <2>1, EntryKept
  <2>5. /\ (\A k \in DOMAIN tasks : StillEntry(tasks[k]))'
        /\ (\A e \in device : IF IsPreview(e.frame) THEN PreviewEntry(e) ELSE StillEntry(e))'
    <3>1. CASE captures' = captures
      <4>1. tasks' = tasks \/ tasks' = Append(tasks, cli.entry)
        BY <1>2, CliFrame DEF StillStep, CliStep
      <4>2. tasks \in Seq(EntrySet) /\ cli.entry \in EntrySet
        BY <1>0, MoveOn DEF Shape
      <4>3. \A k \in DOMAIN tasks' :
              tasks'[k] = cli.entry \/ (k \in DOMAIN tasks /\ tasks'[k] = tasks[k])
        BY <4>1, <4>2
      <4>4. \A k \in DOMAIN tasks' : StillEntry(tasks'[k])
        BY <1>0, <2>1, <4>3 DEF LeaseInv
      <4> QED BY <1>0, <2>1, <3>1, <4>4 DEF LeaseInv, StillEntry, PreviewEntry
    <3>2. CASE captures' # captures
      <4>1. /\ \A k \in DOMAIN tasks : tasks[k].frame # cli.entry.frame
            /\ \A e \in device : e.frame # cli.entry.frame
        BY <1>0, <2>2, <3>2 DEF PlaceInv
      <4>2. tasks' = tasks
        BY <2>2, <3>2
      <4> QED BY <1>0, <2>1, <2>3, <4>1, <4>2 DEF LeaseInv, PreviewEntry
    <3> QED BY <3>1, <3>2
  <2>6. (cli.pc \in Busy => StillEntry(cli.entry))'
    <3>1. cli'.pc \in Busy => cli'.entry = cli.entry
      BY <1>0, <1>2, CliMoves DEF StillStep, Busy
    <3>2. cli'.pc \in Busy => captures' = captures
      BY <2>2 DEF Busy
    <3> QED BY <1>0, <2>1, <3>1, <3>2 DEF LeaseInv, StillEntry
  <2>7. /\ DOMAIN captures' \subseteq DOMAIN captures
        /\ \A f \in DOMAIN captures' : captures'[f] = captures[f]
    BY <2>2
  <2>8. /\ ~options'.v4l2 => DOMAIN captures' = {}
        /\ \A f, g \in DOMAIN captures' : captures'[f] = captures'[g] => f = g
        /\ \A f \in DOMAIN captures', id \in DOMAIN previews' : captures'[f] # previews'[id]
    BY <1>0, <2>1, <2>7, FewerLeases
  <2>9. (worker.pc \in Carrying =>
           /\ PreviewEntry(worker.entry)
           /\ \A e \in device : IsPreview(e.frame) => e.id # worker.entry.id)'
    BY <1>0, <2>1 DEF LeaseInv, PreviewEntry
  <2> QED BY <1>0, <2>1, <2>5, <2>6, <2>8, <2>9 DEF LeaseInv
<1>3. CASE ClosingStep
  <2>1. /\ UNCHANGED <<tasks, worker, options>> /\ cli'.pc \notin Busy
        /\ captures' = captures \/ (captures' = NoBuffers /\ ReleaseAll)
        /\ previews' = previews \/ previews' = NoBuffers
        /\ \A e \in device' : e \in device
    BY <1>0, <1>3, ClosingFrame DEF Asking
  <2>a. open' => open
    BY <1>0, <1>3, ClosingFrame, Zenon
  <2>2. ReleaseAll => ~open
    BY <1>0 DEF ReleaseAll, PhaseInv, BeforeClose, Asking, Busy
  <2>3. /\ DOMAIN captures' \subseteq DOMAIN captures
        /\ \A f \in DOMAIN captures' : captures'[f] = captures[f]
        /\ DOMAIN previews' \subseteq DOMAIN previews
        /\ \A f \in DOMAIN previews' : previews'[f] = previews[f]
    BY <2>1, PreviewDomain
  <2>4. \A e : StillEntry(e) => StillEntry(e)'
    BY <2>1, <2>2, <2>a, EntryKept
  <2>5. /\ ~options'.v4l2 => DOMAIN captures' = {}
        /\ \A f, g \in DOMAIN captures' : captures'[f] = captures'[g] => f = g
        /\ \A f \in DOMAIN captures', id \in DOMAIN previews' : captures'[f] # previews'[id]
    BY <1>0, <2>1, <2>3, FewerLeases
  <2>6. /\ (\A k \in DOMAIN tasks : StillEntry(tasks[k]))'
        /\ (\A e \in device : IF IsPreview(e.frame) THEN PreviewEntry(e) ELSE StillEntry(e))'
    BY <1>0, <2>1, <2>4 DEF LeaseInv, PreviewEntry
  <2>7. (worker.pc \in Carrying =>
           /\ PreviewEntry(worker.entry)
           /\ \A e \in device : IsPreview(e.frame) => e.id # worker.entry.id)'
    BY <1>0, <2>1 DEF LeaseInv, PreviewEntry
  <2> QED BY <1>0, <2>1, <2>5, <2>6, <2>7 DEF LeaseInv
<1>4. CASE WorkerStep
  <2>1. UNCHANGED <<options, captures, previews, cli, open>>
    BY <1>4, WorkerFrame
  <2>2. \A e : (StillEntry(e)' <=> StillEntry(e)) /\ (PreviewEntry(e)' <=> PreviewEntry(e))
    BY <2>1 DEF StillEntry, PreviewEntry
  <2>3. /\ \A f, g \in DOMAIN captures' : captures'[f] = captures'[g] => f = g
        /\ \A f \in DOMAIN captures', id \in DOMAIN previews' : captures'[f] # previews'[id]
        /\ ~options'.v4l2 => DOMAIN captures' = {}
        /\ (cli.pc \in Busy => StillEntry(cli.entry))'
    BY <1>0, <2>1, <2>2 DEF LeaseInv, StillEntry
  <2>4. CASE SubmitRequest
    <3>1. PICK e : e = tasks[1]
      OBVIOUS
    <3>2. /\ 1 \in DOMAIN tasks
          /\ \A k \in DOMAIN tasks' : \E j \in DOMAIN tasks : tasks'[k] = tasks[j]
          /\ device' = device \/ device' = device \cup {e}
          /\ worker'.pc \notin Carrying
      BY <1>0, <2>4, <3>1, SubmitEffect DEF Carrying
    <3>3. StillEntry(e) /\ ~IsPreview(e.frame)
      BY <1>0, <3>1, <3>2, FrameKinds DEF LeaseInv, NumberInv
    <3> QED BY <1>0, <2>2, <2>3, <3>2, <3>3 DEF LeaseInv
  <2>5. CASE RequeuePreview
    <3>1. PICK x : x = Entry(nextPreview, worker.entry.id, worker.entry.buffer)
      OBVIOUS
    <3>2. /\ worker.pc = "requeue" /\ worker'.pc = "idle" /\ x.frame = nextPreview
          /\ x.id = worker.entry.id /\ x.buffer = worker.entry.buffer
          /\ device' = device \/ device' = device \cup {x}
          /\ tasks' = tasks
      BY <1>0, <2>5, <3>1, RequeueEffect, RecordTypes DEF RequeuePreview
    <3>3. IsPreview(x.frame) /\ PreviewEntry(x) /\ \A e \in device : IsPreview(e.frame) => e.id # x.id
      BY <1>0, <3>2, PlaceNumbers DEF LeaseInv, Carrying, PreviewEntry
    <3> QED BY <1>0, <2>2, <2>3, <3>2, <3>3 DEF LeaseInv, Carrying
  <2>6. CASE ~SubmitRequest /\ ~RequeuePreview
    <3>1. UNCHANGED <<tasks, device>>
      BY <1>4, <2>6, WorkerFrame
    <3>2. worker'.pc \in Carrying => worker.pc \in Carrying /\ worker'.entry = worker.entry
      BY <1>0, <1>4, CarryingMoves
    <3> QED BY <1>0, <2>2, <2>3, <3>1, <3>2 DEF LeaseInv, PreviewEntry
  <2> QED BY <2>4, <2>5, <2>6
<1>5. ASSUME NEW e \in device, DequeueCompletion(e) PROVE LeaseInv'
  <2>1. UNCHANGED <<options, captures, previews, tasks, cli, open>> /\ device' = device \ {e}
    BY <1>5 DEF DequeueCompletion
  <2>2. worker'.entry = e /\ (worker'.pc \in Carrying => IsPreview(e.frame))
    BY <1>0, <1>5, DequeueEffect DEF Carrying
  <2> QED BY <1>0, <2>1, <2>2 DEF LeaseInv, StillEntry, PreviewEntry
<1>6. CASE (\E f : EncoderStep(f) \/ WriterStep(f)) \/ AtRest
  <2>1. UNCHANGED <<options, captures, previews, tasks, device, worker, cli, open>>
    BY <1>6 DEF EncoderStep, EncodeFrame, SignalRelease, WriterStep, TakePreview, WritePreview,
                SignalConsumer, AtRest
  <2> QED BY <1>0, <2>1 DEF LeaseInv, StillEntry, PreviewEntry
<1>7. QED
  BY <1>1, <1>2, <1>3, <1>4, <1>5, <1>6, Threads DEF CliStep, StillStep, ClosingStep

-----------------------------------------------------------------------------
(* Encoder threads and the images they make.                               *)

\* A step of an encoder thread: the image is stored, unless encoding fails, before
\* the release fence is signalled.
LEMMA EncoderEffect ==
  ASSUME Shape, NEW f, EncoderStep(f)
  PROVE  /\ UNCHANGED <<options, trackerVars, sessionVars, worker, previewVars, cli, historyVars>>
         /\ f \in DOMAIN jobs /\ DOMAIN jobs' = DOMAIN jobs
         /\ \A x \in DOMAIN jobs : /\ jobs'[x].id = jobs[x].id /\ jobs'[x].own = jobs[x].own
                                   /\ jobs'[x].buffer = jobs[x].buffer
                                   /\ x # f => jobs'[x] = jobs[x]
         /\ jobs[f].pc # "done" /\ jobs'[f].pc # "reading"
         /\ encoded \subseteq encoded'
         /\ jobs[f].pc = "reading" =>
              jobs'[f].failed \/ KeyOf(f, jobs[f].id) \in encoded'
         /\ jobs[f].pc # "reading" => (jobs'[f].failed <=> jobs[f].failed)
<1>0. jobs \in [DOMAIN jobs -> JobSet]
  BY DEF Shape
<1>1. CASE EncodeFrame(f)
  <2>1. /\ UNCHANGED <<options, trackerVars, sessionVars, worker, previewVars, cli, historyVars>>
        /\ f \in DOMAIN jobs /\ jobs[f].pc = "reading"
        /\ \/ jobs' = Encoded(jobs, f, TRUE) /\ encoded' = Put(encoded, f, jobs[f].id)
           \/ jobs' = Encoded(jobs, f, FALSE) /\ encoded' = encoded
    BY <1>1 DEF EncodeFrame, Reading
  <2>2. \A ok \in BOOLEAN :
          /\ DOMAIN Encoded(jobs, f, ok) = DOMAIN jobs
          /\ \A x \in DOMAIN jobs : /\ Encoded(jobs, f, ok)[x].id = jobs[x].id
                                    /\ Encoded(jobs, f, ok)[x].own = jobs[x].own
                                    /\ Encoded(jobs, f, ok)[x].buffer = jobs[x].buffer
                                    /\ x # f => Encoded(jobs, f, ok)[x] = jobs[x]
          /\ Encoded(jobs, f, ok)[f].pc = "signal" /\ Encoded(jobs, f, ok)[f].failed = ~ok
    BY <1>0, <2>1, JobTypes
  <2>3. /\ DOMAIN jobs' = DOMAIN jobs /\ jobs'[f].pc = "signal"
        /\ \A x \in DOMAIN jobs : /\ jobs'[x].id = jobs[x].id /\ jobs'[x].own = jobs[x].own
                                  /\ jobs'[x].buffer = jobs[x].buffer
                                  /\ x # f => jobs'[x] = jobs[x]
    BY <2>1, <2>2
  <2>4. CASE jobs' = Encoded(jobs, f, TRUE) /\ encoded' = Put(encoded, f, jobs[f].id)
    BY <2>1, <2>3, <2>4 DEF Put
  <2>5. CASE jobs' = Encoded(jobs, f, FALSE) /\ encoded' = encoded
    <3>1. jobs'[f].failed
      BY <2>2, <2>5
    <3> QED BY <2>1, <2>3, <2>5, <3>1
  <2> QED BY <2>1, <2>4, <2>5
<1>2. CASE SignalRelease(f)
  <2>1. /\ UNCHANGED <<options, trackerVars, sessionVars, worker, previewVars, cli, historyVars>>
        /\ f \in DOMAIN jobs /\ jobs[f].pc = "signal"
        /\ jobs' = SignalFence(jobs, f) /\ encoded' = encoded
    BY <1>2 DEF SignalRelease
  <2> QED BY <1>0, <2>1 DEF SignalFence, JobSet
<1> QED BY <1>1, <1>2 DEF EncoderStep

\* A completed output starts at most one encoder thread, for the entry the device
\* filled and the buffer its id resolves to.
LEMMA NewJob ==
  ASSUME Shape, NumberInv, PlaceInv, NEW e \in device, DequeueCompletion(e)
  PROVE  /\ e.frame \notin DOMAIN jobs
         /\ \/ jobs' = jobs
            \/ /\ DOMAIN jobs' = DOMAIN jobs \cup {e.frame}
               /\ \A f \in DOMAIN jobs : jobs'[f] = jobs[f]
               /\ jobs'[e.frame].id = e.id /\ jobs'[e.frame].own = e.buffer
               /\ jobs'[e.frame].buffer = ResolveBuffer(captures, previews, e.id)
               /\ jobs'[e.frame].pc = "reading" /\ ~jobs'[e.frame].failed
<1> DEFINE job == [id |-> e.id, buffer |-> ResolveBuffer(captures, previews, e.id),
                   own |-> e.buffer, pc |-> "reading", failed |-> FALSE]
<1>1. e.frame \notin DOMAIN jobs /\ (jobs' = jobs \/ jobs' = Emplace(jobs, e.frame, job))
  BY DequeueEffect
<1>2. CASE jobs' = Emplace(jobs, e.frame, job)
  <2>1. /\ job.id = e.id /\ job.own = e.buffer /\ job.pc = "reading" /\ ~job.failed
        /\ job.buffer = ResolveBuffer(captures, previews, e.id)
    OBVIOUS
  <2> HIDE DEF job
  <2>2. /\ DOMAIN jobs' = DOMAIN jobs \cup {e.frame} /\ jobs'[e.frame] = job
        /\ \A f \in DOMAIN jobs : jobs'[f] = jobs[f]
    BY <1>1, <1>2 DEF Emplace
  <2> QED BY <1>1, <2>1, <2>2
<1> QED BY <1>1, <1>2

\* Every step keeps what encoder threads read.
LEMMA JobNext ==
  ASSUME Inv, [Next]_vars
  PROVE  JobInv'
<1>0. /\ Shape /\ PhaseInv /\ NumberInv /\ PlaceInv /\ LeaseInv /\ JobInv
      /\ options \in Options /\ jobs \in [DOMAIN jobs -> JobSet]
  BY DEF Inv, Shape
<1>1. CASE Capture
  <2>1. UNCHANGED <<options, jobs, worker>> /\ cli.pc = "prompt"
    BY <1>1 DEF Capture
  <2>2. captures \in [DOMAIN captures -> Nat]
    BY <1>0 DEF Shape
  <2>3. \A f \in DOMAIN captures : f \in DOMAIN captures' /\ captures'[f] = captures[f]
    BY <1>0, <1>1, <2>2, CaptureEffect DEF Emplace
  <2> QED BY <1>0, <2>1, <2>3 DEF JobInv
<1>2. CASE StillStep
  <2>1. UNCHANGED <<options, jobs, worker>> /\ cli.pc \in Busy
    BY <1>0, <1>2, StillFrame
  <2>2. \A f \in DOMAIN jobs : f \in DOMAIN captures /\ jobs[f].pc = "reading" =>
          f \in DOMAIN captures' /\ captures'[f] = captures[f]
    BY <1>0, <1>2, StillLeases DEF PlaceInv, Signalled
  <2> QED BY <1>0, <2>1, <2>2 DEF JobInv, Busy
<1>3. CASE ClosingStep
  <2>1. /\ UNCHANGED <<options, jobs, worker>>
        /\ captures' = captures \/ ReleaseAll
        /\ cli.pc \in {"stop", "exit"} => cli'.pc = "exit"
    BY <1>0, <1>3, ClosingFrame DEF encoderVars
  <2>2. ReleaseAll => cli'.pc = "stop"
    BY RecordTypes DEF ReleaseAll, CliPcs
  <2> QED BY <1>0, <2>1, <2>2 DEF JobInv
<1>4. CASE WorkerStep
  <2>1. UNCHANGED <<options, captures, jobs, cli>>
    BY <1>4, WorkerFrame DEF trackerVars, encoderVars
  <2>2. worker'.pc \in Carrying => worker.pc \in Carrying /\ worker'.entry = worker.entry
    BY <1>0, <1>4, CarryingMoves
  <2> QED BY <1>0, <2>1, <2>2 DEF JobInv
<1>5. ASSUME NEW e \in device, DequeueCompletion(e) PROVE JobInv'
  <2>1. UNCHANGED <<options, captures, cli>> /\ worker'.entry = e
    BY <1>0, <1>5, DequeueEffect DEF DequeueCompletion, trackerVars
  <2>2. CASE jobs' = jobs
    <3>1. e.frame \notin DOMAIN jobs
      BY <1>0, <1>5, DequeueEffect
    <3> QED BY <1>0, <2>1, <2>2, <3>1 DEF JobInv
  <2>3. CASE jobs' # jobs
    <3>1. /\ DOMAIN jobs' = DOMAIN jobs \cup {e.frame} /\ e.frame \notin DOMAIN jobs
          /\ \A f \in DOMAIN jobs : jobs'[f] = jobs[f]
          /\ jobs'[e.frame].id = e.id /\ jobs'[e.frame].own = e.buffer /\ ~jobs'[e.frame].failed
      BY <1>0, <1>5, <2>3, NewJob
    <3>2. IF IsPreview(e.frame) THEN PreviewEntry(e) ELSE StillEntry(e)
      BY <1>0, <1>5 DEF LeaseInv
    <3>3. open
      BY <1>5 DEF DequeueCompletion
    <3> QED BY <1>0, <2>1, <3>1, <3>2, <3>3 DEF JobInv, PreviewEntry, StillEntry
  <2> QED BY <2>2, <2>3
<1>6. ASSUME NEW x, EncoderStep(x) PROVE JobInv'
  <2>1. /\ UNCHANGED <<options, captures, worker, cli>>
        /\ x \in DOMAIN jobs /\ DOMAIN jobs' = DOMAIN jobs /\ jobs'[x].pc # "reading"
        /\ \A f \in DOMAIN jobs : /\ jobs'[f].id = jobs[f].id /\ jobs'[f].own = jobs[f].own
                                  /\ f # x => jobs'[f] = jobs[f]
    BY <1>0, <1>6, EncoderEffect DEF trackerVars
  <2> QED BY <1>0, <2>1 DEF JobInv
<1>7. CASE (\E f : WriterStep(f)) \/ AtRest
  <2>1. UNCHANGED <<options, captures, worker, cli, jobs>>
    BY <1>7 DEF WriterStep, TakePreview, WritePreview, SignalConsumer, AtRest, trackerVars, encoderVars
  <2> QED BY <1>0, <2>1 DEF JobInv
<1>8. QED
  BY <1>1, <1>2, <1>3, <1>4, <1>5, <1>6, <1>7, Threads DEF CliStep, StillStep, ClosingStep

\* A step of a thread that saves a preview frame.
LEMMA WriterEffect ==
  ASSUME Shape, NEW f, WriterStep(f)
  PROVE  /\ UNCHANGED <<options, trackerVars, jobs, sessionVars, worker, cli>>
         /\ f \in DOMAIN writers /\ DOMAIN writers' = DOMAIN writers
         /\ \A x \in DOMAIN writers : /\ writers'[x].id = writers[x].id
                                      /\ x # f => writers'[x] = writers[x]
         /\ encoded' = encoded \/ encoded' = Take(encoded, f, writers[f].id)
         /\ \/ writers[f].pc = "take" /\ writers'[f].pc = "fence" /\ encoded' = encoded
            \/ writers[f].pc = "fence" /\ writers'[f].pc = "signal" /\ Signalled(jobs, f)
            \/ writers[f].pc = "signal" /\ writers'[f].pc = "done" /\ encoded' = encoded
<1>0. writers \in [DOMAIN writers -> WriterSet]
  BY DEF Shape
<1>1. \A pc \in {"take", "fence", "signal", "done"} : f \in DOMAIN writers /\ WriterAt(f, pc) =>
        /\ DOMAIN writers' = DOMAIN writers /\ writers'[f].pc = pc
        /\ \A x \in DOMAIN writers : /\ writers'[x].id = writers[x].id
                                     /\ x # f => writers'[x] = writers[x]
  BY <1>0, WriterTypes
<1>2. CASE TakePreview(f)
  BY <1>1, <1>2 DEF TakePreview, encoderVars
<1>3. CASE WritePreview(f)
  <2>1. /\ UNCHANGED <<options, trackerVars, jobs, sessionVars, worker, cli>>
        /\ f \in DOMAIN writers /\ writers[f].pc = "fence" /\ Signalled(jobs, f)
        /\ WriterAt(f, "signal")
        /\ encoded' = encoded \/ encoded' = Take(encoded, f, writers[f].id)
    BY <1>3 DEF WritePreview
  <2> QED BY <1>1, <2>1
<1>4. CASE SignalConsumer(f)
  BY <1>1, <1>4 DEF SignalConsumer, encoderVars
<1> QED BY <1>2, <1>3, <1>4 DEF WriterStep

\* An image waits until it is taken under its own key.
LEMMA UntakenStays ==
  ASSUME NEW f, NEW id, Untaken(f, id)
  PROVE  /\ jobs' = jobs /\ encoded' = encoded => Untaken(f, id)'
         /\ \A x, y :
              x # f /\ jobs' = jobs /\ (encoded' = Take(encoded, x, y) \/ encoded' = encoded) =>
                Untaken(f, id)'
         /\ \A x : Shape /\ EncoderStep(x) => Untaken(f, id)'
<1>1. jobs' = jobs /\ encoded' = encoded => Untaken(f, id)'
  BY DEF Untaken
<1>2. ASSUME NEW x, NEW y, jobs' = jobs, x # f, encoded' = Take(encoded, x, y) \/ encoded' = encoded
      PROVE  Untaken(f, id)'
  <2>1. KeyOf(f, id) # KeyOf(x, y)
    BY <1>2 DEF KeyOf
  <2>2. KeyOf(f, id) \in encoded => KeyOf(f, id) \in encoded'
    BY <1>2, <2>1 DEF Take
  <2> QED BY <1>2, <2>2 DEF Untaken
<1>3. ASSUME NEW x, Shape, EncoderStep(x)
      PROVE  Untaken(f, id)'
  <2>1. CASE x = f
    BY <1>3, <2>1, EncoderEffect DEF Untaken
  <2>2. CASE x # f
    BY <1>3, <2>2, EncoderEffect DEF Untaken
  <2> QED BY <2>1, <2>2
<1> QED BY <1>1, <1>2, <1>3

\* Every step keeps images for whoever is to write them.
LEMMA ImageNext ==
  ASSUME Inv, [Next]_vars
  PROVE  ImageInv'
<1>0. /\ Shape /\ PhaseInv /\ NumberInv /\ PlaceInv /\ LeaseInv /\ ImageInv
      /\ options \in Options /\ cli.entry \in EntrySet /\ writers \in [DOMAIN writers -> WriterSet]
  BY MoveOn DEF Inv, Shape
<1>a. /\ cli.pc \in Busy => cli.entry.frame \notin DOMAIN writers
      /\ cli.pc \in Busy /\ worker.pc = "callback" => cli.entry.frame # worker.entry.frame
      /\ worker.pc = "callback" => worker.entry.frame \notin DOMAIN writers
  BY <1>0, FrameKinds DEF NumberInv, PlaceInv, Carrying
<1>b. open /\ worker.pc \in {"idle", "result", "callback"} =>
        \A f \in DOMAIN writers : writers[f].pc = "done"
  BY <1>0 DEF ImageInv, Carrying
<1>1. CASE Capture
  <2>1. UNCHANGED <<options, jobs, encoded, worker, writers, open>> /\ cli.pc = "prompt"
    BY <1>1 DEF Capture, encoderVars, sessionVars, previewVars
  <2>2. cli'.pc \in Busy => cli'.entry.frame = nextFrame /\ nextFrame \notin DOMAIN jobs
    BY <1>0, <1>1, <2>1, CaptureEffect DEF NumberInv, Busy
  <2> QED BY <1>0, <2>1, <2>2 DEF ImageInv, Untaken, Signalled
<1>2. CASE StillStep
  <2>1. UNCHANGED <<options, jobs, worker, writers, open>> /\ cli.pc \in Busy
    BY <1>0, <1>2, StillFrame
  <2>2. /\ cli'.pc \in Busy => cli'.entry = cli.entry /\ encoded' = encoded
        /\ encoded' = encoded \/ encoded' = Take(encoded, cli.entry.frame, cli.entry.id)
    <3>1. CASE WriteStill
      <4>1. encoded' = encoded \/ encoded' = Take(encoded, cli.entry.frame, cli.entry.id)
        BY <3>1 DEF WriteStill
      <4> QED BY <1>0, <3>1, <4>1, CliMoves DEF Busy
    <3>2. CASE ~WriteStill
      <4>1. encoded' = encoded
        BY <1>2, <3>2 DEF StillStep, ProcessCaptureRequest, ResultReady, ResultTimeout, encoderVars
      <4>2. cli'.pc \in Busy => cli'.entry = cli.entry
        BY <1>0, <1>2, <3>2, CliMoves DEF StillStep, Busy
      <4> QED BY <4>1, <4>2
    <3> QED BY <3>1, <3>2
  <2>3. \A f, id : f # cli.entry.frame /\ Untaken(f, id) => Untaken(f, id)'
    BY <2>1, <2>2, UntakenStays
  <2>4. (cli.pc \in Busy => Untaken(cli.entry.frame, cli.entry.id))'
    BY <1>0, <2>1, <2>2 DEF ImageInv, Untaken
  <2>5. (worker.pc = "callback" => Untaken(worker.entry.frame, worker.entry.id))'
    BY <1>0, <1>a, <2>1, <2>3 DEF ImageInv
  <2>6. \A f \in DOMAIN writers : writers[f].pc \in {"take", "fence"} =>
          Untaken(f, writers[f].id) /\ f # cli.entry.frame
    BY <1>0, <1>a, <2>1 DEF ImageInv
  <2>7. \A f \in DOMAIN writers' : writers'[f].pc \in {"take", "fence"} => Untaken(f, writers[f].id)'
    BY <2>1, <2>3, <2>6
  <2> QED BY <1>0, <2>1, <2>4, <2>5, <2>7 DEF ImageInv, Signalled
<1>3. CASE ClosingStep
  <2>1. UNCHANGED <<options, jobs, encoded, worker, writers>> /\ cli'.pc \notin Busy
    BY <1>0, <1>3, ClosingFrame DEF Asking, encoderVars
  <2>2. open' => open
    BY <1>0, <1>3, ClosingFrame, Zenon
  <2> QED BY <1>0, <2>1, <2>2 DEF ImageInv, Untaken, Signalled
<1>4. CASE WorkerStep
  <2>1. UNCHANGED <<options, jobs, encoded, cli, open>>
    BY <1>4, WorkerFrame DEF encoderVars
  <2>2. /\ \A f, id : Untaken(f, id) => Untaken(f, id)'
        /\ \A f : Signalled(jobs, f) => Signalled(jobs', f)
        /\ (cli.pc \in Busy => Untaken(cli.entry.frame, cli.entry.id))'
    BY <1>0, <2>1 DEF ImageInv, Untaken, Signalled
  <2>3. worker'.pc # "callback"
    <3>1. CASE SubmitRequest
      BY <1>0, <3>1, SubmitEffect
    <3>2. CASE ~SubmitRequest
      BY <1>0, <1>4, <3>2, WorkerMoves, RecordTypes
    <3> QED BY <3>1, <3>2
  <2>4. CASE writers' = writers
    <3>1. \A f \in DOMAIN writers : open /\ writers[f].pc # "done" =>
            worker'.entry.frame = f /\ worker'.pc \in Carrying \ {"callback"}
      <4>1. CASE SubmitRequest \/ RegisterResult \/ StreamResultCallback
        <5>1. worker.pc \in {"idle", "result", "callback"}
          BY <4>1 DEF SubmitRequest, RegisterResult, StreamResultCallback
        <5> QED BY <1>b, <5>1
      <4>2. CASE PushWorker \/ InlineWritten
        <5>1. worker.pc \in {"push", "inline"}
          BY <4>2 DEF PushWorker, InlineWritten
        <5>2. worker'.entry = worker.entry /\ worker'.pc = "return"
          <6>1. worker' = [worker EXCEPT !.pc = "return"]
            BY <4>2 DEF PushWorker, InlineWritten
          <6> QED BY <1>0, <6>1, MoveOn DEF Shape, WorkerPcs
        <5> QED BY <1>0, <5>2 DEF ImageInv, Carrying
      <4>3. CASE ReturnStreamBuffer
        <5>1. CASE open
          <6>1. worker' = [worker EXCEPT !.pc = "requeue"]
            BY <4>3, <5>1 DEF ReturnStreamBuffer
          <6>2. worker'.entry = worker.entry /\ worker'.pc = "requeue"
            BY <1>0, <6>1, MoveOn DEF Shape, WorkerPcs
          <6> QED BY <1>0, <6>2 DEF ImageInv, Carrying
        <5> QED BY <5>1
      <4>4. CASE RequeuePreview
        BY <1>0, <4>4, RequeueEffect DEF ImageInv
      <4> QED BY <1>4, <4>1, <4>2, <4>3, <4>4 DEF WorkerStep
    <3>2. \A f \in DOMAIN writers :
            /\ options.preview /\ writers[f].id \in 0..(BufferCount - 1)
            /\ writers[f].pc \in {"take", "fence"} => Untaken(f, writers[f].id)
            /\ writers[f].pc \in {"signal", "done"} => Signalled(jobs, f)
      BY <1>0 DEF ImageInv
    <3>3. \A f \in DOMAIN writers' : writers'[f].pc \in {"take", "fence"} => Untaken(f, writers[f].id)'
      BY <2>2, <2>4, <3>2
    <3> QED BY <2>1, <2>2, <2>3, <2>4, <3>1, <3>2, <3>3 DEF ImageInv, Signalled
  <2>5. CASE writers' # writers
    <3>1. StreamResultCallback
      BY <1>4, <2>5 DEF WorkerStep, SubmitRequest, RegisterResult, PushWorker, InlineWritten,
                        ReturnStreamBuffer, RequeuePreview, previewVars
    <3>2. PICK g, i : g = worker.entry.frame /\ i = worker.entry.id
      OBVIOUS
    <3>3. /\ worker.pc = "callback" /\ worker'.entry.frame = g
          /\ worker'.pc \in Carrying \ {"callback"}
          /\ writers' = Emplace(writers, g, [pc |-> "take", id |-> i])
      BY <1>0, <2>5, <3>1, <3>2, CallbackEffect DEF Carrying
    <3>4. /\ DOMAIN writers' = DOMAIN writers \cup {g} /\ g \notin DOMAIN writers
          /\ \A f \in DOMAIN writers : writers'[f] = writers[f]
          /\ writers'[g].pc = "take" /\ writers'[g].id = i
      BY <1>a, <3>2, <3>3 DEF Emplace
    <3>5. options.preview /\ i \in 0..(BufferCount - 1) /\ Untaken(g, i)
      BY <1>0, <3>2, <3>3 DEF LeaseInv, PreviewEntry, Carrying, ImageInv
    <3>6. Untaken(g, writers[g].id)'
      BY <2>1, <3>4, <3>5 DEF Untaken
    <3>7. \A f \in DOMAIN writers' : writers'[f].pc \in {"take", "fence"} => Untaken(f, writers[f].id)'
      <4>1. \A f \in DOMAIN writers : writers[f].pc \in {"take", "fence"} => Untaken(f, writers[f].id)
        BY <1>0 DEF ImageInv
      <4>2. ASSUME NEW f \in DOMAIN writers, writers[f].pc \in {"take", "fence"}
            PROVE  Untaken(f, writers[f].id)'
        BY <2>1, <3>4, <4>1, <4>2 DEF Untaken
      <4> QED BY <3>4, <3>6, <4>2
    <3>8. \A f \in DOMAIN writers' : /\ options'.preview /\ writers'[f].id \in 0..(BufferCount - 1)
                                     /\ writers'[f].pc \in {"signal", "done"} => Signalled(jobs', f)
      BY <1>0, <2>1, <2>2, <3>4, <3>5 DEF ImageInv
    <3>9. \A f \in DOMAIN writers' : open' /\ writers'[f].pc # "done" =>
            worker'.entry.frame = f /\ worker'.pc \in Carrying \ {"callback"}
      BY <1>b, <2>1, <3>3, <3>4
    <3> QED BY <2>2, <2>3, <3>7, <3>8, <3>9 DEF ImageInv
  <2> QED BY <2>4, <2>5
<1>5. ASSUME NEW e \in device, DequeueCompletion(e) PROVE ImageInv'
  <2>1. /\ UNCHANGED <<options, encoded, cli, writers, open>> /\ open /\ worker.pc = "idle"
        /\ e.frame \notin DOMAIN writers
    BY <1>0, <1>5 DEF DequeueCompletion, previewVars, PlaceInv
  <2>2. worker'.entry = e /\ (worker'.pc = "callback" <=> IsPreview(e.frame))
    BY <1>0, <1>5, DequeueEffect
  <2>3. /\ e.frame \notin DOMAIN jobs
        /\ \/ jobs' = jobs
           \/ /\ DOMAIN jobs' = DOMAIN jobs \cup {e.frame}
              /\ \A f \in DOMAIN jobs : jobs'[f] = jobs[f]
              /\ jobs'[e.frame].id = e.id /\ jobs'[e.frame].pc = "reading"
    BY <1>0, <1>5, NewJob
  <2>4. Untaken(worker.entry.frame, worker.entry.id)'
    BY <2>2, <2>3 DEF Untaken
  <2>5. cli.pc \in Busy => Untaken(cli.entry.frame, cli.entry.id)'
    <3>1. CASE cli.pc \in Busy /\ cli.entry.frame = e.frame
      <4>1. ~IsPreview(e.frame) /\ StillEntry(e) /\ StillEntry(cli.entry)
        BY <1>0, <1>5, <3>1, FrameKinds DEF NumberInv, LeaseInv
      <4>2. e.id = cli.entry.id
        BY <3>1, <4>1 DEF StillEntry
      <4> QED BY <2>1, <2>3, <3>1, <4>2 DEF Untaken
    <3>2. CASE cli.pc \in Busy /\ cli.entry.frame # e.frame
      BY <1>0, <2>1, <2>3, <3>2 DEF ImageInv, Untaken
    <3> QED BY <3>1, <3>2
  <2>6. \A f \in DOMAIN writers : /\ options.preview /\ writers[f].id \in 0..(BufferCount - 1)
                                  /\ writers[f].pc = "done" /\ Signalled(jobs', f)
    BY <1>0, <1>b, <2>1, <2>3 DEF ImageInv, Signalled
  <2> QED BY <2>1, <2>4, <2>5, <2>6 DEF ImageInv
<1>6. ASSUME NEW x, EncoderStep(x) PROVE ImageInv'
  <2>1. UNCHANGED <<options, worker, cli, writers, open>>
    BY <1>0, <1>6, EncoderEffect DEF previewVars, sessionVars
  <2>2. \A f, id : Untaken(f, id) => Untaken(f, id)'
    BY <1>0, <1>6, UntakenStays
  <2>3. \A f : Signalled(jobs, f) => Signalled(jobs', f)
    BY <1>0, <1>6, EncoderEffect DEF Signalled
  <2>4. /\ (cli.pc \in Busy => Untaken(cli.entry.frame, cli.entry.id))'
        /\ (worker.pc = "callback" => Untaken(worker.entry.frame, worker.entry.id))'
    <3>1. PICK f, i, g, j : /\ f = cli.entry.frame /\ i = cli.entry.id
                            /\ g = worker.entry.frame /\ j = worker.entry.id
      OBVIOUS
    <3>2. /\ cli.pc \in Busy => Untaken(f, i)'
          /\ worker.pc = "callback" => Untaken(g, j)'
      BY <1>0, <2>2, <3>1 DEF ImageInv
    <3> QED BY <2>1, <3>1, <3>2
  <2>5. \A f \in DOMAIN writers' : writers'[f].pc \in {"take", "fence"} => Untaken(f, writers[f].id)'
    <3>1. ASSUME NEW f \in DOMAIN writers, writers[f].pc \in {"take", "fence"}
          PROVE  Untaken(f, writers[f].id)'
      <4>1. PICK i : i = writers[f].id
        OBVIOUS
      <4>2. Untaken(f, i)'
        BY <1>0, <2>2, <3>1, <4>1 DEF ImageInv
      <4> QED BY <2>1, <4>1, <4>2
    <3> QED BY <2>1, <3>1
  <2> QED BY <1>0, <2>1, <2>3, <2>4, <2>5 DEF ImageInv
<1>7. ASSUME NEW x, WriterStep(x) PROVE ImageInv'
  <2>1. /\ UNCHANGED <<options, jobs, worker, cli, open>>
        /\ x \in DOMAIN writers /\ DOMAIN writers' = DOMAIN writers
        /\ \A f \in DOMAIN writers : /\ writers'[f].id = writers[f].id
                                     /\ f # x => writers'[f] = writers[f]
        /\ encoded' = encoded \/ encoded' = Take(encoded, x, writers[x].id)
        /\ \/ writers[x].pc = "take" /\ writers'[x].pc = "fence" /\ encoded' = encoded
           \/ writers[x].pc = "fence" /\ writers'[x].pc = "signal" /\ Signalled(jobs, x)
           \/ writers[x].pc = "signal" /\ writers'[x].pc = "done" /\ encoded' = encoded
    BY <1>0, <1>7, WriterEffect DEF sessionVars
  <2>2. \A f, id : f # x /\ Untaken(f, id) => Untaken(f, id)'
    BY <2>1, UntakenStays
  <2>3. encoded' = encoded => \A f, id : Untaken(f, id) => Untaken(f, id)'
    BY <2>1, UntakenStays
  <2>4. /\ (cli.pc \in Busy => Untaken(cli.entry.frame, cli.entry.id))'
        /\ (worker.pc = "callback" => Untaken(worker.entry.frame, worker.entry.id))'
    <3>1. PICK f, i, g, j : /\ f = cli.entry.frame /\ i = cli.entry.id
                            /\ g = worker.entry.frame /\ j = worker.entry.id
      OBVIOUS
    <3>2. (cli.pc \in Busy => f # x) /\ (worker.pc = "callback" => g # x)
      BY <1>a, <2>1, <3>1
    <3>3. /\ cli.pc \in Busy => Untaken(f, i)'
          /\ worker.pc = "callback" => Untaken(g, j)'
      BY <1>0, <2>2, <3>1, <3>2 DEF ImageInv
    <3> QED BY <2>1, <3>1, <3>3
  <2>5. \A f \in DOMAIN writers' : writers'[f].pc \in {"take", "fence"} => Untaken(f, writers[f].id)'
    <3>1. ASSUME NEW f \in DOMAIN writers, writers'[f].pc \in {"take", "fence"}
          PROVE  Untaken(f, writers[f].id)'
      <4>1. PICK i : i = writers[f].id
        OBVIOUS
      <4>2. Untaken(f, i) /\ (f = x => encoded' = encoded)
        BY <1>0, <2>1, <3>1, <4>1 DEF ImageInv
      <4>3. Untaken(f, i)'
        BY <2>2, <2>3, <4>2
      <4> QED BY <2>1, <4>1, <4>3
    <3> QED BY <2>1, <3>1
  <2>6. \A f \in DOMAIN writers' :
          /\ options'.preview /\ writers'[f].id \in 0..(BufferCount - 1)
          /\ writers'[f].pc \in {"signal", "done"} => Signalled(jobs', f)
          /\ open' /\ writers'[f].pc # "done" =>
               worker'.entry.frame = f /\ worker'.pc \in Carrying \ {"callback"}
    BY <1>0, <2>1 DEF ImageInv
  <2> QED BY <2>4, <2>5, <2>6 DEF ImageInv
<1>8. CASE AtRest
  BY <1>0, <1>8 DEF AtRest, ImageInv, Untaken, Signalled
<1>9. QED
  BY <1>1, <1>2, <1>3, <1>4, <1>5, <1>6, <1>7, <1>8, Threads DEF CliStep, StillStep, ClosingStep

\* Which buffer the id of a completed output resolves to.
LEMMA ResolvesOwn ==
  ASSUME Shape, PhaseInv, LeaseInv, open, NEW e \in device, ~IsPreview(e.frame) \/ SavesPreview(options)
  PROVE  ResolveBuffer(captures, previews, e.id) = e.buffer
<1>0. /\ NoBuffer \notin Nat /\ captures \in [DOMAIN captures -> Nat]
      /\ options.preview => options.v4l2
  BY OptionTypes DEF Shape
<1>1. previews = PreviewBuffers
  BY DEF PhaseInv, BeforeClose, Asking, Busy
<1>2. CASE ~IsPreview(e.frame) /\ options.v4l2
  <2>1. e.id = e.frame /\ e.frame \in DOMAIN captures /\ captures[e.frame] = e.buffer
    BY <1>2 DEF LeaseInv, StillEntry
  <2> QED BY <1>0, <2>1 DEF ResolveBuffer, Resolve
<1>3. CASE ~IsPreview(e.frame) /\ ~options.v4l2
  <2>1. DOMAIN captures = {} /\ DOMAIN previews = {} /\ e.buffer = NoBuffer
    BY <1>0, <1>1, <1>3, PreviewDomain DEF LeaseInv, StillEntry
  <2> QED BY <2>1 DEF ResolveBuffer, Resolve
<1>4. CASE IsPreview(e.frame) /\ SavesPreview(options)
  <2>1. DOMAIN captures = {} /\ options.preview /\ e.id \in 0..(BufferCount - 1) /\ e.buffer = e.id + 1
    BY <1>4 DEF PhaseInv, LeaseInv, PreviewEntry
  <2>2. e.id \in DOMAIN previews /\ previews[e.id] = e.buffer
    BY <1>1, <2>1, PreviewDomain
  <2> QED BY <2>1, <2>2 DEF ResolveBuffer, Resolve
<1> QED BY <1>2, <1>3, <1>4

\* Every step leaves jobs as they are, or is one of an encoder or a completed output.
LEMMA JobsFrame ==
  ASSUME Shape, [Next]_vars
  PROVE  /\ options' = options
         /\ \/ jobs' = jobs
            \/ \E e \in device : DequeueCompletion(e)
            \/ \E f : EncoderStep(f)
<1>1. CASE Quit \/ CliStep
  BY <1>1, CliFrame
<1>2. CASE WorkerStep
  BY <1>2, WorkerFrame DEF encoderVars
<1>3. CASE Capture
  BY <1>3 DEF Capture, encoderVars
<1>4. CASE \E e \in device : DequeueCompletion(e)
  BY <1>4 DEF DequeueCompletion
<1>5. ASSUME NEW f, EncoderStep(f) PROVE options' = options
  BY <1>5, EncoderEffect
<1>6. ASSUME NEW f, WriterStep(f) PROVE options' = options /\ jobs' = jobs
  BY <1>6, WriterEffect
<1>7. CASE AtRest
  BY <1>7 DEF AtRest
<1> QED BY <1>1, <1>2, <1>3, <1>4, <1>5, <1>6, <1>7, Threads

\* Every step keeps images to their own buffers.
LEMMA OwnBufferNext ==
  ASSUME Inv, [Next]_vars
  PROVE  EncodesOwnBuffer'
<1>0. /\ Shape /\ PhaseInv /\ NumberInv /\ PlaceInv /\ LeaseInv /\ EncodesOwnBuffer
      /\ options' = options
  BY JobsFrame DEF Inv
<1>1. CASE jobs' = jobs
  BY <1>0, <1>1 DEF EncodesOwnBuffer
<1>2. ASSUME NEW e \in device, DequeueCompletion(e) PROVE EncodesOwnBuffer'
  <2>1. open
    BY <1>2 DEF DequeueCompletion
  <2>2. \/ jobs' = jobs
        \/ /\ DOMAIN jobs' = DOMAIN jobs \cup {e.frame}
           /\ \A f \in DOMAIN jobs : jobs'[f] = jobs[f]
           /\ jobs'[e.frame].own = e.buffer
           /\ jobs'[e.frame].buffer = ResolveBuffer(captures, previews, e.id)
    BY <1>0, <1>2, NewJob
  <2>3. ResolveBuffer(captures, previews, e.id) = e.buffer \/ (IsPreview(e.frame) /\ ~SavesPreview(options))
    BY <1>0, <1>2, <2>1, ResolvesOwn
  <2> QED BY <1>0, <2>2, <2>3 DEF EncodesOwnBuffer, SavesPreview
<1>3. ASSUME NEW x, EncoderStep(x) PROVE EncodesOwnBuffer'
  <2>1. /\ DOMAIN jobs' = DOMAIN jobs
        /\ \A f \in DOMAIN jobs : jobs'[f].own = jobs[f].own /\ jobs'[f].buffer = jobs[f].buffer
    BY <1>0, <1>3, EncoderEffect
  <2> QED BY <1>0, <2>1 DEF EncodesOwnBuffer, SavesPreview
<1> QED BY <1>0, <1>1, <1>2, <1>3, JobsFrame

\* A frame is only missing when there is no image for it, or its tracker is gone.
LEMMA NewlyMissing ==
  ASSUME Inv, [Next]_vars, NEW f \in missing', f \notin missing
  PROVE  /\ jobs' = jobs /\ previews' = previews
         /\ (f \in DOMAIN jobs => jobs[f].failed) \/ (IsPreview(f) /\ previews = NoBuffers)
<1>0. /\ Shape /\ PhaseInv /\ NumberInv /\ PlaceInv /\ LeaseInv /\ ImageInv
      /\ options \in Options /\ NoBuffer \notin Nat /\ captures \in [DOMAIN captures -> Nat]
      /\ jobs \in [DOMAIN jobs -> JobSet]
  BY OptionTypes DEF Inv, Shape
<1>1. CASE WriteStill
  <2>1. /\ f = cli.entry.frame /\ jobs' = jobs /\ previews' = previews /\ Signalled(jobs, f)
        /\ cli.pc = "fence"
        /\ ~WritesImage("ok", Resolve(captures, cli.entry.id) # NoBuffer \/ cli.entry.id = NoId,
                        encoded, KeyOf(f, cli.entry.id))
    BY <1>1 DEF WriteStill
  <2>2. Untaken(f, cli.entry.id)
    BY <1>0, <2>1 DEF ImageInv, Busy
  <2>3. Resolve(captures, cli.entry.id) # NoBuffer \/ cli.entry.id = NoId
    <3>1. open
      BY <1>0, <2>1 DEF PhaseInv, BeforeClose, Asking, Busy
    <3>2. CASE options.v4l2
      <4>1. cli.entry.id \in DOMAIN captures
        BY <1>0, <2>1, <3>1, <3>2 DEF LeaseInv, StillEntry, Busy
      <4> QED BY <1>0, <4>1 DEF Resolve
    <3>3. CASE ~options.v4l2
      BY <1>0, <2>1, <3>3 DEF LeaseInv, StillEntry, Busy
    <3> QED BY <3>2, <3>3
  <2>4. KeyOf(f, cli.entry.id) \notin encoded
    BY <2>1, <2>3 DEF WritesImage
  <2>5. f \in DOMAIN jobs => jobs[f].failed
    BY <2>1, <2>2, <2>4 DEF Untaken, Signalled
  <2> QED BY <2>1, <2>5
<1>2. ASSUME NEW x, WritePreview(x)
      PROVE  /\ jobs' = jobs /\ previews' = previews
             /\ (f \in DOMAIN jobs => jobs[f].failed) \/ (IsPreview(f) /\ previews = NoBuffers)
  <2>1. PICK i : i = writers[x].id
    OBVIOUS
  <2>2. /\ f = x /\ jobs' = jobs /\ previews' = previews /\ Signalled(jobs, f)
        /\ x \in DOMAIN writers /\ writers[x].pc = "fence"
        /\ ~WritesImage("ok", Resolve(previews, i) # NoBuffer, encoded, KeyOf(f, i))
    BY <1>2, <2>1 DEF WritePreview, trackerVars
  <2>3. Untaken(f, i) /\ options.preview /\ i \in 0..(BufferCount - 1)
    BY <1>0, <2>1, <2>2 DEF ImageInv
  <2>4. IsPreview(f)
    BY <1>0, <2>2, FrameKinds DEF NumberInv
  <2>5. previews = NoBuffers \/ Resolve(previews, i) # NoBuffer
    <3>1. CASE previews = PreviewBuffers
      <4>1. i \in DOMAIN previews /\ previews[i] = i + 1 /\ i + 1 \in Nat
        BY <2>3, <3>1, PreviewDomain
      <4> QED BY <1>0, <4>1 DEF Resolve
    <3> QED BY <1>0, <3>1 DEF Shape
  <2>6. previews # NoBuffers => KeyOf(f, i) \notin encoded
    BY <2>2, <2>5 DEF WritesImage
  <2>7. previews # NoBuffers => (f \in DOMAIN jobs => jobs[f].failed)
    BY <2>2, <2>3, <2>6 DEF Untaken, Signalled
  <2> QED BY <2>2, <2>4, <2>7
<1>3. ~Capture /\ ~Quit /\ ~WorkerStep /\ ~(\E e \in device : DequeueCompletion(e)) /\ ~AtRest
  BY WorkerFrame DEF Capture, Quit, DequeueCompletion, AtRest, historyVars
<1>4. ~\E x : EncoderStep(x)
  BY <1>0, EncoderEffect DEF historyVars
<1>5. CliStep => WriteStill
  BY <1>0, ClosingFrame DEF CliStep, ClosingStep, ProcessCaptureRequest, ResultReady, ResultTimeout,
                            historyVars
<1>6. \A x : WriterStep(x) => WritePreview(x)
  BY DEF WriterStep, TakePreview, SignalConsumer, historyVars
<1> QED BY <1>1, <1>2, <1>3, <1>4, <1>5, <1>6, Threads

\* Every step keeps what is said of missing frames.
LEMMA WrittenNext ==
  ASSUME Inv, [Next]_vars
  PROVE  ImageWritten'
<1>0. Shape /\ NumberInv /\ PlaceInv /\ JobInv /\ ImageWritten
  BY DEF Inv
<1>1. previews' = previews \/ previews' = NoBuffers
  <2>1. ASSUME NEW x, EncoderStep(x) PROVE previews' = previews
    BY <1>0, <2>1, EncoderEffect DEF trackerVars
  <2>2. ASSUME NEW x, WriterStep(x) PROVE previews' = previews
    BY <1>0, <2>2, WriterEffect DEF trackerVars
  <2>3. Capture \/ (\E e \in device : DequeueCompletion(e)) \/ AtRest \/ WorkerStep =>
          previews' = previews
    BY WorkerFrame DEF Capture, DequeueCompletion, AtRest, trackerVars
  <2> QED BY <2>1, <2>2, <2>3, CliFrame, Threads
<1>2. ASSUME NEW f \in missing' \ missing
      PROVE  (f \in DOMAIN jobs' => jobs'[f].failed) \/ (IsPreview(f) /\ previews' = NoBuffers)
  BY <1>2, NewlyMissing
<1>3. ASSUME NEW f \in missing
      PROVE  (f \in DOMAIN jobs' => jobs'[f].failed) \/ (IsPreview(f) /\ previews' = NoBuffers)
  <2>1. CASE IsPreview(f) /\ previews = NoBuffers
    BY <1>1, <2>1
  <2>2. CASE f \in DOMAIN jobs => jobs[f].failed
    <3>1. CASE jobs' = jobs
      BY <2>2, <3>1
    <3>2. ASSUME NEW e \in device, DequeueCompletion(e)
          PROVE  f \in DOMAIN jobs' => jobs'[f].failed
      <4>1. f # e.frame
        BY <1>0, <1>3, <3>2 DEF PlaceInv
      <4>2. \/ jobs' = jobs
            \/ /\ DOMAIN jobs' = DOMAIN jobs \cup {e.frame}
               /\ \A y \in DOMAIN jobs : jobs'[y] = jobs[y]
        BY <1>0, <3>2, NewJob
      <4> QED BY <2>2, <4>1, <4>2
    <3>3. ASSUME NEW x, EncoderStep(x)
          PROVE  f \in DOMAIN jobs' => jobs'[f].failed
      <4>1. f \in DOMAIN jobs => jobs[f].pc # "reading" /\ jobs[f].failed
        BY <1>0, <2>2 DEF JobInv
      <4>2. /\ DOMAIN jobs' = DOMAIN jobs
            /\ \A y \in DOMAIN jobs : y # x => jobs'[y] = jobs[y]
            /\ jobs[x].pc # "reading" => (jobs'[x].failed <=> jobs[x].failed)
        BY <1>0, <3>3, EncoderEffect
      <4> QED BY <4>1, <4>2
    <3> QED BY <1>0, <3>1, <3>2, <3>3, JobsFrame
  <2> QED BY <1>0, <2>1, <2>2 DEF ImageWritten
<1> QED BY <1>2, <1>3 DEF ImageWritten, IsPreview

-----------------------------------------------------------------------------
(* The invariant and what follows from it.                                 *)

\* main up to its first wait.
LEMMA InitShape ==
  ASSUME Init
  PROVE  /\ Shape /\ previews = PreviewBuffers
         /\ cli.pc \in {"preview", "prompt"} /\ cli.result = "none"
         /\ worker.pc = "idle" /\ worker.result = "none"
         /\ DOMAIN captures = {} /\ DOMAIN pending = {} /\ DOMAIN jobs = {} /\ DOMAIN writers = {}
         /\ DOMAIN tasks = {} /\ missing = {} /\ open
         /\ \A e \in device : /\ options.preview /\ e.id \in 0..(BufferCount - 1)
                              /\ e.frame = PreviewBase + e.id /\ e.buffer = e.id + 1
                              /\ e = Entry(e.frame, e.id, e.buffer) /\ e.frame < nextPreview
<1>1. /\ options \in Options /\ BufferCount \in Nat \ {0} /\ PreviewBase \in Nat
      /\ options.captures \in Nat
  BY OptionTypes DEF Init
<1>2. previews = PreviewBuffers
  BY DEF Init, PreviewBuffers
<1>3. nextPreview = PreviewBase + (IF options.preview THEN BufferCount ELSE 0)
  <2>1. CASE options.preview
    <3>1. DOMAIN previews = 0..(BufferCount - 1)
      BY <1>2, <2>1, PreviewDomain
    <3>2. Cardinality(0..(BufferCount - 1)) = BufferCount
      BY <1>1, FS_Interval
    <3> QED BY <2>1, <3>1, <3>2 DEF Init
  <2>2. CASE ~options.preview
    <3>1. DOMAIN previews = {}
      BY <1>2, <2>2, PreviewDomain
    <3> QED BY <2>2, <3>1, FS_EmptySet DEF Init
  <2> QED BY <2>1, <2>2
<1>4. ASSUME NEW e \in device
      PROVE  /\ options.preview /\ e.id \in 0..(BufferCount - 1) /\ e \in EntrySet
             /\ e.frame = PreviewBase + e.id /\ e.buffer = e.id + 1
             /\ e = Entry(e.frame, e.id, e.buffer)
  <2>1. PICK i \in DOMAIN previews : e = Entry(PreviewBase + i, i, previews[i])
    BY DEF Init
  <2>2. options.preview /\ i \in 0..(BufferCount - 1) /\ previews[i] = i + 1
    BY <1>2, <2>1, PreviewDomain
  <2>3. PreviewBase + i \in Nat /\ i \in Ids /\ previews[i] \in Buffers
    BY <1>1, <2>2 DEF Ids, Buffers
  <2>4. /\ e \in EntrySet /\ e.frame = PreviewBase + i /\ e.id = i /\ e.buffer = previews[i]
    BY <2>1, <2>3, RecordTypes
  <2> QED BY <2>1, <2>2, <2>4
<1>5. \A e \in device : e.frame < nextPreview
  BY <1>1, <1>3, <1>4
<1>6. /\ worker = IdleWorker /\ worker \in WorkerSet /\ worker.pc = "idle" /\ worker.result = "none"
  BY RecordTypes DEF Init
<1>7. cli \in CliSet /\ cli.pc \in {"preview", "prompt"} /\ cli.result = "none"
  <2>1. cli = CliAt("preview") \/ cli = CliAt("prompt")
    BY DEF Init
  <2> QED BY <2>1, RecordTypes DEF CliPcs
<1>8. /\ DOMAIN captures = {} /\ DOMAIN pending = {} /\ DOMAIN jobs = {} /\ DOMAIN writers = {}
      /\ captures \in [DOMAIN captures -> Nat] /\ pending \in [DOMAIN pending -> WriteSet]
      /\ jobs \in [DOMAIN jobs -> JobSet] /\ writers \in [DOMAIN writers -> WriterSet]
  BY DEF Init, NoBuffers, NothingPending, NoJobs
<1>9. tasks \in Seq(EntrySet) /\ DOMAIN tasks = {} /\ missing = {} /\ timedOut = {} /\ open
  BY DEF Init
<1>10. open \in BOOLEAN /\ lock = "free" /\ preview_workers = {} /\ written = 0 /\ nextFrame = 1
  BY DEF Init
<1>11. nextPreview \in Nat /\ nextPreview >= PreviewBase
  BY <1>1, <1>3
<1>12. device \in SUBSET EntrySet
  BY <1>4
<1>13. Shape
  BY <1>1, <1>2, <1>6, <1>7, <1>8, <1>9, <1>10, <1>11, <1>12 DEF Shape
<1> QED BY <1>2, <1>4, <1>5, <1>6, <1>7, <1>8, <1>9, <1>13

\* The invariant holds at first.
LEMMA InitInv ==
  Init => Inv
<1> SUFFICES ASSUME Init PROVE Inv
  OBVIOUS
<1>0. /\ options \in Options /\ PreviewBase \in Nat
  BY OptionTypes DEF Init
<1>a. \A e \in device : IsPreview(e.frame)
  BY <1>0, InitShape DEF IsPreview
<1>1. PhaseInv
  <2>1. cli.pc = (IF SavesPreview(options) THEN "preview" ELSE "prompt")
    BY RecordTypes DEF Init, CliPcs
  <2> QED BY <2>1, InitShape DEF PhaseInv, BeforeClose, Asking, Busy
<1>2. NumberInv
  BY <1>a, InitShape DEF NumberInv, Carrying, Busy
<1>3. PlaceInv
  <2>1. \A e, x \in device : e.frame = x.frame => e = x
    BY <1>0, InitShape
  <2> QED BY <2>1, InitShape DEF PlaceInv
<1>4. AccountInv
  <2>1. \A f \in Stills : ~InFlight(f)
    BY <1>a, InitShape DEF InFlight
  <2> QED BY <2>1, InitShape DEF AccountInv, Busy
<1>5. LeaseInv
  <2>1. \A e, x \in device : e.id = x.id => e = x
    BY InitShape
  <2> QED BY <1>a, <2>1, InitShape DEF LeaseInv, PreviewEntry, Carrying, Busy
<1>6. JobInv /\ ImageInv
  BY InitShape DEF JobInv, ImageInv, Busy
<1>7. EncodesOwnBuffer /\ ImageWritten
  BY InitShape DEF EncodesOwnBuffer, ImageWritten
<1>8. SaverInv
  <2>1. asleep \in BOOLEAN
    BY DEF Init
  <2> QED BY <2>1, InitShape DEF SaverInv
<1> QED BY <1>1, <1>2, <1>3, <1>4, <1>5, <1>6, <1>7, <1>8, InitShape DEF Inv

\* Every step starts threads only to save a preview frame.
LEMMA SaverNext ==
  ASSUME Inv, [Next]_vars
  PROVE  SaverInv'
<1>0. /\ Shape /\ NumberInv /\ PlaceInv /\ SaverInv
      /\ options' = options
  BY JobsFrame DEF Inv
<1>1. asleep' \in BOOLEAN
  <2>1. CASE Sleep \/ Wake
    BY <2>1 DEF Sleep, Wake
  <2>2. CASE Quit \/ CliStep
    BY <1>0, <2>2, CliFrame DEF SaverInv
  <2>3. CASE WorkerStep
    BY <1>0, <2>3, WorkerFrame DEF SaverInv
  <2>4. CASE Capture \/ (\E e \in device : DequeueCompletion(e)) \/ UNCHANGED vars
    BY <1>0, <2>4 DEF Capture, DequeueCompletion, vars, SaverInv
  <2>5. CASE \E f : EncoderStep(f) \/ WriterStep(f)
    BY <1>0, <2>5 DEF EncoderStep, EncodeFrame, SignalRelease, WriterStep, TakePreview,
                      WritePreview, SignalConsumer, SaverInv
  <2> QED BY <2>1, <2>2, <2>3, <2>4, <2>5 DEF Next
<1>2. DOMAIN writers' = DOMAIN writers \/ SavesPreview(options)
  <2>1. CASE Quit \/ CliStep
    BY <2>1, CliFrame
  <2>2. CASE WorkerStep
    <3>1. CASE writers' = writers
      BY <3>1
    <3>2. CASE StreamResultCallback /\ writers' # writers
      <4>1. options.out /\ written < options.count
        BY <3>2 DEF StreamResultCallback
      <4>2. written \in Nat /\ options.count \in Nat
        BY <1>0, OptionTypes DEF Shape
      <4>3. options.count > 0
        BY <4>1, <4>2
      <4> QED BY <4>1, <4>3 DEF SavesPreview
    <3> QED BY <2>2, <3>1, <3>2, WorkerFrame
  <2>3. CASE Capture \/ (\E e \in device : DequeueCompletion(e)) \/ AtRest
    BY <2>3 DEF Capture, DequeueCompletion, AtRest
  <2>4. CASE \E f : EncoderStep(f)
    BY <2>4 DEF EncoderStep, EncodeFrame, SignalRelease
  <2>5. CASE \E f : WriterStep(f)
    BY <1>0, <2>5, WriterEffect
  <2> QED BY <2>1, <2>2, <2>3, <2>4, <2>5, Threads
<1> QED BY <1>0, <1>1, <1>2 DEF SaverInv, SavesPreview

\* Every step keeps the invariant.
LEMMA InvNext ==
  Inv /\ [Next]_vars => Inv'
<1> SUFFICES ASSUME Inv, [Next]_vars PROVE Inv'
  OBVIOUS
<1>1. Shape'
  <2>1. Shape /\ NumberInv /\ PlaceInv
    BY DEF Inv
  <2>2. CASE AtRest
    BY <2>1, <2>2 DEF AtRest, Shape, PreviewBuffers
  <2> QED BY <2>1, <2>2, ShapeCapture, ShapeCli, ShapeWorker, ShapeThreads, Threads
<1> QED BY <1>1, PhaseNext, NumberNext, PlaceNext, AccountNext, LeaseNext, JobNext, ImageNext,
           SaverNext, OwnBufferNext, WrittenNext DEF Inv

\* The buffer that the device filled for an encoder thread that is awaited: leased,
\* and not the device's.
LEMMA ReadersBuffer ==
  ASSUME Inv, NEW f \in Reading(jobs), ~Unawaited(f)
  PROVE  /\ \A e \in device : e.buffer # jobs[f].own \/ jobs[f].own = NoBuffer
         /\ jobs[f].own \in Free => cli.pc \in {"stop", "exit"}
<1>0. /\ Shape /\ PhaseInv /\ NumberInv /\ PlaceInv /\ LeaseInv /\ JobInv /\ ImageInv
      /\ options.preview => options.v4l2
      /\ f \in DOMAIN jobs /\ jobs[f].pc = "reading"
  BY OptionTypes DEF Inv, Shape, Reading
<1>a. open => cli.pc \notin {"stop", "exit"} /\ previews = PreviewBuffers
  BY <1>0 DEF PhaseInv, BeforeClose, Asking, Busy
<1>b. \A e \in device : open
  BY <1>0 DEF PhaseInv
<1>c. \A e \in device : IsPreview(e.frame) => e.id \in DOMAIN previews /\ previews[e.id] = e.buffer
  BY <1>0, <1>a, <1>b, PreviewDomain DEF LeaseInv, PreviewEntry
<1>d. \A e \in device : ~IsPreview(e.frame) /\ options.v4l2 =>
        e.frame \in DOMAIN captures /\ captures[e.frame] = e.buffer
  BY <1>0, <1>b DEF LeaseInv, StillEntry
<1>1. CASE ~IsPreview(f) /\ ~options.v4l2
  <2>1. jobs[f].own = NoBuffer
    BY <1>0, <1>1 DEF JobInv
  <2>2. Free = {}
    BY <1>1 DEF Free, Pool
  <2> QED BY <2>1, <2>2
<1>2. CASE ~IsPreview(f) /\ options.v4l2
  <2>1. cli.pc \notin {"stop", "exit"} => f \in DOMAIN captures /\ captures[f] = jobs[f].own
    BY <1>0, <1>2 DEF JobInv
  <2>2. cli.pc \notin {"stop", "exit"} => jobs[f].own \notin Free
    BY <2>1 DEF Free, Leased
  <2>3. ASSUME NEW e \in device PROVE e.buffer # jobs[f].own
    <3>1. f \in DOMAIN captures /\ captures[f] = jobs[f].own
      BY <1>a, <1>b, <2>1
    <3>2. e.frame # f
      BY <1>0 DEF PlaceInv
    <3>3. CASE IsPreview(e.frame)
      BY <1>0, <1>c, <3>1, <3>3 DEF LeaseInv
    <3>4. CASE ~IsPreview(e.frame)
      <4>1. e.frame \in DOMAIN captures /\ captures[e.frame] = e.buffer
        BY <1>2, <1>d, <3>4
      <4>2. captures[e.frame] = captures[f] => e.frame = f
        BY <1>0, <3>1, <4>1 DEF LeaseInv
      <4> QED BY <3>1, <3>2, <4>1, <4>2
    <3> QED BY <3>3, <3>4
  <2> QED BY <2>2, <2>3
<1>3. CASE IsPreview(f)
  <2>1. options.preview /\ jobs[f].id \in 0..(BufferCount - 1) /\ jobs[f].own = jobs[f].id + 1
    BY <1>0, <1>3 DEF JobInv
  <2>2. previews = PreviewBuffers =>
          jobs[f].id \in DOMAIN previews /\ previews[jobs[f].id] = jobs[f].own
    BY <2>1, PreviewDomain
  <2>3. cli.pc \notin {"stop", "exit"} => jobs[f].own \notin Free
    BY <1>0, <2>2 DEF PhaseInv, Free, Leased
  <2>4. ASSUME NEW e \in device PROVE e.buffer # jobs[f].own
    <3>1. worker.pc \in Carrying /\ worker.entry.frame = f
      <4>1. CASE worker.pc = "callback" /\ worker.entry.frame = f
        BY <4>1 DEF Carrying
      <4>2. CASE f \in DOMAIN writers
        <5>1. ~Signalled(jobs, f)
          BY <1>0 DEF Signalled
        <5>2. writers[f].pc # "done"
          BY <1>0, <4>2, <5>1 DEF ImageInv
        <5> QED BY <1>0, <1>b, <4>2, <5>2 DEF ImageInv
      <4> QED BY <1>3, <4>1, <4>2 DEF Unawaited
    <3>2. jobs[f].id = worker.entry.id
      BY <1>0, <3>1 DEF JobInv
    <3>3. CASE IsPreview(e.frame)
      <4>1. e.id # jobs[f].id /\ e.id \in 0..(BufferCount - 1) /\ e.buffer = e.id + 1
        BY <1>0, <3>1, <3>2, <3>3 DEF LeaseInv, PreviewEntry
      <4> QED BY <2>1, <4>1
    <3>4. CASE ~IsPreview(e.frame)
      <4>1. e.frame \in DOMAIN captures /\ captures[e.frame] = e.buffer
        BY <1>0, <1>d, <2>1, <3>4
      <4>2. jobs[f].id \in DOMAIN previews /\ previews[jobs[f].id] = jobs[f].own
        BY <1>a, <1>b, <2>2
      <4> QED BY <1>0, <4>1, <4>2 DEF LeaseInv
    <3> QED BY <3>3, <3>4
  <2> QED BY <2>3, <2>4
<1> QED BY <1>1, <1>2, <1>3

\* The properties the run checks follow from the invariant.
LEMMA InvImplies ==
  Inv => TypeOK /\ EncoderExclusive /\ Accounted
<1> SUFFICES ASSUME Inv PROVE TypeOK /\ EncoderExclusive /\ Accounted
  OBVIOUS
<1>0. /\ Shape /\ NumberInv /\ PlaceInv /\ AccountInv /\ options \in Options
      /\ asleep \in BOOLEAN
  BY DEF Inv, Shape, SaverInv
<1>1. EncoderExclusive
  <2> SUFFICES ASSUME NEW f \in Reading(jobs), ~Unawaited(f)
               PROVE  /\ \A e \in device : e.buffer # jobs[f].buffer \/ jobs[f].buffer = NoBuffer
                      /\ jobs[f].buffer \in Free => cli.pc \in {"stop", "exit"}
    BY DEF EncoderExclusive
  <2>1. IsPreview(f) => SavesPreview(options)
    BY DEF Unawaited, Inv, SaverInv
  <2>2. jobs[f].buffer = jobs[f].own
    BY <2>1 DEF Inv, EncodesOwnBuffer, Reading
  <2> QED BY <2>2, ReadersBuffer
<1>2. Accounted
  BY <1>0 DEF AccountInv, Accounted, Asking, Busy
<1>3. TypeOK
  <2>1. \A f : Used(f) => f \in AllFrames
    BY DEF Used, UsedStill, UsedPreview, AllFrames
  <2>2. /\ DOMAIN captures \subseteq Stills /\ DOMAIN pending \subseteq AllFrames
        /\ DOMAIN jobs \subseteq AllFrames /\ DOMAIN writers \subseteq PreviewFrames
        /\ missing \subseteq AllFrames
    BY <1>0, <2>1 DEF NumberInv, UsedStill, UsedPreview
  <2>3. DOMAIN previews \subseteq 0..BufferCount
    <3>1. BufferCount \in Nat \ {0}
      BY CliAssumption
    <3> QED BY <1>0, <3>1, PreviewDomain DEF Shape
  <2>4. \A e \in device : e.frame < (IF IsPreview(e.frame) THEN nextPreview ELSE nextFrame)
    BY <1>0, FrameKinds DEF NumberInv, UsedStill
  <2>5. worker.pc \in WorkerPcs /\ cli.pc \in CliPcs
    BY <1>0, MoveOn DEF Shape
  <2> QED BY <1>0, <2>2, <2>3, <2>4, <2>5 DEF TypeOK, Shape, PlaceInv, WorkerPcs, CliPcs
<1> QED BY <1>1, <1>2, <1>3

\* The application keeps the invariant, whatever it is asked to do and whatever fails.
THEOREM AppCorrect == Spec => []Inv
  BY InitInv, InvNext, PTL DEF Spec

\* The variables keep their types, and every frame the device owns has a number of
\* its own that was given out before.
THEOREM TypeCorrect == Spec => []TypeOK
  BY AppCorrect, InvImplies, PTL

\* While an encoder thread that somebody waits for reads a buffer, the device does
\* not own it, and no other still is given it before main gives up its leases.
THEOREM EncoderExclusiveAlways == Spec => []EncoderExclusive
  BY AppCorrect, InvImplies, PTL

\* An image is made of the buffer the device filled, but for preview frames that
\* are encoded while stills are taken.
THEOREM EncodesOwnBufferAlways == Spec => []EncodesOwnBuffer
<1>1. Inv => EncodesOwnBuffer
  BY DEF Inv
<1> QED BY <1>1, AppCorrect, PTL

\* A frame whose encoder succeeded is written, unless main released the preview
\* tracker under a thread that it did not join.
THEOREM ImageWrittenAlways == Spec => []ImageWritten
<1>1. Inv => ImageWritten
  BY DEF Inv
<1> QED BY <1>1, AppCorrect, PTL

\* At the prompt only stills that were given up hold a buffer or a pending entry.
THEOREM AccountedAlways == Spec => []Accounted
  BY AppCorrect, InvImplies, PTL
=============================================================================
