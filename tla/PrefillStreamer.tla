-------------------------- MODULE PrefillStreamer --------------------------
(***************************************************************************)
(* The bulk streamer that stages a layer's experts for a prefill           *)
(* (src/src/qwfn_prefill.cpp): two host buffers, a reader thread that      *)
(* reads the next layer into one while the other is uploaded and used, and *)
(* a device mirror that exists while a prefill runs.  The main thread is   *)
(* engine::eval_prefill_big() with prefill_enter() and prefill_leave(),    *)
(* and between prefills the decode steps that change the tiers and borrow  *)
(* the first buffer (src/src/qwfn_engine.cpp).                             *)
(*                                                                         *)
(* The bytes of an expert's slice are the layer they belong to, or None.   *)
(***************************************************************************)
EXTENDS Integers, FiniteSets, FiniteSetsExt

CONSTANTS
    NLayer,           \* n_layer: more than two, so neither buffer still holds the layer to read next
    Expert,           \* the experts of a layer
    RamMay, VramMay,  \* those the RAM and the VRAM tier may hold
    Modes,            \* how the streamer was initialised, and the events of the behaviour
    None              \* no layer, no buffer

Layer == 0 .. NLayer - 1
Buf == {0, 1}

\* A read or a computation fails; decode steps move experts between the tiers; a short prompt's
\* misses borrow the staging.
Event == {"fault", "tiers", "borrow"}

ASSUME Model == NLayer \in Nat \ {0, 1, 2} /\ IsFiniteSet(Expert) /\ None \notin Layer \cup Buf
ASSUME Tiers == RamMay \subseteq Expert /\ VramMay \subseteq Expert
ASSUME Setting == Modes \subseteq [overlap : BOOLEAN, device : BOOLEAN, vram : BOOLEAN,
                                  events : SUBSET Event]

VARIABLES
    mode,     \* overlap_, dev_buft_ and whether there is a VRAM source; what else happens
    hb,       \* hb_[2]: what each host buffer holds or is receiving
    front,    \* front_
    want,     \* want_layer_ and want_buf_
    rd,       \* reading_ and what the reader still has to read
    stop,     \* stop_
    loaded,   \* loaded_
    dev,      \* the device staging: bytes by expert, None when it is not allocated
    upload,   \* the buffer an upload queued on the device still reads
    ram,      \* the experts the RAM tier holds, by layer
    vram,     \* those the VRAM tier holds
    pc,       \* where the main thread is
    il,       \* the layer it is at
    got       \* the buffer load_layer() waits for

vars == <<mode, hb, front, want, rd, stop, loaded, dev, upload, ram, vram, pc, il, got>>

Junk == [e \in Expert |-> None]
NoRead == [on |-> FALSE, buf |-> 0, layer |-> None, todo |-> {}]

HostBuf == [layer : Layer \cup {None}, ready : BOOLEAN, failed : BOOLEAN,
            residents : SUBSET RamMay, vres : SUBSET VramMay, data : [Expert -> Layer \cup {None}]]
Job == [layer : Layer \cup {None}, buf : Buf]
Read == [on : BOOLEAN, buf : Buf, layer : Layer \cup {None}, todo : SUBSET Expert]

\* The types of the streamer's state; besides, only a running prefill has a device mirror.
TypeOK ==
    /\ mode \in Modes
    /\ hb \in [Buf -> HostBuf]
    /\ front \in Buf /\ got \in Buf
    /\ want \in Job
    /\ rd \in Read
    /\ stop \in BOOLEAN
    /\ loaded \in Layer \cup {None}
    /\ dev # None => dev \in [Expert -> Layer \cup {None}] /\ mode.device /\ pc # "idle"
    /\ upload \in Buf \cup {None}
    /\ ram \in [Layer -> SUBSET RamMay] /\ vram \in [Layer -> SUBSET VramMay]
    /\ pc \in {"idle", "load", "wait", "prefetch", "moe", "warm", "leave", "down"}
    /\ il \in Layer

Init ==
    /\ mode \in Modes
    /\ hb = [i \in Buf |-> [layer |-> None, ready |-> FALSE, failed |-> FALSE, residents |-> {},
                            vres |-> {}, data |-> Junk]]
    /\ front = 0
    /\ want = [layer |-> None, buf |-> 0]
    /\ rd = NoRead
    /\ stop = FALSE
    /\ loaded = None
    /\ dev = None
    /\ upload = None
    /\ ram = [l \in Layer |-> {}]
    /\ vram = [l \in Layer |-> {}]
    /\ pc = "idle"
    /\ il = 0
    /\ got = 0

-----------------------------------------------------------------------------
\* fill_residents(): what of the layer is taken from the tiers instead of the file.
VramList(l, from_ram) == IF from_ram /\ mode.vram /\ mode.device THEN vram[l] ELSE {}
RamList(l, from_ram) == IF from_ram THEN ram[l] \ VramList(l, from_ram) ELSE {}

\* The bytes a read of e finds: the tier's slot may have been given to another expert by now.
Bytes(l, residents, e) == IF e \in residents /\ e \notin ram[l] THEN None ELSE l

\* Buffer t is to receive layer l.
Aimed(b, l, from_ram) ==
    [b EXCEPT !.layer = l, !.ready = FALSE, !.failed = FALSE,
              !.residents = RamList(l, from_ram), !.vres = VramList(l, from_ram)]

\* What the device staging holds after an upload: the tier's experts are copied on the device.
Mirrored(b) ==
    [e \in Expert |-> IF e \in b.vres THEN (IF e \in vram[b.layer] THEN b.layer ELSE None)
                      ELSE b.data[e]]

-----------------------------------------------------------------------------
(***************************************************************************)
(* The main thread                                                         *)
(***************************************************************************)
\* prefill_enter()
Enter ==
    /\ pc = "idle"
    /\ pc' = "load" /\ il' = 0
    /\ UNCHANGED <<mode, hb, front, want, rd, stop, loaded, dev, upload, ram, vram, got>>

\* ensure_device(): a fresh mirror holds nothing.
EnsureDevice ==
    dev' = IF mode.device /\ dev = None THEN Junk ELSE dev

\* The buffer a read that jumps the queue goes to: never the one a read is landing in.
Target == IF rd.on THEN 1 - want.buf ELSE 1 - front

\* load_layer() up to its wait, and enqueue_locked(): a queued job that has not started is
\* superseded.
Load ==
    /\ pc = "load" /\ mode.overlap /\ upload = None /\ il # loaded
    /\ EnsureDevice
    /\ loaded' = IF mode.device /\ dev = None THEN None ELSE loaded
    /\ LET staged == {i \in Buf : hb[i].layer = il}
           freed == IF want.layer # None THEN [hb EXCEPT ![want.buf].layer = None] ELSE hb
       IN  IF staged # {}
           THEN got' = Min(staged) /\ UNCHANGED <<hb, want>>
           ELSE /\ got' = Target
                /\ hb' = [freed EXCEPT ![Target] = Aimed(@, il, TRUE)]
                /\ want' = [layer |-> il, buf |-> Target]
    /\ pc' = "wait"
    /\ UNCHANGED <<mode, front, rd, stop, upload, ram, vram, il>>

\* The layer is there: it becomes the front and its upload is queued.
Loaded ==
    /\ pc = "wait" /\ hb[got].layer = il /\ hb[got].ready /\ ~hb[got].failed
    /\ front' = got
    /\ upload' = IF mode.device THEN got ELSE None
    /\ loaded' = il
    /\ pc' = "prefetch"
    /\ UNCHANGED <<mode, hb, want, rd, stop, dev, ram, vram, il, got>>

\* Its read failed: the prefill fails.
LoadFails ==
    /\ pc = "wait" /\ hb[got].layer = il /\ hb[got].failed
    /\ hb' = [hb EXCEPT ![got].layer = None]
    /\ pc' = "leave"
    /\ UNCHANGED <<mode, front, want, rd, stop, loaded, dev, upload, ram, vram, il, got>>

\* Without overlap load_layer() reads itself, into the only buffer.
LoadNow ==
    /\ pc = "load" /\ ~mode.overlap /\ upload = None /\ il # loaded
    /\ EnsureDevice
    /\ got' = 0
    /\ \E ok \in IF "fault" \in mode.events THEN BOOLEAN ELSE {TRUE} :
        LET held == hb[0].layer = il /\ hb[0].ready
            b == Aimed(hb[0], il, TRUE)
            read == [b EXCEPT !.ready = TRUE,
                              !.data = [e \in Expert |-> IF e \in b.vres THEN @[e]
                                                         ELSE Bytes(il, b.residents, e)]]
        IN  /\ hb' = IF held THEN hb ELSE [hb EXCEPT ![0] = IF ok THEN read
                                                            ELSE [b EXCEPT !.layer = None]]
            /\ upload' = IF mode.device /\ (held \/ ok) THEN 0 ELSE None
            /\ loaded' = IF held \/ ok THEN il
                         ELSE IF mode.device /\ dev = None THEN None ELSE loaded
            /\ pc' = IF held \/ ok THEN "prefetch" ELSE "leave"
    /\ UNCHANGED <<mode, front, want, rd, stop, ram, vram, il>>

NextLayer == (il + 1) % NLayer

MutFromTiers == TRUE

\* The wrap to layer 0 may outlive this prefill: from the file only.
FromTiers == il + 1 < NLayer

MutSpare == front

\* The buffer that is not in use.
Spare == 1 - front

\* prefetch_layer() of the next layer, one speculative job at a time.
Prefetch ==
    /\ pc = "prefetch"
    /\ LET busy == want.layer # None \/ rd.on
           staged == \E i \in Buf : hb[i].layer = NextLayer
       IN  IF ~mode.overlap \/ staged \/ busy
           THEN UNCHANGED <<hb, want>>
           ELSE /\ hb' = [hb EXCEPT ![Spare] = Aimed(@, NextLayer, FromTiers)]
                /\ want' = [layer |-> NextLayer, buf |-> Spare]
    /\ pc' = "moe"
    /\ UNCHANGED <<mode, front, rd, stop, loaded, dev, upload, ram, vram, il, got>>

\* The layer's MoE, which the device runs after the upload.
Compute ==
    /\ pc = "moe" /\ upload = None
    /\ pc' = "warm"
    /\ UNCHANGED <<mode, hb, front, want, rd, stop, loaded, dev, upload, ram, vram, il, got>>

\* The attention before the load, the staging, the device copies or the MoE fail.
ComputeFails ==
    /\ pc \in {"load", "prefetch", "moe"} /\ "fault" \in mode.events
    /\ pc' = "leave"
    /\ UNCHANGED <<mode, hb, front, want, rd, stop, loaded, dev, upload, ram, vram, il, got>>

\* expert_cache::warm() of this layer from the host buffer, then the next layer, the sweep of
\* the prompt's next batch or the end.
Warm ==
    /\ pc = "warm"
    /\ IF "tiers" \in mode.events
       THEN \E R \in SUBSET RamMay, V \in SUBSET VramMay :
                ram' = [ram EXCEPT ![il] = R] /\ vram' = [vram EXCEPT ![il] = V]
       ELSE UNCHANGED <<ram, vram>>
    /\ pc' \in IF il + 1 < NLayer THEN {"load"} ELSE {"load", "leave"}
    /\ il' = NextLayer
    /\ UNCHANGED <<mode, hb, front, want, rd, stop, loaded, dev, upload, got>>

\* drop_vram_staging(): a list of the VRAM tier is only good inside the prefill that took it.
Dropped(i) ==
    IF hb[i].vres = {} \/ (rd.on /\ want.buf = i) THEN hb[i]
    ELSE [hb[i] EXCEPT !.layer = None, !.ready = FALSE, !.vres = {}]

MutCancelled == want.layer # None /\ ~rd.on

Cancelled == \E i \in Buf : hb[i].vres # {} /\ want.buf = i /\ want.layer = hb[i].layer /\ ~rd.on

\* prefill_leave(): release_device() and drop_vram_staging().
Leave ==
    /\ pc = "leave"
    /\ dev' = None /\ upload' = None /\ loaded' = None
    /\ hb' = [i \in Buf |-> Dropped(i)]
    /\ want' = IF Cancelled THEN [want EXCEPT !.layer = None] ELSE want
    /\ pc' = "idle"
    /\ il' = 0
    /\ UNCHANGED <<mode, front, rd, stop, ram, vram, got>>

\* Between prefills decode steps fetch, evict and promote.
Decode ==
    /\ pc = "idle" /\ "tiers" \in mode.events
    /\ \E l \in Layer, R \in SUBSET RamMay, V \in SUBSET VramMay :
        ram' = [ram EXCEPT ![l] = R] /\ vram' = [vram EXCEPT ![l] = V]
    /\ UNCHANGED <<mode, hb, front, want, rd, stop, loaded, dev, upload, pc, il, got>>

\* A short prompt goes through the cache, and host_scratch() takes its misses.
Borrow ==
    /\ pc = "idle" /\ "borrow" \in mode.events
    /\ hb' = [hb EXCEPT ![0].data = Junk]
    /\ UNCHANGED <<mode, front, want, rd, stop, loaded, dev, upload, ram, vram, pc, il, got>>

\* ~prefill_streamer()
Destroy ==
    /\ pc = "idle"
    /\ pc' = "down" /\ stop' = TRUE
    /\ UNCHANGED <<mode, hb, front, want, rd, loaded, dev, upload, ram, vram, il, got>>

-----------------------------------------------------------------------------
(***************************************************************************)
(* The reader thread and the device                                        *)
(***************************************************************************)
ReaderTake ==
    /\ want.layer # None /\ ~rd.on /\ ~stop
    /\ rd' = [on |-> TRUE, buf |-> want.buf, layer |-> want.layer,
              todo |-> Expert \ hb[want.buf].vres]
    /\ want' = [want EXCEPT !.layer = None]
    /\ UNCHANGED <<mode, hb, front, stop, loaded, dev, upload, ram, vram, pc, il, got>>

\* read_into(): the slices land one by one, in any order.
ReaderRead(e) ==
    /\ rd.on /\ e \in rd.todo
    /\ hb' = [hb EXCEPT ![rd.buf].data[e] = Bytes(rd.layer, hb[rd.buf].residents, e)]
    /\ rd' = [rd EXCEPT !.todo = @ \ {e}]
    /\ UNCHANGED <<mode, front, want, stop, loaded, dev, upload, ram, vram, pc, il, got>>

MutReady == TRUE

\* Every slice is there.
Ready == rd.todo = {}

ReaderDone ==
    /\ rd.on /\ Ready
    /\ hb' = [hb EXCEPT ![rd.buf].ready = TRUE, ![rd.buf].failed = FALSE]
    /\ rd' = NoRead
    /\ UNCHANGED <<mode, front, want, stop, loaded, dev, upload, ram, vram, pc, il, got>>

ReaderFails ==
    /\ rd.on /\ "fault" \in mode.events
    /\ hb' = [hb EXCEPT ![rd.buf].ready = FALSE, ![rd.buf].failed = TRUE]
    /\ rd' = NoRead
    /\ UNCHANGED <<mode, front, want, stop, loaded, dev, upload, ram, vram, pc, il, got>>

\* The queued upload and the copies after it run.
Upload ==
    /\ upload # None
    /\ dev' = Mirrored(hb[upload])
    /\ upload' = None
    /\ UNCHANGED <<mode, hb, front, want, rd, stop, loaded, ram, vram, pc, il, got>>

ReadAny == \E e \in Expert : ReaderRead(e)

Reader == ReaderTake \/ ReadAny \/ ReaderDone \/ ReaderFails

Main ==
    \/ Load \/ Loaded \/ LoadFails \/ LoadNow \/ Prefetch \/ Compute \/ ComputeFails \/ Warm
    \/ Leave

Next == Main \/ Enter \/ Decode \/ Borrow \/ Destroy \/ Reader \/ Upload

Spec == Init /\ [][Next]_vars

\* The threads and the device run.
Fairness == WF_vars(Main) /\ WF_vars(Reader) /\ WF_vars(Upload)

FairSpec == Spec /\ Fairness

-----------------------------------------------------------------------------
\* A layer's MoE runs on that layer's experts, every slice of them, whatever was read ahead,
\* taken from the tiers, superseded, dropped or borrowed before.
ComputesOnLayer ==
    pc = "warm" => \A e \in Expert : (IF mode.device THEN dev ELSE hb[front].data)[e] = il

\* What warm() copies into the RAM tier is this layer's: an expert that was left to the VRAM
\* tier, whose slice the host never got, is one warm() finds there and skips.
WarmsFromLayer ==
    pc = "warm" => \A e \in Expert \ vram[il] : hb[front].data[e] = il

\* The reader never writes the buffer that is in use or that the device still reads.
ReaderApart ==
    /\ TypeOK
    /\ rd.on => /\ pc \in {"prefetch", "moe", "warm"} => rd.buf # front
                /\ rd.buf # upload

\* Every load comes to an end.
LoadReturns == pc = "wait" ~> pc # "wait"
=============================================================================
