----------------------- MODULE PrefillStreamerProofs -----------------------
(***************************************************************************)
(* Proofs about the bulk streamer for any number of layers and experts.    *)
(* The buffers are kept apart (Sched) however it was initialised and       *)
(* whatever fails.  That a layer is computed on its own experts needs more *)
(* of the code's surroundings: a failed prefill must not meet a tier that  *)
(* moved or a borrower (FaultsAlone), and a borrower of the first buffer   *)
(* must find the second one holding what was read ahead (BorrowsEven).     *)
(***************************************************************************)
EXTENDS PrefillStreamer, TLAPS

FaultsAlone == \A m \in Modes : "fault" \in m.events => m.events = {"fault"}
BorrowsEven == \A m \in Modes : m.overlap /\ "borrow" \in m.events => NLayer % 2 = 0

NoJob == want.layer = None /\ ~rd.on
InUse == {"prefetch", "moe", "warm"}

\* Where the reader reads and where its next job goes: into a buffer that is named for the layer,
\* not ready, neither in use nor read by the device.
Sched ==
    /\ ~mode.overlap => NoJob /\ pc # "wait" /\ front = 0 /\ upload # 1
    /\ rd.on => /\ rd.layer # None /\ hb[rd.buf].layer = rd.layer
                /\ ~hb[rd.buf].ready /\ ~hb[rd.buf].failed
                /\ IF want.layer = None THEN want.buf = rd.buf
                   ELSE pc = "wait" /\ got = want.buf /\ want.buf # rd.buf
    /\ want.layer # None => /\ hb[want.buf].layer = want.layer
                            /\ ~hb[want.buf].ready /\ ~hb[want.buf].failed
    /\ \A b \in Buf : (rd.on /\ rd.buf = b) \/ (want.layer # None /\ want.buf = b) =>
            b # upload /\ (pc \in InUse => b # front)
    /\ upload # None => /\ mode.device
                        /\ pc = "leave" \/ (pc \in {"prefetch", "moe"} /\ upload = front)

\* Without a device mirror no slice is left to the VRAM tier.
HostOnly == ~mode.device => \A b \in Buf : hb[b].vres = {}

\* The slices buffer i has are its layer's, those it still gets from a tier are there.
Good(i) ==
    LET b == hb[i] IN
    b.layer # None =>
        /\ b.vres \subseteq vram[b.layer]
        /\ b.ready => \A e \in Expert \ b.vres : b.data[e] = b.layer
        /\ ~b.ready => b.residents \subseteq ram[b.layer]
        /\ rd.on /\ rd.buf = i => \A e \in Expert \ (b.vres \cup rd.todo) : b.data[e] = b.layer

\* The buffer in use holds the layer, and so does the device once the upload has run.
FrontHolds ==
    pc \in InUse =>
        /\ hb[front].layer = il /\ hb[front].vres \subseteq vram[il]
        /\ hb[front].ready
        /\ \A e \in Expert \ hb[front].vres : hb[front].data[e] = il
        /\ mode.device /\ upload = None => \A e \in Expert : dev[e] = il

PrevLayer == IF il = 0 THEN NLayer - 1 ELSE il - 1
Ahead == 1 - front
FromFile(i) == hb[i].residents = {} /\ hb[i].vres = {}

\* Where nothing fails the buffers alternate: the layer to come is in the one that is not the
\* front, and what outlives the prefill is read from the file.
Alternating(a) ==
    /\ \A b \in Buf : ~hb[b].failed
    /\ \A b \in Buf : (rd.on /\ rd.buf = b) \/ (want.layer # None /\ want.buf = b) => b = a
    /\ pc # "prefetch" => Good(a)
    /\ pc \in {"idle", "load", "wait", "leave"} =>
          /\ hb[front].layer \in {None, PrevLayer}
          /\ \/ hb[a].layer = il
             \/ il = 0 /\ pc \in {"idle", "load"} /\ hb[a].layer = None /\ NoJob
          /\ pc = "wait" => got = a
          /\ "borrow" \in mode.events => front = il % 2
    /\ pc \in {"idle", "leave"} => il = 0 /\ upload = None /\ (hb[a].layer = 0 => FromFile(a))
    /\ pc = "prefetch" => NoJob /\ hb[a].layer \in {None, PrevLayer}
    /\ pc \in {"moe", "warm"} =>
          hb[a].layer = NextLayer /\ (NextLayer = 0 => FromFile(a))
    /\ pc \in InUse /\ "borrow" \in mode.events => front = (il + 1) % 2

Alternates == mode.overlap /\ "fault" \notin mode.events /\ pc # "down" => Alternating(Ahead)

\* Without overlap each layer is read when it is loaded.
Direct ==
    ~mode.overlap /\ "fault" \notin mode.events /\ pc \in {"idle", "load", "leave"} =>
        hb[0].layer \in {None, PrevLayer} /\ (pc # "load" => il = 0)

\* Where something may fail the tiers are empty and every buffer with a layer is good.
Bare ==
    "fault" \in mode.events =>
        /\ ram = [l \in Layer |-> {}] /\ vram = [l \in Layer |-> {}]
        /\ \A i \in Buf : FromFile(i) /\ Good(i)

CInv == TypeOK /\ Sched /\ HostOnly /\ FrontHolds /\ Alternates /\ Direct /\ Bare

-----------------------------------------------------------------------------
\* Layers in a circle, and the least of a set of buffers.
LEMMA Circle ==
    ASSUME il \in Layer
    PROVE  /\ NextLayer = IF il + 1 = NLayer THEN 0 ELSE il + 1
           /\ NextLayer \in Layer /\ PrevLayer \in Layer
           /\ NextLayer # il /\ PrevLayer # il /\ NextLayer # PrevLayer
<1>1. il \in Int /\ 0 <= il /\ il < NLayer /\ NLayer \in Int /\ NLayer > 2
    BY Model DEF Layer
<1>2. NextLayer = IF il + 1 = NLayer THEN 0 ELSE il + 1
    BY <1>1, SMT DEF NextLayer
<1> QED BY <1>1, <1>2 DEF PrevLayer, Layer

LEMMA LeastBuf ==
    ASSUME NEW S \in SUBSET Buf, S # {}
    PROVE  Min(S) \in S
<1>1. CASE 0 \in S
  <2>1. \A y \in S : 0 <= y
    BY DEF Buf
  <2> QED BY <1>1, <2>1 DEF Min
<1>2. CASE 0 \notin S
  <2>1. \A y \in S : y = 1
    BY <1>2 DEF Buf
  <2>2. 1 \in S /\ \A y \in S : 1 <= y
    BY <2>1
  <2> QED BY <2>2 DEF Min
<1> QED BY <1>1, <1>2

\* What the steps make of a buffer is a buffer.
LEMMA Buffers ==
    ASSUME NEW b \in HostBuf
    PROVE  /\ \A y, z \in BOOLEAN : [b EXCEPT !.ready = y, !.failed = z] \in HostBuf
           /\ [b EXCEPT !.layer = None] \in HostBuf
           /\ [b EXCEPT !.data = Junk] \in HostBuf
           /\ [b EXCEPT !.layer = None, !.ready = FALSE, !.vres = {}] \in HostBuf
           /\ \A e \in Expert, l \in Layer \cup {None} : [b EXCEPT !.data[e] = l] \in HostBuf
           /\ \A d \in [Expert -> Layer \cup {None}] : [b EXCEPT !.ready = TRUE, !.data = d] \in HostBuf
<1>1. Junk \in [Expert -> Layer \cup {None}]
  BY DEF Junk
<1>2. b.data \in [Expert -> Layer \cup {None}]
  BY DEF HostBuf
<1> QED BY <1>1, <1>2 DEF HostBuf

LEMMA AimedType ==
    ASSUME TypeOK, NEW b \in HostBuf, NEW l \in Layer, NEW from \in BOOLEAN
    PROVE  /\ Aimed(b, l, from) \in HostBuf
           /\ Aimed(b, l, from).layer = l
           /\ ~Aimed(b, l, from).ready /\ ~Aimed(b, l, from).failed
           /\ Aimed(b, l, from).residents = RamList(l, from)
           /\ Aimed(b, l, from).vres = VramList(l, from)
<1>1. RamList(l, from) \in SUBSET RamMay /\ VramList(l, from) \in SUBSET VramMay
  BY DEF TypeOK, RamList, VramList
<1> QED BY <1>1 DEF Aimed, HostBuf

\* The types.
LEMMA InitTypeOK == Init => TypeOK
<1> SUFFICES ASSUME Init PROVE TypeOK
  OBVIOUS
<1>1. Junk \in [Expert -> Layer \cup {None}]
  BY DEF Junk
<1>2. [layer |-> None, ready |-> FALSE, failed |-> FALSE, residents |-> {}, vres |-> {},
       data |-> Junk] \in HostBuf
  BY <1>1 DEF HostBuf
<1>3. hb \in [Buf -> HostBuf] /\ want \in Job /\ rd \in Read
  BY <1>2 DEF Init, Job, Read, NoRead, Buf
<1>4. 0 \in Layer /\ 0 \in Buf
  BY Model DEF Layer, Buf
<1>5. ram \in [Layer -> SUBSET RamMay] /\ vram \in [Layer -> SUBSET VramMay]
  BY DEF Init
<1> QED BY <1>3, <1>4, <1>5 DEF Init, TypeOK

LEMMA StepTypeOK == TypeOK /\ Sched /\ [Next]_vars => TypeOK'
<1> SUFFICES ASSUME TypeOK, Sched, [Next]_vars PROVE TypeOK'
  OBVIOUS
<1>0. NoRead \in Read /\ Junk \in [Expert -> Layer \cup {None}]
  BY DEF NoRead, Read, Buf, Junk
<1>1. CASE Enter
  BY <1>1, Model DEF Enter, Layer, TypeOK
<1>2. CASE Load
  <2>1. \A S \in SUBSET Buf : S # {} => Min(S) \in Buf
    BY LeastBuf
  <2>2. Target \in Buf
    BY DEF Target, Buf, TypeOK, Job
  <2> DEFINE staged == {i \in Buf : hb[i].layer = il}
             freed == IF want.layer # None THEN [hb EXCEPT ![want.buf].layer = None] ELSE hb
  <2>7. staged \in SUBSET Buf
    OBVIOUS
  <2>3. got' \in Buf
    BY <1>2, <2>1, <2>2, <2>7 DEF Load
  <2>8. want' \in Job
    <3>1. want \in Job /\ [layer |-> il, buf |-> Target] \in Job
      BY <2>2 DEF Job, TypeOK
    <3> QED BY <1>2, <3>1 DEF Load
  <2>4. freed \in [Buf -> HostBuf]
    BY Buffers DEF TypeOK, Job
  <2>9. il \in Layer /\ freed[Target] \in HostBuf
    BY <2>2, <2>4 DEF TypeOK
  <2>10. Aimed(freed[Target], il, TRUE) \in HostBuf
    BY <2>9, AimedType
  <2>11. [freed EXCEPT ![Target] = Aimed(@, il, TRUE)] \in [Buf -> HostBuf]
    BY <2>2, <2>4, <2>10
  <2>5. hb' \in [Buf -> HostBuf]
    BY <1>2, <2>11 DEF Load, TypeOK
  <2>6. dev' # None => dev' \in [Expert -> Layer \cup {None}] /\ mode'.device /\ pc' # "idle"
    BY <1>0, <1>2 DEF Load, EnsureDevice, TypeOK
  <2> QED BY <1>2, <2>3, <2>8, <2>5, <2>6 DEF Load, TypeOK
<1>3. CASE Loaded
  BY <1>3 DEF Loaded, TypeOK
<1>4. CASE LoadFails
  BY <1>4, Buffers DEF LoadFails, TypeOK
<1>5. CASE LoadNow
  <2> DEFINE b == Aimed(hb[0], il, TRUE)
             d == [e \in Expert |-> IF e \in b.vres THEN b.data[e] ELSE Bytes(il, b.residents, e)]
  <2>1. b \in HostBuf /\ 0 \in Buf
    BY AimedType DEF TypeOK, Buf
  <2>2. d \in [Expert -> Layer \cup {None}]
    BY <2>1 DEF Bytes, HostBuf, TypeOK
  <2>3. [b EXCEPT !.ready = TRUE, !.data = d] \in HostBuf /\ [b EXCEPT !.layer = None] \in HostBuf
    BY <2>1, <2>2, Buffers
  <2>4. [b EXCEPT !.ready = TRUE, !.data = [e \in Expert |-> IF e \in b.vres THEN @[e]
                                                         ELSE Bytes(il, b.residents, e)]]
          = [b EXCEPT !.ready = TRUE, !.data = d]
    BY <2>1
  <2>5. hb' \in [Buf -> HostBuf]
    BY <1>5, <2>1, <2>3, <2>4 DEF LoadNow, TypeOK
  <2>6. dev' # None => dev' \in [Expert -> Layer \cup {None}] /\ mode'.device /\ pc' # "idle"
    BY <1>0, <1>5 DEF LoadNow, EnsureDevice, TypeOK
  <2>7. /\ upload' \in Buf \cup {None} /\ loaded' \in Layer \cup {None} /\ got' \in Buf
        /\ pc' \in {"prefetch", "leave"}
    BY <1>5, <2>1 DEF LoadNow, TypeOK
  <2> QED BY <1>5, <2>5, <2>6, <2>7 DEF LoadNow, TypeOK
<1>6. CASE Prefetch
  <2>1. Spare \in Buf /\ NextLayer \in Layer
    BY Circle DEF Spare, Buf, TypeOK
  <2>2. want' \in Job
    BY <1>6, <2>1 DEF Prefetch, TypeOK, Job
  <2>3. Aimed(hb[Spare], NextLayer, FromTiers) \in HostBuf
    <3>1. FromTiers \in BOOLEAN /\ hb[Spare] \in HostBuf
      BY <2>1 DEF TypeOK, FromTiers
    <3> QED BY <2>1, <3>1, AimedType
  <2>4. [hb EXCEPT ![Spare] = Aimed(@, NextLayer, FromTiers)] \in [Buf -> HostBuf]
    BY <2>1, <2>3 DEF TypeOK
  <2>5. hb' \in [Buf -> HostBuf]
    BY <1>6, <2>4 DEF Prefetch, TypeOK
  <2> QED BY <1>6, <2>2, <2>5 DEF Prefetch, TypeOK
<1>7. CASE Compute
  BY <1>7 DEF Compute, TypeOK
<1>8. CASE ComputeFails
  BY <1>8 DEF ComputeFails, TypeOK
<1>9. CASE Warm
  BY <1>9, Circle DEF Warm, TypeOK
<1>10. CASE Leave
  <2>1. hb' \in [Buf -> HostBuf]
    BY <1>10, Buffers DEF Leave, Dropped, TypeOK
  <2>2. want' \in Job
    BY <1>10 DEF Leave, TypeOK, Job
  <2> QED BY <1>10, <2>1, <2>2, Model DEF Leave, Layer, TypeOK
<1>11. CASE Decode
  BY <1>11 DEF Decode, TypeOK
<1>12. CASE Borrow
  BY <1>12, Buffers DEF Borrow, TypeOK
<1>13. CASE Destroy
  BY <1>13 DEF Destroy, TypeOK
<1>14. CASE ReaderTake
  BY <1>14 DEF ReaderTake, TypeOK, Job, Read
<1>15. CASE ReadAny
  <2> PICK e \in Expert : ReaderRead(e)
    BY <1>15 DEF ReadAny
  <2>1. Bytes(rd.layer, hb[rd.buf].residents, e) \in Layer \cup {None} /\ rd.buf \in Buf
    BY DEF Bytes, TypeOK, Read
  <2>2. hb' \in [Buf -> HostBuf]
    BY <2>1, Buffers DEF ReaderRead, TypeOK
  <2>3. rd' \in Read
    BY DEF ReaderRead, TypeOK, Read
  <2> QED BY <2>2, <2>3 DEF ReaderRead, TypeOK
<1>16. CASE ReaderDone
  <2>1. hb' \in [Buf -> HostBuf]
    BY <1>16, Buffers DEF ReaderDone, TypeOK, Read
  <2> QED BY <1>0, <1>16, <2>1 DEF ReaderDone, TypeOK
<1>17. CASE ReaderFails
  <2>1. hb' \in [Buf -> HostBuf]
    BY <1>17, Buffers DEF ReaderFails, TypeOK, Read
  <2> QED BY <1>0, <1>17, <2>1 DEF ReaderFails, TypeOK
<1>18. CASE Upload
  <2>1. Mirrored(hb[upload]) \in [Expert -> Layer \cup {None}]
    BY <1>18 DEF Upload, Mirrored, TypeOK, HostBuf
  <2>2. mode.device /\ pc # "idle" /\ dev' = Mirrored(hb[upload])
    BY <1>18 DEF Upload, Sched
  <2> QED BY <1>18, <2>1, <2>2 DEF Upload, TypeOK
<1>19. CASE UNCHANGED vars
  BY <1>19 DEF vars, TypeOK
<1> QED BY <1>1, <1>2, <1>3, <1>4, <1>5, <1>6, <1>7, <1>8, <1>9, <1>10, <1>11, <1>12, <1>13,
           <1>14, <1>15, <1>16, <1>17, <1>18, <1>19 DEF Next, Main, Reader

-----------------------------------------------------------------------------
\* The schedule.
LEMMA InitSched == Init => Sched
<1> SUFFICES ASSUME Init PROVE Sched
  OBVIOUS
<1>1. want.layer = None /\ ~rd.on /\ front = 0 /\ upload = None /\ pc = "idle" /\ None # 1
  BY Model DEF Init, NoRead, Buf
<1> QED BY <1>1 DEF Sched, NoJob, InUse

LEMMA StepSched == TypeOK /\ Sched /\ [Next]_vars => Sched'
<1> SUFFICES ASSUME TypeOK, Sched, [Next]_vars PROVE Sched'
  OBVIOUS
<1> USE DEF NoJob, InUse
<1>0. /\ hb \in [Buf -> HostBuf] /\ front \in Buf /\ got \in Buf /\ want.buf \in Buf /\ rd.buf \in Buf
      /\ il \in Layer /\ NextLayer \in Layer /\ None \notin Layer
      /\ None \notin Buf /\ None # 1 /\ FromTiers \in BOOLEAN
  BY Circle, Model DEF TypeOK, Job, Read, Buf, FromTiers
<1>1. CASE Enter \/ Compute \/ ComputeFails \/ Warm \/ Decode \/ Destroy \/ UNCHANGED vars
  BY <1>1 DEF Enter, Compute, ComputeFails, Warm, Decode, Destroy, vars, Sched
<1>2. CASE Load
  <2>1. CASE \E i \in Buf : hb[i].layer = il
    BY <1>2, <2>1 DEF Load, Sched
  <2>2. CASE ~ \E i \in Buf : hb[i].layer = il
    <3>1. Target \in Buf /\ (rd.on => Target # rd.buf /\ want.layer = None)
      BY <1>0, <1>2 DEF Load, Sched, Target, Buf
    <3>2. /\ want' = [layer |-> il, buf |-> Target] /\ got' = Target /\ pc' = "wait"
          /\ upload' = None /\ upload = None /\ mode.overlap
      BY <1>2, <2>2 DEF Load
    <3> DEFINE freed == IF want.layer # None THEN [hb EXCEPT ![want.buf].layer = None] ELSE hb
    <3>3. freed \in [Buf -> HostBuf] /\ hb' = [freed EXCEPT ![Target] = Aimed(@, il, TRUE)]
      BY <1>0, <1>2, <2>2, Buffers DEF Load
    <3>4. hb'[Target] = Aimed(freed[Target], il, TRUE) /\ (rd.on => hb'[rd.buf] = hb[rd.buf])
      BY <1>0, <3>1, <3>3
    <3>5. /\ hb'[Target].layer = il /\ ~hb'[Target].ready /\ ~hb'[Target].failed
      BY <1>0, <2>2, <3>1, <3>3, <3>4, AimedType, freed[Target] \in HostBuf
    <3> QED BY <1>0, <1>2, <3>1, <3>2, <3>4, <3>5 DEF Load, Sched
  <2> QED BY <2>1, <2>2
<1>3. CASE Loaded
  BY <1>0, <1>3 DEF Loaded, Sched
<1>4. CASE LoadFails
  <2>1. rd.on => rd.buf # got
    BY <1>4 DEF LoadFails, Sched
  <2>2. want.layer # None => want.buf # got
    BY <1>4 DEF LoadFails, Sched
  <2>3. \A i \in Buf : i # got => hb'[i] = hb[i]
    BY <1>0, <1>4 DEF LoadFails
  <2> QED BY <1>0, <1>4, <2>1, <2>2, <2>3 DEF LoadFails, Sched
<1>5. CASE LoadNow
  <2>1. UNCHANGED <<mode, front, want, rd>> /\ ~mode.overlap /\ pc' \in {"prefetch", "leave"}
    BY <1>5 DEF LoadNow
  <2>2. upload' = None \/ (upload' = 0 /\ mode.device /\ pc' = "prefetch")
    BY <1>5 DEF LoadNow
  <2>3. NoJob /\ front = 0
    BY <2>1 DEF Sched
  <2> QED BY <1>0, <2>1, <2>2, <2>3 DEF Sched
<1>6. CASE Prefetch
  <2>1. CASE ~mode.overlap \/ (\E i \in Buf : hb[i].layer = NextLayer) \/ want.layer # None \/ rd.on
    BY <1>6, <2>1 DEF Prefetch, Sched
  <2>2. CASE mode.overlap /\ NoJob /\ ~ \E i \in Buf : hb[i].layer = NextLayer
    <3>1. Spare \in Buf /\ Spare # front
      BY <1>0 DEF Spare, Buf
    <3>2. want' = [layer |-> NextLayer, buf |-> Spare]
      BY <1>6, <2>2 DEF Prefetch
    <3>4. hb'[Spare] = Aimed(hb[Spare], NextLayer, FromTiers)
      BY <1>0, <1>6, <2>2, <3>1 DEF Prefetch
    <3>3. hb'[Spare].layer = NextLayer /\ ~hb'[Spare].ready /\ ~hb'[Spare].failed
      BY <1>0, <3>1, <3>4, AimedType
    <3> QED BY <1>0, <1>6, <2>2, <3>1, <3>2, <3>3 DEF Prefetch, Sched
  <2> QED BY <2>1, <2>2
<1>7. CASE Leave
  <2>1. \A i \in Buf : hb'[i] = Dropped(i)
    BY <1>7 DEF Leave
  <2>2. rd.on => want.layer = None /\ want.buf = rd.buf
    BY <1>7 DEF Leave, Sched
  <2>3. rd.on => hb'[rd.buf] = hb[rd.buf] /\ want' = want
    BY <1>0, <1>7, <2>1, <2>2 DEF Leave, Dropped, Cancelled
  <2>4. want'.layer # None => want' = want /\ hb'[want.buf] = hb[want.buf]
    BY <1>0, <1>7, <2>1, <2>2 DEF Leave, Dropped, Cancelled, Sched, TypeOK, Job
  <2> QED BY <1>0, <1>7, <2>2, <2>3, <2>4 DEF Leave, Sched
<1>8. CASE Borrow
  <2>1. \A i \in Buf : hb'[i].layer = hb[i].layer /\ hb'[i].ready = hb[i].ready
                         /\ hb'[i].failed = hb[i].failed
    BY <1>0, <1>8 DEF Borrow, HostBuf
  <2> QED BY <1>0, <1>8, <2>1 DEF Borrow, Sched
<1>9. CASE ReaderTake
  BY <1>0, <1>9 DEF ReaderTake, Sched, TypeOK, Job
<1>10. CASE ReadAny
  <2> PICK e \in Expert : ReaderRead(e)
    BY <1>10 DEF ReadAny
  <2>1. \A i \in Buf : hb'[i].layer = hb[i].layer /\ hb'[i].ready = hb[i].ready
                         /\ hb'[i].failed = hb[i].failed
    BY <1>0 DEF ReaderRead, HostBuf
  <2>2. rd'.on /\ rd'.buf = rd.buf /\ rd'.layer = rd.layer
    BY DEF ReaderRead, TypeOK, Read
  <2> QED BY <1>0, <2>1, <2>2 DEF ReaderRead, Sched
<1>11. CASE ReaderDone \/ ReaderFails
  <2>1. \A i \in Buf : hb'[i].layer = hb[i].layer /\ (i # rd.buf => hb'[i] = hb[i])
    BY <1>0, <1>11 DEF ReaderDone, ReaderFails, HostBuf
  <2>2. want.layer # None => want.buf # rd.buf
    BY <1>11 DEF ReaderDone, ReaderFails, Sched
  <2> QED BY <1>0, <1>11, <2>1, <2>2 DEF ReaderDone, ReaderFails, NoRead, Sched
<1>12. CASE Upload
  BY <1>0, <1>12 DEF Upload, Sched
<1> QED BY <1>1, <1>2, <1>3, <1>4, <1>5, <1>6, <1>7, <1>8, <1>9, <1>10, <1>11, <1>12
        DEF Next, Main, Reader

-----------------------------------------------------------------------------
\* What a step makes of a buffer's layer, its flags and its lists, by the reason it changes.
LEMMA ReaderKeeps ==
    ASSUME TypeOK, Reader, NEW i \in Buf
    PROVE  /\ hb'[i].layer = hb[i].layer /\ hb'[i].residents = hb[i].residents
           /\ hb'[i].vres = hb[i].vres
           /\ i # rd.buf \/ ~rd.on => hb'[i] = hb[i]
           /\ UNCHANGED <<mode, front, upload, dev, ram, vram, pc, il, got>>
<1>0. hb \in [Buf -> HostBuf] /\ rd.buf \in Buf
  BY DEF TypeOK, Read
<1>1. CASE ReaderTake
  BY <1>1 DEF ReaderTake
<1>2. CASE ReadAny
  <2> PICK e \in Expert : ReaderRead(e)
    BY <1>2 DEF ReadAny
  <2> QED BY <1>0 DEF ReaderRead, HostBuf
<1>3. CASE ReaderDone \/ ReaderFails
  BY <1>0, <1>3 DEF ReaderDone, ReaderFails, HostBuf
<1> QED BY <1>1, <1>2, <1>3 DEF Reader

\* load_layer() and prefetch_layer() give one buffer a new layer; the other keeps what it has,
\* unless a superseded job leaves it without a layer.
LEMMA LoadAims ==
    ASSUME TypeOK, Sched, Load
    PROVE  \/ /\ \E i \in Buf : hb[i].layer = il
              /\ got' \in Buf /\ hb[got'].layer = il /\ UNCHANGED <<hb, want, rd>>
           \/ /\ \A i \in Buf : hb[i].layer # il
              /\ got' = Target /\ want' = [layer |-> il, buf |-> Target] /\ rd' = rd
              /\ \E b \in HostBuf : hb'[Target] = Aimed(b, il, TRUE)
              /\ \A i \in Buf \ {Target} :
                    \/ hb'[i] = hb[i]
                    \/ want.layer # None /\ want.buf = i /\ hb'[i] = [hb[i] EXCEPT !.layer = None]
<1>0. hb \in [Buf -> HostBuf] /\ want.buf \in Buf /\ Target \in Buf
  BY DEF TypeOK, Job, Target, Buf
<1>1. CASE \E i \in Buf : hb[i].layer = il
  <2> DEFINE staged == {i \in Buf : hb[i].layer = il}
  <2>1. staged # {} /\ staged \in SUBSET Buf
    BY <1>1
  <2>2. Min(staged) \in staged
    BY <2>1, LeastBuf
  <2> QED BY <1>1, <2>1, <2>2 DEF Load
<1>2. CASE \A i \in Buf : hb[i].layer # il
  <2> DEFINE freed == IF want.layer # None THEN [hb EXCEPT ![want.buf].layer = None] ELSE hb
  <2>1. /\ freed \in [Buf -> HostBuf] /\ hb' = [freed EXCEPT ![Target] = Aimed(@, il, TRUE)]
        /\ got' = Target /\ want' = [layer |-> il, buf |-> Target] /\ rd' = rd
    BY <1>0, <1>2, Buffers DEF Load
  <2>2. hb'[Target] = Aimed(freed[Target], il, TRUE) /\ freed[Target] \in HostBuf
    BY <1>0, <2>1
  <2>3. \A i \in Buf \ {Target} : hb'[i] = freed[i]
    BY <1>0, <2>1
  <2>4. \A i \in Buf : freed[i] = hb[i]
                         \/ (want.layer # None /\ want.buf = i /\ freed[i] = [hb[i] EXCEPT !.layer = None])
    BY <1>0
  <2> QED BY <1>2, <2>1, <2>2, <2>3, <2>4
<1> QED BY <1>1, <1>2

LEMMA PrefetchAims ==
    ASSUME TypeOK, Prefetch
    PROVE  \/ UNCHANGED <<hb, want, rd>>
              /\ (~mode.overlap \/ ~NoJob \/ \E i \in Buf : hb[i].layer = NextLayer)
           \/ /\ NoJob /\ rd' = rd
              /\ want' = [layer |-> NextLayer, buf |-> Spare]
              /\ Spare \in Buf /\ Spare # front
              /\ hb'[Spare] = Aimed(hb[Spare], NextLayer, FromTiers)
              /\ \A i \in Buf \ {Spare} : hb'[i] = hb[i]
<1>0. hb \in [Buf -> HostBuf] /\ Spare \in Buf /\ Spare # front
  BY DEF TypeOK, Spare, Buf
<1>1. CASE ~mode.overlap \/ ~NoJob \/ \E i \in Buf : hb[i].layer = NextLayer
  BY <1>1 DEF Prefetch, NoJob
<1>2. CASE mode.overlap /\ NoJob /\ ~ \E i \in Buf : hb[i].layer = NextLayer
  BY <1>0, <1>2 DEF Prefetch, NoJob
<1> QED BY <1>1, <1>2

\* Without overlap a load finds its layer, reads it or fails.
LEMMA LoadNowReads ==
    ASSUME TypeOK, LoadNow
    PROVE  /\ hb'[1] = hb[1]
           /\ \/ hb'[0] = hb[0] /\ hb[0].layer = il /\ hb[0].ready /\ pc' = "prefetch"
              \/ /\ pc' = "prefetch" /\ hb'[0].layer = il /\ hb'[0].ready
                 /\ hb'[0].residents = RamList(il, TRUE) /\ hb'[0].vres = VramList(il, TRUE)
                 /\ \A e \in Expert \ hb'[0].vres : hb'[0].data[e] = il
              \/ /\ "fault" \in mode.events /\ pc' = "leave" /\ hb'[0].layer = None
                 /\ hb'[0].residents = RamList(il, TRUE) /\ hb'[0].vres = VramList(il, TRUE)
           /\ UNCHANGED <<mode, front, want, rd, ram, vram, il>>
           /\ upload' = IF mode.device /\ pc' = "prefetch" THEN 0 ELSE None
<1> DEFINE held == hb[0].layer = il /\ hb[0].ready
           b == Aimed(hb[0], il, TRUE)
           d == [e \in Expert |-> IF e \in b.vres THEN b.data[e] ELSE Bytes(il, b.residents, e)]
           read == [b EXCEPT !.ready = TRUE,
                             !.data = [e \in Expert |-> IF e \in b.vres THEN @[e]
                                                        ELSE Bytes(il, b.residents, e)]]
<1>0. hb \in [Buf -> HostBuf] /\ 0 \in Buf /\ 1 \in Buf /\ hb[0] \in HostBuf /\ il \in Layer
  BY DEF TypeOK, Buf
<1>1. b \in HostBuf /\ b.layer = il /\ b.residents = RamList(il, TRUE) /\ b.vres = VramList(il, TRUE)
  BY <1>0, AimedType
<1>2. /\ read.layer = il /\ read.ready /\ read.residents = b.residents /\ read.vres = b.vres
      /\ read.data = d
  BY <1>1 DEF HostBuf
<1>3. b.residents \subseteq ram[il]
  BY <1>1 DEF RamList
<1>4. \A e \in Expert \ b.vres : d[e] = il
  BY <1>3 DEF Bytes
<1>5. PICK ok \in IF "fault" \in mode.events THEN BOOLEAN ELSE {TRUE} :
        /\ hb' = IF held THEN hb ELSE [hb EXCEPT ![0] = IF ok THEN read ELSE [b EXCEPT !.layer = None]]
        /\ upload' = IF mode.device /\ (held \/ ok) THEN 0 ELSE None
        /\ pc' = IF held \/ ok THEN "prefetch" ELSE "leave"
  BY DEF LoadNow
<1>6. UNCHANGED <<mode, front, want, rd, ram, vram, il>>
  BY DEF LoadNow
<1>7. CASE held
  BY <1>0, <1>5, <1>6, <1>7
<1>8. CASE ~held /\ ok
  <2>1. hb'[0] = read /\ hb'[1] = hb[1]
    BY <1>0, <1>5, <1>8
  <2>2. /\ hb'[0].layer = il /\ hb'[0].ready
        /\ hb'[0].residents = RamList(il, TRUE) /\ hb'[0].vres = VramList(il, TRUE)
    <3> HIDE DEF read, b
    <3> QED BY <1>1, <1>2, <2>1
  <2>3. \A e \in Expert \ hb'[0].vres : hb'[0].data[e] = il
    <3> HIDE DEF read, b, d
    <3> QED BY <1>2, <1>4, <2>1
  <2> HIDE DEF read, b, d, held
  <2> QED BY <1>5, <1>6, <1>8, <2>1, <2>2, <2>3
<1>9. CASE ~held /\ ~ok
  <2>1. hb'[0] = [b EXCEPT !.layer = None] /\ hb'[1] = hb[1]
    BY <1>0, <1>5, <1>9
  <2>2. hb'[0].layer = None /\ hb'[0].residents = b.residents /\ hb'[0].vres = b.vres
    BY <1>1, <2>1 DEF HostBuf
  <2> QED BY <1>1, <1>5, <1>6, <1>9, <2>1, <2>2
<1> QED BY <1>7, <1>8, <1>9

-----------------------------------------------------------------------------
LEMMA ModeKept == [Next]_vars => mode' = mode
BY DEF Next, Main, Reader, ReadAny, Enter, Load, Loaded, LoadFails, LoadNow, Prefetch, Compute,
       ComputeFails, Warm, Leave, Decode, Borrow, Destroy, ReaderTake, ReaderRead, ReaderDone,
       ReaderFails, Upload, vars

LEMMA StepHostOnly == TypeOK /\ Sched /\ HostOnly /\ [Next]_vars => HostOnly'
<1> SUFFICES ASSUME TypeOK, Sched, HostOnly, [Next]_vars PROVE HostOnly'
  OBVIOUS
<1> SUFFICES ASSUME ~mode'.device, NEW i \in Buf PROVE hb'[i].vres = {}
  BY DEF HostOnly
<1>0. /\ ~mode.device /\ hb[i].vres = {} /\ hb \in [Buf -> HostBuf] /\ il \in Layer
      /\ NextLayer \in Layer /\ FromTiers \in BOOLEAN
  <2>1. mode' = mode
    BY ModeKept
  <2> QED BY <2>1, Circle DEF HostOnly, TypeOK, FromTiers
<1>1. \A l, from : VramList(l, from) = {}
  BY <1>0 DEF VramList
<1>2. CASE UNCHANGED hb
  BY <1>0, <1>2
<1>3. CASE Load
  <2>1. \A b \in HostBuf : Aimed(b, il, TRUE).vres = {}
    BY <1>0, <1>1, AimedType
  <2>2. hb[i] \in HostBuf => [hb[i] EXCEPT !.layer = None].vres = hb[i].vres
    BY DEF HostBuf
  <2> QED BY <1>0, <1>3, <2>1, <2>2, LoadAims
<1>4. CASE LoadFails \/ Borrow
  BY <1>0, <1>4, SMTT(30) DEF LoadFails, Borrow, TypeOK, HostBuf
<1>5. CASE LoadNow
  BY <1>0, <1>1, <1>5, LoadNowReads DEF Buf
<1>6. CASE Prefetch
  BY <1>0, <1>1, <1>6, PrefetchAims, AimedType
<1>7. CASE Leave
  BY <1>0, <1>7 DEF Leave, Dropped, HostBuf
<1>8. CASE Reader
  BY <1>0, <1>8, ReaderKeeps
<1> QED BY <1>2, <1>3, <1>4, <1>5, <1>6, <1>7, <1>8
        DEF Next, Main, Enter, Loaded, Compute, ComputeFails, Warm, Decode, Destroy, Upload, vars

\* Good buffers stay good: under the reader, where nothing changes them, and when they are given
\* a layer.
LEMMA GoodRead ==
    ASSUME TypeOK, Sched, Reader, NEW i \in Buf, Good(i)
    PROVE  Good(i)'
<1> SUFFICES ASSUME hb'[i].layer # None
             PROVE  /\ hb'[i].vres \subseteq vram[hb'[i].layer]
                    /\ hb'[i].ready => \A e \in Expert \ hb'[i].vres : hb'[i].data[e] = hb'[i].layer
                    /\ ~hb'[i].ready => hb'[i].residents \subseteq ram[hb'[i].layer]
                    /\ rd'.on /\ rd'.buf = i =>
                          \A e \in Expert \ (hb'[i].vres \cup rd'.todo) : hb'[i].data[e] = hb'[i].layer
  BY ReaderKeeps DEF Good
<1>0. /\ hb \in [Buf -> HostBuf] /\ hb[i] \in HostBuf /\ rd \in Read /\ rd.buf \in Buf
      /\ hb'[i].layer = hb[i].layer /\ hb'[i].vres = hb[i].vres /\ hb'[i].residents = hb[i].residents
  BY ReaderKeeps DEF TypeOK, Read
<1>1. /\ hb[i].vres \subseteq vram[hb[i].layer]
      /\ hb[i].ready => \A e \in Expert \ hb[i].vres : hb[i].data[e] = hb[i].layer
      /\ ~hb[i].ready => hb[i].residents \subseteq ram[hb[i].layer]
      /\ rd.on /\ rd.buf = i =>
            \A e \in Expert \ (hb[i].vres \cup rd.todo) : hb[i].data[e] = hb[i].layer
  BY <1>0 DEF Good
<1>2. CASE ReaderTake
  <2>1. hb' = hb /\ rd'.buf = want.buf /\ rd'.todo = Expert \ hb[want.buf].vres
    BY <1>2 DEF ReaderTake
  <2> QED BY <1>1, <2>1
<1>3. CASE ReadAny
  <2> PICK e \in Expert : ReaderRead(e)
    BY <1>3 DEF ReadAny
  <2>1. rd'.on /\ rd'.buf = rd.buf /\ rd'.todo = rd.todo \ {e} /\ rd.on /\ rd.layer # None
    BY <1>0 DEF ReaderRead, Sched, Read
  <2>2. CASE i # rd.buf
    <3>1. hb'[i] = hb[i]
      BY <1>0, <2>2 DEF ReaderRead
    <3> QED BY <1>1, <2>1, <2>2, <3>1
  <2>3. CASE i = rd.buf
    <3>1. ~hb[i].ready /\ hb[i].layer = rd.layer
      BY <2>1, <2>3 DEF Sched
    <3>2. Bytes(rd.layer, hb[i].residents, e) = rd.layer
      BY <1>1, <3>1 DEF Bytes
    <3>3. hb'[i].ready = hb[i].ready /\ hb'[i].data = [hb[i].data EXCEPT ![e] = rd.layer]
      BY <1>0, <2>3, <3>2 DEF ReaderRead, HostBuf
    <3>4. hb[i].data \in [Expert -> Layer \cup {None}]
      BY <1>0 DEF HostBuf
    <3> QED BY <1>0, <1>1, <2>1, <2>3, <3>1, <3>3, <3>4
  <2> QED BY <2>2, <2>3
<1>4. CASE ReaderDone \/ ReaderFails
  <2>1. ~rd'.on /\ rd.on
    BY <1>4 DEF ReaderDone, ReaderFails, NoRead
  <2>2. CASE i # rd.buf
    <3>1. hb'[i] = hb[i]
      BY <1>0, <1>4, <2>2 DEF ReaderDone, ReaderFails
    <3> QED BY <1>1, <2>1, <3>1
  <2>3. CASE i = rd.buf /\ ReaderDone
    <3>1. rd.todo = {} /\ hb'[i].ready /\ hb'[i].data = hb[i].data
      BY <1>0, <2>3 DEF ReaderDone, Ready, HostBuf
    <3> QED BY <1>0, <1>1, <2>1, <2>3, <3>1
  <2>4. CASE i = rd.buf /\ ReaderFails
    <3>1. ~hb'[i].ready /\ ~hb[i].ready
      BY <1>0, <2>1, <2>4 DEF ReaderFails, HostBuf, Sched
    <3> QED BY <1>0, <1>1, <2>1, <3>1
  <2> QED BY <1>4, <2>2, <2>3, <2>4
<1> QED BY <1>2, <1>3, <1>4 DEF Reader

LEMMA GoodKept ==
    ASSUME NEW i \in Buf, Good(i), rd' = rd,
           hb'[i].layer = None \/ /\ hb'[i] = hb[i]
                                  /\ ram'[hb[i].layer] = ram[hb[i].layer]
                                  /\ vram'[hb[i].layer] = vram[hb[i].layer]
    PROVE  Good(i)'
BY DEF Good

LEMMA GoodAimed ==
    ASSUME TypeOK, NEW i \in Buf, NEW b \in HostBuf, NEW l \in Layer, NEW from \in BOOLEAN,
           hb'[i] = Aimed(b, l, from), UNCHANGED <<mode, ram, vram>>, ~(rd'.on /\ rd'.buf = i)
    PROVE  Good(i)'
<1>1. /\ hb'[i].layer = l /\ ~hb'[i].ready
      /\ hb'[i].residents = RamList(l, from) /\ hb'[i].vres = VramList(l, from)
  BY AimedType
<1> QED BY <1>1 DEF Good, RamList, VramList

\* Where something may fail, no tier holds anything and every buffer stays good.
LEMMA StepBare ==
    ASSUME FaultsAlone, TypeOK, Sched, Bare, [Next]_vars
    PROVE  Bare'
<1>1. mode' = mode
  BY ModeKept
<1> SUFFICES ASSUME "fault" \in mode.events PROVE Bare'
  BY <1>1 DEF Bare
<1>2. "tiers" \notin mode.events /\ "borrow" \notin mode.events
  BY DEF FaultsAlone, TypeOK
<1>3. ram' = ram /\ vram' = vram
  BY <1>2 DEF Next, Main, Reader, ReadAny, Enter, Load, Loaded, LoadFails, LoadNow, Prefetch, Compute,
         ComputeFails, Warm, Leave, Decode, Borrow, Destroy, ReaderTake, ReaderRead, ReaderDone,
         ReaderFails, Upload, vars
<1>4. /\ hb \in [Buf -> HostBuf] /\ want.buf \in Buf /\ il \in Layer /\ NextLayer \in Layer
      /\ FromTiers \in BOOLEAN
      /\ \A i \in Buf : FromFile(i) /\ Good(i)
      /\ \A l \in Layer, from \in BOOLEAN : RamList(l, from) = {} /\ VramList(l, from) = {}
  BY Circle DEF TypeOK, Job, Bare, RamList, VramList, FromTiers
<1>5. SUFFICES ASSUME NEW i \in Buf PROVE FromFile(i)' /\ Good(i)'
  BY <1>1, <1>3 DEF Bare
<1>6. hb[i] \in HostBuf /\ FromFile(i) /\ Good(i)
  BY <1>4
<1>7. CASE UNCHANGED <<hb, rd>>
  BY <1>3, <1>6, <1>7, GoodKept DEF FromFile
<1>8. CASE LoadFails \/ Leave
  <2>1. rd' = rd /\ (hb'[i] = hb[i] \/ (hb'[i].layer = None /\ hb'[i].residents = {} /\ hb'[i].vres = {}))
    <3>1. CASE LoadFails
      BY <1>4, <1>6, <3>1 DEF LoadFails, FromFile, HostBuf
    <3>2. CASE Leave
      BY <1>4, <1>6, <3>2 DEF Leave, Dropped, FromFile
    <3> QED BY <1>8, <3>1, <3>2
  <2> QED BY <1>3, <1>6, <2>1, GoodKept DEF FromFile
<1>9. CASE Load
  <2>1. \A b \in HostBuf : Aimed(b, il, TRUE).residents = {} /\ Aimed(b, il, TRUE).vres = {}
    <3>1. RamList(il, TRUE) = {} /\ VramList(il, TRUE) = {} /\ il \in Layer
      BY <1>4
    <3> QED BY <3>1, AimedType
  <2>2. rd' = rd /\ (rd.on => Target # rd.buf /\ want.layer = None)
    BY <1>9 DEF Load, Sched, Target, TypeOK, Job, Buf
  <2>3. CASE UNCHANGED <<hb, want, rd>>
    BY <1>7, <2>3
  <2>4. CASE i = Target /\ \E b \in HostBuf : hb'[Target] = Aimed(b, il, TRUE)
    BY <1>1, <1>3, <1>4, <2>1, <2>2, <2>4, GoodAimed DEF FromFile
  <2>5. CASE hb'[i] = hb[i] \/ hb'[i] = [hb[i] EXCEPT !.layer = None]
    <3>1. hb'[i] = hb[i] \/ (hb'[i].layer = None /\ hb'[i].residents = {} /\ hb'[i].vres = {})
      BY <1>6, <2>5 DEF FromFile, HostBuf
    <3> QED BY <1>3, <1>6, <2>2, <3>1, GoodKept DEF FromFile
  <2> QED BY <1>9, <2>3, <2>4, <2>5, LoadAims
<1>10. CASE LoadNow
  <2>1. rd' = rd /\ hb'[1] = hb[1] /\ ~rd.on
    BY <1>10, LoadNowReads DEF Sched, NoJob, LoadNow
  <2>2. CASE i = 1 \/ hb'[0] = hb[0]
    BY <1>3, <1>6, <2>1, <2>2, GoodKept DEF FromFile, Buf
  <2>3. CASE i = 0 /\ hb'[0] # hb[0]
    <3>1. hb'[0].residents = {} /\ hb'[0].vres = {}
      BY <1>4, <1>10, <2>3, LoadNowReads
    <3>2. Good(0)'
      BY <1>10, <2>1, <2>3, <3>1, LoadNowReads DEF Good
    <3> QED BY <2>3, <3>1, <3>2 DEF FromFile
  <2> QED BY <2>2, <2>3 DEF Buf
<1>11. CASE Prefetch
  <2>1. CASE UNCHANGED <<hb, want, rd>>
    BY <1>7, <2>1
  <2>2. CASE i = Spare /\ NoJob /\ rd' = rd /\ hb'[Spare] = Aimed(hb[Spare], NextLayer, FromTiers)
    <3>1. hb'[i].residents = {} /\ hb'[i].vres = {}
      BY <1>4, <1>6, <2>2, AimedType
    <3> QED BY <1>1, <1>3, <1>4, <1>6, <2>2, <3>1, GoodAimed DEF FromFile, NoJob
  <2>3. CASE rd' = rd /\ hb'[i] = hb[i]
    BY <1>3, <1>6, <2>3, GoodKept DEF FromFile
  <2> QED BY <1>11, <2>1, <2>2, <2>3, PrefetchAims
<1>12. CASE Reader
  BY <1>6, <1>12, GoodRead, ReaderKeeps DEF FromFile
<1> QED BY <1>2, <1>7, <1>8, <1>9, <1>10, <1>11, <1>12
        DEF Next, Main, Enter, Loaded, Compute, ComputeFails, Warm, Decode, Borrow, Destroy, Upload, vars

\* Without overlap the buffer is never ahead of the layer that is loaded.
LEMMA StepDirect ==
    ASSUME TypeOK, Sched, FrontHolds, Direct, [Next]_vars
    PROVE  Direct'
<1>1. mode' = mode
  BY ModeKept
<1> SUFFICES ASSUME ~mode.overlap, "fault" \notin mode.events,
                    pc' \in {"idle", "load", "leave"}
             PROVE  hb'[0].layer \in {None, PrevLayer'} /\ (pc' # "load" => il' = 0)
  BY <1>1 DEF Direct
<1>2. hb[0] \in HostBuf /\ hb \in [Buf -> HostBuf] /\ 0 \in Buf /\ il \in Layer
  BY DEF TypeOK, Buf
<1>3. NoJob /\ front = 0 /\ pc # "wait" /\ upload # 1
  BY DEF Sched
<1>4. CASE Warm
  <2>1. hb[0].layer = il /\ hb' = hb
    BY <1>3, <1>4 DEF Warm, FrontHolds, InUse
  <2>2. il' = NextLayer /\ (pc' = "leave" => NextLayer = 0)
    BY <1>2, <1>4, Circle, Model DEF Warm, Layer
  <2>3. PrevLayer' = il
    BY <1>2, <2>2, Circle, Model DEF PrevLayer, Layer
  <2> QED BY <1>4, <2>1, <2>2, <2>3 DEF Warm
<1>5. CASE pc \in {"idle", "load", "leave"} /\ il' = il /\ hb'[0].layer \in {None, hb[0].layer} /\ (pc = "load" => pc' = "load")
  BY <1>5 DEF Direct, PrevLayer
<1>6. CASE Enter \/ Leave
  <2>1. pc # "load" /\ il = 0 /\ il' = 0 /\ hb'[0].layer \in {None, hb[0].layer}
    <3>1. CASE Enter
      BY <3>1 DEF Enter, Direct
    <3>2. CASE Leave
      BY <1>2, <3>2 DEF Leave, Dropped, HostBuf, Direct
    <3> QED BY <1>6, <3>1, <3>2
  <2> QED BY <1>6, <2>1 DEF Enter, Leave, Direct, PrevLayer
<1>7. CASE Borrow \/ Decode
  BY <1>2, <1>7 DEF Borrow, Decode, HostBuf, Direct, PrevLayer
<1>8. CASE LoadNow
  BY <1>8, LoadNowReads
<1>9. CASE Reader
  BY <1>3, <1>9 DEF Reader, ReaderTake, ReadAny, ReaderRead, ReaderDone, ReaderFails, NoJob
<1> QED BY <1>3, <1>4, <1>5, <1>6, <1>7, <1>8, <1>9
        DEF Next, Main, Load, Loaded, LoadFails, Prefetch, Compute, ComputeFails, Destroy, Upload, vars

\* The front holds its layer, and the device after the upload.
LEMMA StepFrontHolds ==
    ASSUME TypeOK, Sched, HostOnly, FrontHolds, Alternates, Direct, Bare, [Next]_vars
    PROVE  FrontHolds'
<1> SUFFICES ASSUME pc' \in InUse
             PROVE  /\ hb'[front'].layer = il' /\ hb'[front'].vres \subseteq vram'[il']
                    /\ hb'[front'].ready
                    /\ \A e \in Expert \ hb'[front'].vres : hb'[front'].data[e] = il'
                    /\ mode'.device /\ upload' = None => \A e \in Expert : dev'[e] = il'
  BY DEF FrontHolds
<1>0. /\ hb \in [Buf -> HostBuf] /\ front \in Buf /\ got \in Buf /\ rd.buf \in Buf
      /\ il \in Layer /\ None \notin Layer /\ None \notin Buf
  BY Model DEF TypeOK, Read
<1>1. CASE Loaded
  <2>1. Good(got) /\ mode.overlap
    BY <1>0, <1>1 DEF Loaded, Sched, Alternates, Alternating, Bare
  <2>2. /\ hb[got].layer = il /\ hb[got].ready /\ front' = got
        /\ upload' = IF mode.device THEN got ELSE None
        /\ UNCHANGED <<mode, hb, il, vram>>
    BY <1>1 DEF Loaded
  <2> QED BY <1>0, <2>1, <2>2 DEF Good
<1>2. CASE LoadNow
  <2>1. /\ pc' = "prefetch" /\ upload' = IF mode.device THEN 0 ELSE None
        /\ UNCHANGED <<mode, front, il, ram, vram>> /\ front = 0 /\ pc = "load" /\ ~mode.overlap
    BY <1>2, LoadNowReads DEF LoadNow, Sched, InUse
  <2>2. CASE hb'[0] = hb[0] /\ hb[0].layer = il /\ hb[0].ready
    <3>1. "fault" \in mode.events
      BY <1>0, <2>1, <2>2, Circle DEF Direct
    <3>2. Good(0)
      BY <3>1 DEF Bare, Buf
    <3> QED BY <1>0, <2>1, <2>2, <3>2 DEF Good
  <2>3. CASE /\ hb'[0].layer = il /\ hb'[0].ready /\ hb'[0].vres = VramList(il, TRUE)
             /\ \A e \in Expert \ hb'[0].vres : hb'[0].data[e] = il
    BY <1>0, <2>1, <2>3 DEF VramList
  <2> QED BY <1>2, <2>1, <2>2, <2>3, LoadNowReads
<1>3. CASE Prefetch
  <2>1. hb'[front] = hb[front]
    BY <1>0, <1>3, PrefetchAims
  <2> QED BY <1>3, <2>1 DEF Prefetch, FrontHolds, InUse
<1>4. CASE Reader
  <2>1. rd.on => rd.buf # front
    BY <1>0, <1>4, ReaderKeeps DEF Sched
  <2>2. hb'[front] = hb[front] /\ UNCHANGED <<mode, front, upload, dev, vram, pc, il>>
    BY <1>0, <1>4, <2>1, ReaderKeeps
  <2> QED BY <2>2 DEF FrontHolds
<1>5. CASE Upload
  <2>1. /\ upload = front /\ dev' = Mirrored(hb[front])
        /\ UNCHANGED <<mode, hb, front, vram, pc, il>>
    BY <1>5 DEF Upload, Sched, InUse
  <2>2. \A e \in Expert : Mirrored(hb[front])[e] = il
    BY <2>1 DEF Mirrored, FrontHolds
  <2> QED BY <2>1, <2>2 DEF FrontHolds
<1>6. CASE Compute \/ UNCHANGED vars
  BY <1>6 DEF Compute, vars, FrontHolds, InUse
<1> QED BY <1>1, <1>2, <1>3, <1>4, <1>5, <1>6
        DEF Next, Main, Enter, Load, LoadFails, ComputeFails, Warm, Leave, Decode, Borrow, Destroy, InUse

\* The buffers alternate.
LEMMA StepAlternates ==
    ASSUME FaultsAlone, BorrowsEven, TypeOK, Sched, FrontHolds, Alternates, [Next]_vars
    PROVE  Alternates'
<1>1. mode' = mode
  BY ModeKept
<1> SUFFICES ASSUME mode.overlap, "fault" \notin mode.events, pc' # "down"
             PROVE  Alternates'
  BY <1>1 DEF Alternates
<1> USE DEF NoJob, InUse
<1>2. /\ hb \in [Buf -> HostBuf] /\ front \in Buf /\ got \in Buf /\ rd.buf \in Buf /\ want.buf \in Buf
      /\ Ahead \in Buf /\ Ahead # front /\ \A b \in Buf : b = front \/ b = Ahead
      /\ il \in Layer /\ None \notin Layer /\ None \notin Buf /\ FromTiers \in BOOLEAN
  BY Model DEF TypeOK, Read, Job, Ahead, Buf, FromTiers
<1>3. CASE pc = "down"
  BY <1>3 DEF Next, Main, Reader, ReadAny, Enter, Load, Loaded, LoadFails, LoadNow, Prefetch, Compute,
         ComputeFails, Warm, Leave, Decode, Borrow, Destroy, ReaderTake, ReaderRead, ReaderDone,
         ReaderFails, Upload, vars, Alternates, Sched
<1> SUFFICES ASSUME pc # "down" PROVE Alternates'
  BY <1>3
<1>4. PICK a \in Buf : a = Ahead
  BY <1>2
<1>5. Ahead' \in Buf
  <2>1. front' \in Buf
    BY StepTypeOK DEF TypeOK
  <2>2. Ahead' = 1 - front'
    BY DEF Ahead
  <2>3. \A b \in Buf : 1 - b \in Buf
    BY DEF Buf
  <2> QED BY <2>1, <2>2, <2>3
<1>6. SUFFICES ASSUME NEW x \in Buf, x = Ahead' PROVE Alternating(x)'
  BY <1>1, <1>5 DEF Alternates, Alternating, Good, FromFile
<1>7. Alternating(a)
  BY <1>4 DEF Alternates
<1> USE DEF Alternating
<1>8. front' = front => x = a
  BY <1>4, <1>6 DEF Ahead
<1>9. CASE Enter \/ Compute \/ Upload \/ UNCHANGED vars
  <2>1. /\ UNCHANGED <<mode, hb, front, want, rd, ram, vram, got, il>>
        /\ \/ pc' = pc /\ upload' \in {upload, None}
           \/ pc = "idle" /\ pc' = "load" /\ il = 0
           \/ pc = "moe" /\ pc' = "warm" /\ upload' = upload
    BY <1>9, <1>7 DEF Enter, Compute, Upload, vars
  <2>2. pc' # "prefetch" => Good(a)'
    BY <1>7, <2>1, GoodKept
  <2>3. PrevLayer' = PrevLayer /\ NextLayer' = NextLayer /\ FromFile(a)' = FromFile(a)
    BY <2>1 DEF PrevLayer, NextLayer, FromFile
  <2> QED BY <1>7, <1>8, <2>1, <2>2, <2>3
<1>10. CASE Load
  <2>1. /\ UNCHANGED <<mode, front, upload, ram, vram, il, rd>> /\ pc = "load" /\ pc' = "wait"
        /\ PrevLayer' = PrevLayer
    BY <1>10 DEF Load, PrevLayer
  <2>2. hb[front].layer # il
    BY <1>2, <1>7, <2>1, Circle
  <2>3. CASE \E i \in Buf : hb[i].layer = il
    <3>1. got' = a /\ UNCHANGED <<hb, want>> /\ hb[a].layer = il
      BY <1>2, <1>10, <1>4, <2>2, <2>3, LoadAims
    <3>2. Good(a)'
      BY <1>7, <2>1, <3>1, GoodKept
    <3> QED BY <1>7, <1>8, <2>1, <3>1, <3>2
  <2>4. CASE \A i \in Buf : hb[i].layer # il
    <3>1. NoJob /\ Target = a
      BY <1>4, <1>7, <2>1, <2>4 DEF Target, Ahead
    <3>2. PICK b \in HostBuf : hb'[a] = Aimed(b, il, TRUE)
      BY <1>10, <2>4, <3>1, LoadAims
    <3>3. /\ got' = a /\ want' = [layer |-> il, buf |-> a]
          /\ hb'[front] = hb[front]
      BY <1>2, <1>10, <1>4, <2>4, <3>1, LoadAims
    <3>4. hb'[a].layer = il /\ ~hb'[a].failed
      <4>1. Aimed(b, il, TRUE).layer = il /\ ~Aimed(b, il, TRUE).failed
        BY <1>2, AimedType
      <4> QED BY <3>2, <4>1
    <3>5. Good(a)'
      BY <1>2, <2>1, <3>1, <3>2, GoodAimed
    <3> QED BY <1>2, <1>4, <1>7, <1>8, <2>1, <3>1, <3>3, <3>4, <3>5
  <2> QED BY <2>3, <2>4
<1>11. CASE Loaded
  <2>1. /\ UNCHANGED <<hb, want, rd, il>> /\ pc = "wait" /\ pc' = "prefetch" /\ front' = got /\ got = a
        /\ hb[a].ready
    BY <1>11, <1>7 DEF Loaded
  <2>2. NoJob
    BY <1>2, <1>7, <2>1 DEF Sched
  <2>3. x = front
    BY <1>2, <1>4, <1>6, <2>1 DEF Ahead, Buf
  <2>4. "borrow" \in mode.events => front' = (il + 1) % 2
    <3>1. "borrow" \in mode.events => front = il % 2
      BY <1>7, <2>1
    <3>2. il \in Nat /\ front' = 1 - front
      BY <1>2, <1>4, <2>1, Model DEF Layer, Ahead
    <3> QED BY <3>1, <3>2
  <2>5. PrevLayer' = PrevLayer
    BY <2>1 DEF PrevLayer
  <2> QED BY <1>1, <1>7, <2>1, <2>2, <2>3, <2>4, <2>5
<1>12. CASE LoadFails \/ ComputeFails \/ LoadNow \/ Destroy
  BY <1>12, <1>2, <1>7 DEF LoadFails, ComputeFails, LoadNow, Destroy
<1>13. CASE Prefetch
  <2>1. NoJob /\ hb[a].layer # NextLayer /\ hb[front].layer # NextLayer
    BY <1>2, <1>13, <1>7, Circle DEF Prefetch, FrontHolds
  <2>2. /\ UNCHANGED <<mode, front, ram, vram, il, rd>> /\ pc' = "moe" /\ pc = "prefetch" /\ Spare = a
        /\ NextLayer' = NextLayer
    BY <1>13, <1>4 DEF Prefetch, Spare, Ahead, NextLayer
  <2>3. /\ hb'[a] = Aimed(hb[a], NextLayer, FromTiers) /\ want' = [layer |-> NextLayer, buf |-> a]
        /\ hb'[front] = hb[front]
    BY <1>2, <1>13, <1>4, <2>1, <2>2, PrefetchAims
  <2>4. NextLayer \in Layer /\ (NextLayer = 0 => ~FromTiers)
    BY <1>2, Circle, Model DEF FromTiers, Layer
  <2>5. /\ hb'[a].layer = NextLayer /\ ~hb'[a].failed /\ Good(a)'
        /\ hb'[a].residents = RamList(NextLayer, FromTiers) /\ hb'[a].vres = VramList(NextLayer, FromTiers)
    BY <1>2, <2>1, <2>2, <2>3, <2>4, AimedType, GoodAimed
  <2>6. NextLayer = 0 => FromFile(a)'
    BY <2>4, <2>5 DEF FromFile, RamList, VramList
  <2> QED BY <1>2, <1>4, <1>7, <1>8, <2>1, <2>2, <2>3, <2>5, <2>6
<1>14. CASE Warm
  <2>1. /\ UNCHANGED <<mode, hb, front, want, rd, upload>> /\ pc = "warm" /\ pc' \in {"load", "leave"}
        /\ il' = NextLayer /\ (pc' = "leave" => NextLayer = 0)
        /\ \A l \in Layer \ {il} : ram'[l] = ram[l] /\ vram'[l] = vram[l]
    BY <1>2, <1>14, Circle, Model DEF Warm, TypeOK, Layer
  <2>2. PrevLayer' = il /\ NextLayer # il /\ NextLayer \in Layer
    BY <1>2, <2>1, Circle, Model DEF PrevLayer, Layer
  <2>3. Good(a)' /\ FromFile(a)' = FromFile(a)
    BY <1>7, <2>1, <2>2, GoodKept DEF FromFile
  <2>4. upload = None /\ hb[front].layer = il
    BY <2>1 DEF Sched, FrontHolds
  <2>5. "borrow" \in mode.events => front = il' % 2
    <3> SUFFICES ASSUME "borrow" \in mode.events PROVE front = NextLayer % 2
      BY <2>1
    <3>1. NLayer % 2 = 0 /\ front = (il + 1) % 2 /\ il \in Nat
      BY <1>2, <1>7, <2>1, Model DEF BorrowsEven, TypeOK, Layer
    <3> QED BY <1>2, <3>1, Circle
  <2> QED BY <1>7, <1>8, <2>1, <2>2, <2>3, <2>4, <2>5
<1>15. CASE Leave
  <2>1. /\ UNCHANGED <<mode, front, rd, ram, vram, got>> /\ pc = "leave" /\ pc' = "idle" /\ il' = il /\ il = 0
        /\ upload' = None /\ \A i \in Buf : hb'[i] = Dropped(i)
    BY <1>15, <1>7 DEF Leave
  <2>2. hb[a].layer = 0 /\ FromFile(a)
    BY <1>7, <2>1
  <2>3. hb'[a] = hb[a]
    BY <2>1, <2>2 DEF Dropped, FromFile
  <2>4. \A b \in Buf : hb'[b].layer \in {None, hb[b].layer} /\ ~hb'[b].failed
    <3> TAKE b \in Buf
    <3>1. hb[b] \in HostBuf /\ ~hb[b].failed
      BY <1>2, <1>7
    <3>2. /\ [hb[b] EXCEPT !.layer = None, !.ready = FALSE, !.vres = {}].layer = None
          /\ ~[hb[b] EXCEPT !.layer = None, !.ready = FALSE, !.vres = {}].failed
      BY <3>1 DEF HostBuf
    <3> QED BY <2>1, <3>1, <3>2 DEF Dropped
  <2>5. want'.layer # None => want' = want
    BY <1>15 DEF Leave, TypeOK, Job
  <2>6. Good(a)' /\ FromFile(a)' = FromFile(a) /\ PrevLayer' = PrevLayer
    BY <1>7, <2>1, <2>3, GoodKept DEF FromFile, PrevLayer
  <2> QED BY <1>2, <1>7, <1>8, <2>1, <2>2, <2>3, <2>4, <2>5, <2>6
<1>16. CASE Decode
  <2>1. UNCHANGED <<mode, hb, front, want, rd, upload, pc, il, got>> /\ pc = "idle" /\ il = 0
    BY <1>16, <1>7 DEF Decode
  <2>2. Good(a)'
    BY <1>7, <2>1 DEF Good, FromFile
  <2>3. PrevLayer' = PrevLayer /\ FromFile(a)' = FromFile(a)
    BY <2>1 DEF PrevLayer, FromFile
  <2> QED BY <1>7, <1>8, <2>1, <2>2, <2>3
<1>17. CASE Borrow
  <2>1. /\ UNCHANGED <<mode, front, want, rd, upload, ram, vram, pc, il, got>> /\ pc = "idle" /\ il = 0
        /\ "borrow" \in mode.events /\ hb' = [hb EXCEPT ![0].data = Junk]
    BY <1>17, <1>7 DEF Borrow
  <2>2. a = 1 /\ hb'[a] = hb[a]
    BY <1>2, <1>4, <1>7, <2>1 DEF Ahead, Buf
  <2>3. \A b \in Buf : hb'[b].layer = hb[b].layer /\ hb'[b].failed = hb[b].failed
    BY <1>2, <2>1 DEF HostBuf
  <2>4. Good(a)' /\ PrevLayer' = PrevLayer /\ FromFile(a)' = FromFile(a)
    BY <1>7, <2>1, <2>2, GoodKept DEF PrevLayer, FromFile
  <2> QED BY <1>2, <1>7, <1>8, <2>1, <2>2, <2>3, <2>4
<1>18. CASE Reader
  <2>1. /\ UNCHANGED <<front, upload, ram, vram, pc, il, got>>
        /\ \A b \in Buf : hb'[b].layer = hb[b].layer /\ hb'[b].residents = hb[b].residents
                          /\ hb'[b].vres = hb[b].vres
    BY <1>18, ReaderKeeps
  <2>2. \A b \in Buf : ~hb'[b].failed
    <3>1. CASE ReaderTake
      BY <1>7, <3>1 DEF ReaderTake
    <3>2. CASE ReadAny
      BY <1>2, <1>7, <3>2 DEF ReadAny, ReaderRead, HostBuf
    <3>3. CASE ReaderDone
      BY <1>2, <1>7, <3>3 DEF ReaderDone, HostBuf
    <3> QED BY <1>18, <3>1, <3>2, <3>3 DEF Reader, ReaderFails
  <2>3. /\ ~NoJob
        /\ \A b \in Buf : (rd'.on /\ rd'.buf = b) \/ (want'.layer # None /\ want'.buf = b) => b = a
    BY <1>2, <1>7, <1>18 DEF Reader, ReaderTake, ReadAny, ReaderRead, ReaderDone, ReaderFails, NoRead, TypeOK,
                             Job, Read
  <2>4. Good(a) => Good(a)'
    BY <1>18, GoodRead
  <2>5. PrevLayer' = PrevLayer /\ NextLayer' = NextLayer /\ FromFile(a)' = FromFile(a)
    BY <2>1 DEF PrevLayer, NextLayer, FromFile
  <2> QED BY <1>1, <1>2, <1>7, <1>8, <2>1, <2>2, <2>3, <2>4, <2>5
<1> QED BY <1>9, <1>10, <1>11, <1>12, <1>13, <1>14, <1>15, <1>16, <1>17, <1>18 DEF Next, Main

-----------------------------------------------------------------------------
\* The reader never writes the buffer that is in use or that the device still reads, however the
\* streamer was initialised, whatever fails and whoever borrows.
THEOREM BuffersApart == Spec => []ReaderApart
<1>1. Init => TypeOK /\ Sched
  BY InitTypeOK, InitSched
<1>2. TypeOK /\ Sched /\ [Next]_vars => (TypeOK /\ Sched)'
  BY StepTypeOK, StepSched
<1>3. TypeOK /\ Sched => ReaderApart
  <2>1. None \notin Buf
    BY Model
  <2> QED BY <2>1 DEF TypeOK, Sched, ReaderApart, InUse, Read
<1> QED BY <1>1, <1>2, <1>3, PTL DEF Spec

LEMMA InitCInv == Init => CInv
<1> SUFFICES ASSUME Init PROVE CInv
  OBVIOUS
<1>1. TypeOK /\ Sched
  BY InitTypeOK, InitSched
<1>2. /\ pc = "idle" /\ il = 0 /\ front = 0 /\ upload = None
      /\ \A i \in Buf : hb[i].layer = None /\ ~hb[i].failed /\ hb[i].residents = {} /\ hb[i].vres = {}
      /\ NoJob
  BY DEF Init, NoJob, NoRead
<1>3. Ahead = 1 /\ Ahead \in Buf /\ front \in Buf /\ 0 \in Buf
  BY <1>2 DEF Ahead, Buf
<1>4. \A i \in Buf : Good(i) /\ FromFile(i)
  BY <1>2 DEF Good, FromFile
<1>5. HostOnly /\ FrontHolds /\ Direct /\ Bare
  BY <1>2, <1>3, <1>4 DEF HostOnly, FrontHolds, InUse, Direct, Bare, Init
<1>6. Alternates
  BY <1>2, <1>3, <1>4 DEF Alternates, Alternating, InUse, NoJob
<1> QED BY <1>1, <1>5, <1>6 DEF CInv

LEMMA StepCInv == ASSUME FaultsAlone, BorrowsEven PROVE CInv /\ [Next]_vars => CInv'
BY StepTypeOK, StepSched, StepHostOnly, StepFrontHolds, StepAlternates, StepDirect, StepBare DEF CInv

\* Where failures come alone and a borrower finds the other buffer read ahead, the front
\* buffer holds its layer after the MoE.
LEMMA AfterMoe ==
    ASSUME FaultsAlone, BorrowsEven
    PROVE  Spec => [](ComputesOnLayer /\ WarmsFromLayer)
<1>1. CInv => ComputesOnLayer /\ WarmsFromLayer
  <2> SUFFICES ASSUME CInv, pc = "warm"
               PROVE  /\ \A e \in Expert : (IF mode.device THEN dev ELSE hb[front].data)[e] = il
                      /\ \A e \in Expert \ vram[il] : hb[front].data[e] = il
    BY DEF ComputesOnLayer, WarmsFromLayer
  <2>1. upload = None /\ front \in Buf
    BY DEF CInv, Sched, TypeOK
  <2>2. /\ hb[front].vres \subseteq vram[il]
        /\ \A e \in Expert \ hb[front].vres : hb[front].data[e] = il
        /\ mode.device => \A e \in Expert : dev[e] = il
        /\ ~mode.device => hb[front].vres = {}
    BY <2>1 DEF CInv, FrontHolds, HostOnly, InUse
  <2> QED BY <2>2
<1> QED BY <1>1, InitCInv, StepCInv, PTL DEF Spec

\* A layer's MoE runs on that layer's experts, read from the file or taken from the tiers.
THEOREM OnLayer == ASSUME FaultsAlone, BorrowsEven PROVE Spec => []ComputesOnLayer
BY AfterMoe, PTL

\* What warm() copies into the RAM tier is that layer's.
THEOREM WarmsOwn == ASSUME FaultsAlone, BorrowsEven PROVE Spec => []WarmsFromLayer
BY AfterMoe, PTL
=============================================================================
