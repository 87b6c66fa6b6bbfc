--------------------------- MODULE BiosThunk_proofs ---------------------------
(***************************************************************************)
(* Proofs about bios_read_sectors() for every disk, request, buffer and    *)
(* chunk size, and every number of attempts, on firmware that leaves the   *)
(* disk address packet alone when a transfer fails; and about the way      *)
(* between the loader and the BIOS: the processor is always in the state   *)
(* that what runs needs, and the reads are right on this processor too.    *)
(***************************************************************************)
EXTENDS BiosThunk, TLAPS

-----------------------------------------------------------------------------
(* The reads: BiosDisk                                                     *)

\* The loop cuts chunks that are not empty and fit the bounce buffer.
LEMMA ChunkBounds ==
    ASSUME NEW n \in Nat, n > 0
    PROVE  ChunkOf(n) \in 1 .. n /\ ChunkOf(n) \in 1 .. MaxSectorsChunk
BY DiskAssumption DEF ChunkOf

LEMMA InitIInv == Init => IInv
BY DiskAssumption, SMT
   DEF Init, IInv, TypeOK, LoopAhead, PacketIsChunk, BounceIsChunk,
       DestIsPrefix, OkIsComplete, Content, BufIdx, BounceIdx

\* What INT 13h stores leaves the bounce buffer a bounce buffer.
LEMMA TransferredType ==
    ASSUME TypeOK, NEW k \in Nat
    PROVE  Transferred(k) \in [BounceIdx -> Content]
BY DEF TypeOK, Transferred, BounceIdx, Content

\* One step per action; the steps that touch the request, the bounce buffer
\* or the caller's buffer are split by the conjuncts they can disturb.
LEMMA StepIInv ==
    ASSUME ~PacketCountUpdated
    PROVE  IInv /\ [Next]_vars => IInv'
<1> SUFFICES ASSUME IInv, [Next]_vars PROVE IInv'
    OBVIOUS
<1> USE DiskAssumption
<1> USE DEF IInv, LoopAhead, PacketIsChunk, BounceIsChunk, DestIsPrefix,
            OkIsComplete
<1>1. CASE Call
  <2>1. PICK l \in Lbas, n \in Counts :
           req' = [lba |-> l, count |-> n] /\ lba' = l /\ count' = n
        BY <1>1 DEF Call
  <2>2. l \in Nat /\ n \in 0 .. BufSectors
        OBVIOUS
  <2>3. TypeOK'
        BY <1>1, <2>1, <2>2 DEF Call, TypeOK, Content, BufIdx
  <2> QED BY <1>1, <2>1, <2>2, <2>3 DEF Call, BufIdx
<1>2. CASE StartChunk
  <2>1. ChunkOf(count) \in 1 .. count /\ ChunkOf(count) \in 1 .. MaxSectorsChunk
        BY <1>2, ChunkBounds DEF StartChunk, TypeOK
  <2>2. TypeOK'
        BY <1>2, <2>1 DEF StartChunk, TypeOK
  <2> QED BY <1>2, <2>1, <2>2 DEF StartChunk, BufIdx
<1>3. CASE CopyChunk
  <2>1. /\ pos \in Nat /\ chunk \in Nat /\ lba \in Nat /\ req.lba \in Nat
        /\ count \in Nat /\ req.count \in 0 .. BufSectors
        /\ pos + chunk <= req.count /\ lba = req.lba + pos
        /\ count = req.count - pos
        BY <1>3 DEF CopyChunk, TypeOK
  <2>2. \A i \in 0 .. chunk - 1 : bounce[i] = req.lba + pos + i
        BY <1>3, <2>1 DEF CopyChunk
  <2>3. ASSUME NEW i \in BufIdx
        PROVE  buffer'[i] = IF i < pos + chunk THEN req.lba + i ELSE NoData
    <3>1. i \in Nat
          BY DEF BufIdx
    <3>2. CASE i \in pos .. pos + chunk - 1
      <4>1. i - pos \in 0 .. chunk - 1
            BY ONLY <2>1, <3>1, <3>2, SMT
      <4>2. bounce[i - pos] = req.lba + pos + (i - pos)
            BY ONLY <2>2, <4>1
      <4>3. req.lba + pos + (i - pos) = req.lba + i /\ i < pos + chunk
            BY ONLY <2>1, <3>1, <3>2, SMT
      <4>4. buffer'[i] = bounce[i - pos]
            BY ONLY <1>3, <3>2 DEF CopyChunk
      <4> QED BY ONLY <4>2, <4>3, <4>4
    <3>3. CASE i \notin pos .. pos + chunk - 1
      <4>1. buffer'[i] = buffer[i]
            BY ONLY <1>3, <3>3 DEF CopyChunk
      <4>2. buffer[i] = IF i < pos THEN req.lba + i ELSE NoData
            BY DEF DestIsPrefix
      <4>3. (i < pos + chunk) <=> (i < pos)
            BY ONLY <2>1, <3>1, <3>3, SMT
      <4> QED BY ONLY <4>1, <4>2, <4>3
    <3> QED BY ONLY <3>2, <3>3
  <2>4. pos' = pos + chunk /\ req' = req
        BY <1>3 DEF CopyChunk
  <2>5. DestIsPrefix'
        BY ONLY <2>3, <2>4 DEF DestIsPrefix, BufIdx
  <2>6. buffer' \in [BufIdx -> Content]
    <3>1. \A i \in BufIdx : buffer'[i] \in Content
          BY ONLY <2>1, <2>3 DEF Content, BufIdx
    <3>2. buffer' = [i \in BufIdx |-> buffer'[i]]
          BY ONLY <1>3 DEF CopyChunk
    <3> QED BY ONLY <3>1, <3>2
  <2>7. TypeOK'
        BY <1>3, <2>1, <2>6 DEF CopyChunk, TypeOK
  <2>8. LoopAhead' /\ PacketIsChunk' /\ BounceIsChunk' /\ OkIsComplete'
        BY <1>3, <2>1, <2>4 DEF CopyChunk, TypeOK
  <2> QED BY ONLY <2>5, <2>7, <2>8 DEF IInv
<1>4. CASE ReturnOk
      BY <1>4 DEF ReturnOk, TypeOK
<1>5. CASE Resume
      BY <1>5 DEF Resume, TypeOK
<1>6. CASE Int13Ok
  <2>1. bounce' \in [BounceIdx -> Content]
        BY <1>6, TransferredType DEF Int13Ok, TypeOK
  <2>2. \A i \in 0 .. chunk - 1 : bounce'[i] = lba + i
    <3> TAKE i \in 0 .. chunk - 1
    <3>1. chunk \in 1 .. MaxSectorsChunk /\ lba \in Nat
          BY <1>6 DEF Int13Ok, TypeOK
    <3>2. i \in BounceIdx /\ i < chunk
          BY ONLY DiskAssumption, <3>1, SMT DEF BounceIdx
    <3>3. dap.lba = lba /\ dap.sectors = chunk
          BY <1>6 DEF Int13Ok
    <3> QED BY ONLY <1>6, <3>2, <3>3 DEF Int13Ok, Transferred
  <2>3. TypeOK'
        BY <1>6, <2>1 DEF Int13Ok, TypeOK
  <2> QED BY <1>6, <2>2, <2>3 DEF Int13Ok, BufIdx
<1>7. CASE Int13Fail
  <2>1. PICK k \in 0 .. dap.sectors - 1 : bounce' = Transferred(k)
        BY <1>7 DEF Int13Fail
  <2>2. k \in Nat
        BY <1>7 DEF Int13Fail, TypeOK
  <2>3. bounce' \in [BounceIdx -> Content]
        BY <2>1, <2>2, TransferredType
  <2>4. dap' = dap
        BY <1>7 DEF Int13Fail
  <2>5. TypeOK'
        BY <1>7, <2>3, <2>4 DEF Int13Fail, TypeOK
  <2>6. cx \in Nat
        BY DEF TypeOK
  <2>7. /\ pc = "int13" /\ cx' = cx - 1
        /\ UNCHANGED <<req, lba, count, pos, chunk, buffer>>
        BY <1>7 DEF Int13Fail
  <2>8. \/ cx > 1 /\ pc' = "int13" /\ ret' = ret
        \/ pc' = "done" /\ ret' = "err"
        BY <1>7 DEF Int13Fail
  <2> QED BY <2>4, <2>5, <2>6, <2>7, <2>8 DEF BufIdx
<1>8. CASE UNCHANGED vars
      BY <1>8 DEF vars, TypeOK
<1> QED
    BY <1>1, <1>2, <1>3, <1>4, <1>5, <1>6, <1>7, <1>8 DEF Next

LEMMA Inductive ==
    ASSUME ~PacketCountUpdated
    PROVE  Spec => []IInv
<1>1. IInv /\ [Next]_vars => IInv'
      BY StepIInv
<1> QED BY InitIInv, <1>1, PTL DEF Spec

\* Every variable keeps its type; no transfer exceeds the bounce buffer.
THEOREM TypeCorrect ==
    ASSUME ~PacketCountUpdated
    PROVE  Spec => []TypeOK
<1>1. IInv => TypeOK
      BY DEF IInv
<1> QED BY Inductive, <1>1, PTL

LEMMA CompleteByIInv == IInv => ReadComplete
<1> SUFFICES ASSUME IInv, pc = "done", ret = "ok",
                    NEW i \in 0 .. req.count - 1
             PROVE  buffer[i] = req.lba + i
    BY DEF ReadComplete
<1>1. pos = req.count /\ req.count \in 0 .. BufSectors /\ BufSectors \in Nat
      BY DiskAssumption DEF IInv, OkIsComplete, TypeOK
<1>2. i \in BufIdx /\ i < pos
      BY ONLY <1>1, SMT DEF BufIdx
<1> QED BY <1>2 DEF IInv, DestIsPrefix

\* bios_read_sectors() returns 0 only with every requested sector in place.
THEOREM ReadsAreComplete ==
    ASSUME ~PacketCountUpdated
    PROVE  Spec => []ReadComplete
BY Inductive, CompleteByIInv, PTL

\* At every moment, error or not, the caller's buffer is a correct prefix.
THEOREM BufferIsPrefix ==
    ASSUME ~PacketCountUpdated
    PROVE  Spec => []DestIsPrefix
<1>1. IInv => DestIsPrefix
      BY DEF IInv
<1> QED BY Inductive, <1>1, PTL

-----------------------------------------------------------------------------
\* The refinement of SectorRead, state by state.
LEMMA InitImplements == Init => Abstract!Init
BY DEF Init, BufIdx, Abstract!Init, Abstract!EmptyBuffer

\* A buffer that is a prefix cell by cell is the abstract prefix.
LEMMA PrefixIsAbstractPrefix ==
    ASSUME NEW l, NEW n, NEW b \in [BufIdx -> Content],
           \A i \in BufIdx : b[i] = IF i < n THEN l + i ELSE NoData
    PROVE  b = Abstract!Prefix(l, n)
<1>1. b = [i \in BufIdx |-> b[i]]
      OBVIOUS
<1>2. [i \in BufIdx |-> b[i]] = [i \in BufIdx |-> IF i < n THEN l + i ELSE NoData]
      OBVIOUS
<1> QED BY <1>1, <1>2 DEF Abstract!Prefix, BufIdx

\* Each step is a step of SectorRead or invisible to it.
LEMMA StepImplements ==
    ASSUME ~PacketCountUpdated
    PROVE  IInv /\ [Next]_vars => [Abstract!Next]_(Abstract!vars)
<1> SUFFICES ASSUME IInv, [Next]_vars PROVE [Abstract!Next]_(Abstract!vars)
    OBVIOUS
<1>1. CASE Call
      BY <1>1 DEF Call, BufIdx, Abstract!Next, Abstract!Call, Abstract!EmptyBuffer
<1>2. CASE StartChunk
      BY <1>2 DEF StartChunk, Abstract!vars
<1>3. CASE CopyChunk
  <2>1. IInv'
        BY StepIInv
  <2>2. buffer' = Abstract!Prefix(req.lba, pos + chunk)
    <3>1. TypeOK' /\ DestIsPrefix' /\ pos' = pos + chunk /\ req' = req
          BY <1>3, <2>1 DEF IInv, CopyChunk
    <3>2. buffer' = Abstract!Prefix(req'.lba, pos')
          BY <3>1, PrefixIsAbstractPrefix DEF TypeOK, DestIsPrefix
    <3> QED BY <3>1, <3>2
  <2>3. pos + chunk \in pos + 1 .. req.count
    <3>1. /\ pos \in Nat /\ chunk \in 1 .. count /\ req.count \in Nat
          /\ count = req.count - pos
          BY <1>3, DiskAssumption
          DEF IInv, TypeOK, LoopAhead, PacketIsChunk, CopyChunk
    <3> QED BY ONLY <3>1, SMT
  <2> QED BY <1>3, <2>2, <2>3 DEF CopyChunk, Abstract!Next, Abstract!Deliver
<1>4. CASE ReturnOk
  <2>1. pos = req.count
    <3>1. pos \in Nat /\ req.count \in Nat /\ count = req.count - pos /\ count = 0
          BY <1>4, DiskAssumption DEF IInv, TypeOK, LoopAhead, ReturnOk
    <3> QED BY ONLY <3>1, SMT
  <2> QED BY <1>4, <2>1 DEF ReturnOk, Abstract!Next, Abstract!Succeed
<1>5. CASE Resume
      BY <1>5 DEF Resume, Abstract!Next, Abstract!Resume
<1>6. CASE Int13Ok
      BY <1>6 DEF Int13Ok, Abstract!vars
<1>7. CASE Int13Fail
  <2>1. pos < req.count
    <3>1. /\ pos \in Nat /\ req.count \in Nat /\ chunk \in 1 .. count
          /\ count = req.count - pos
          BY <1>7, DiskAssumption
          DEF IInv, TypeOK, LoopAhead, PacketIsChunk, Int13Fail
    <3> QED BY ONLY <3>1, SMT
  <2>2. /\ pc = "int13" /\ UNCHANGED <<req, pos, buffer>>
        /\ \/ pc' = "int13" /\ ret' = ret
           \/ pc' = "done" /\ ret' = "err"
        BY <1>7 DEF Int13Fail
  <2> QED BY <2>1, <2>2 DEF Abstract!Next, Abstract!Fail, Abstract!vars
<1>8. CASE UNCHANGED vars
      BY <1>8 DEF vars, Abstract!vars
<1> QED
    BY <1>1, <1>2, <1>3, <1>4, <1>5, <1>6, <1>7, <1>8 DEF Next

\* The loop, the packet and the attempts together do nothing that SectorRead
\* does not allow.  (That every call is answered, TLC checks.)
THEOREM SectorReadImplemented ==
    ASSUME ~PacketCountUpdated
    PROVE  Spec => Abstract!Init /\ [][Abstract!Next]_(Abstract!vars)
<1>1. IInv /\ [Next]_vars => [Abstract!Next]_(Abstract!vars)
      BY StepImplements
<1> QED BY Inductive, InitImplements, <1>1, PTL DEF Spec

-----------------------------------------------------------------------------
(* The inductive invariant: what is left to execute says what the          *)
(* processor is.                                                           *)

Is(p, pe, g, i, c, s, st, f) ==
    /\ p.PE = pe /\ p.gdt = g /\ p.idt = i /\ p.cs = c /\ p.seg = s
    /\ p.stack = st /\ p.intr = f

\* Where the BIOS runs, with the GDT loaded or not yet, and where the C code runs.
RealMode(g) == Is(cpu, FALSE, g, "ivt", "real", "real", "low", TRUE)
FlatMode == Is(cpu, TRUE, TRUE, "none", "flat", "flat", "c", FALSE)

\* On the way into protected mode, for the first time or back from the BIOS.
GoingUp(g, last) ==
    /\ then = "C"
    /\ last = "stack=saved" => saved = "c"
    /\ \/ /\ code = <<"cli", "tables", "setPE", "cs=flat", "seg=flat", last>>
          /\ RealMode(g)
       \/ /\ code = <<"tables", "setPE", "cs=flat", "seg=flat", last>>
          /\ Is(cpu, FALSE, g, "ivt", "real", "real", "low", FALSE)
       \/ /\ code = <<"setPE", "cs=flat", "seg=flat", last>>
          /\ Is(cpu, FALSE, TRUE, "none", "real", "real", "low", FALSE)
       \/ /\ code = <<"cs=flat", "seg=flat", last>>
          /\ Is(cpu, TRUE, TRUE, "none", "real", "real", "low", FALSE)
       \/ /\ code = <<"seg=flat", last>>
          /\ Is(cpu, TRUE, TRUE, "none", "flat", "real", "low", FALSE)
       \/ /\ code = <<last>>
          /\ Is(cpu, TRUE, TRUE, "none", "flat", "flat", "bad", FALSE)

InCCode == then = "C" /\ code = <<>> /\ FlatMode

\* On the way to real mode, without interrupts until everything is in place.
LeavingC == then = "int13" /\ code = EnterReal /\ FlatMode
GoingDown ==
    /\ then = "int13" /\ saved = "c"
    /\ \/ /\ code = <<"cli", "seg=seg16", "cs=seg16", "clearPE", "cs=real",
                        "seg=real", "stack=low", "ivt", "sti">>
          /\ FlatMode
       \/ /\ code = <<"seg=seg16", "cs=seg16", "clearPE", "cs=real", "seg=real",
                        "stack=low", "ivt", "sti">>
          /\ FlatMode
       \/ /\ code = <<"cs=seg16", "clearPE", "cs=real", "seg=real", "stack=low",
                        "ivt", "sti">>
          /\ Is(cpu, TRUE, TRUE, "none", "flat", "seg16", "bad", FALSE)
       \/ /\ code = <<"clearPE", "cs=real", "seg=real", "stack=low", "ivt", "sti">>
          /\ Is(cpu, TRUE, TRUE, "none", "seg16", "seg16", "bad", FALSE)
       \/ /\ code = <<"cs=real", "seg=real", "stack=low", "ivt", "sti">>
          /\ Is(cpu, FALSE, TRUE, "none", "seg16", "seg16", "bad", FALSE)
       \/ /\ code = <<"seg=real", "stack=low", "ivt", "sti">>
          /\ Is(cpu, FALSE, TRUE, "none", "real", "seg16", "bad", FALSE)
       \/ /\ code = <<"stack=low", "ivt", "sti">>
          /\ Is(cpu, FALSE, TRUE, "none", "real", "real", "bad", FALSE)
       \/ /\ code = <<"ivt", "sti">>
          /\ Is(cpu, FALSE, TRUE, "none", "real", "real", "low", FALSE)
       \/ /\ code = <<"sti">>
          /\ Is(cpu, FALSE, TRUE, "ivt", "real", "real", "low", FALSE)

InBios == then = "int13" /\ saved = "c" /\ code = <<>> /\ RealMode(TRUE)

AtKernel == then = "kernel" /\ code \in {ToKernel, <<>>} /\ FlatMode

Lasts == {"stack=c", "stack=saved"}
Placed ==
    \/ \E g \in BOOLEAN, last \in Lasts : GoingUp(g, last)
    \/ InCCode \/ LeavingC \/ GoingDown \/ InBios \/ AtKernel
ThunkInv == crashed = FALSE /\ Placed

-----------------------------------------------------------------------------
(* Instructions                                                            *)

LEMMA Effects ==
    ASSUME NEW pe \in BOOLEAN, NEW g \in BOOLEAN, NEW i, NEW c, NEW s, NEW st,
           NEW f \in BOOLEAN, Is(cpu, pe, g, i, c, s, st, f)
    PROVE  /\ Is(Effect("save"), pe, g, i, c, s, st, f)
           /\ Is(Effect("cli"), pe, g, i, c, s, st, FALSE)
           /\ Is(Effect("sti"), pe, g, i, c, s, st, TRUE)
           /\ Is(Effect("tables"), pe, TRUE, "none", c, s, st, f)
           /\ Is(Effect("ivt"), pe, g, "ivt", c, s, st, f)
           /\ Is(Effect("setPE"), TRUE, g, i, c, s, st, f)
           /\ Is(Effect("clearPE"), FALSE, g, i, c, s, st, f)
           /\ Is(Effect("cs=flat"), pe, g, i, "flat", s, st, f)
           /\ Is(Effect("cs=seg16"), pe, g, i, "seg16", s, st, f)
           /\ Is(Effect("cs=real"), pe, g, i, "real", s, st, f)
           /\ Is(Effect("seg=flat"), pe, g, i, c, "flat", "bad", f)
           /\ Is(Effect("seg=seg16"), pe, g, i, c, "seg16", "bad", f)
           /\ Is(Effect("seg=real"), pe, g, i, c, "real", st, f)
           /\ Is(Effect("stack=c"), pe, g, i, c, s, "c", f)
           /\ Is(Effect("stack=low"), pe, g, i, c, s, "low", f)
           /\ Is(Effect("stack=saved"), pe, g, i, c, s, saved, f)
BY Zenon DEF Effect, Is

LEMMA Requirements ==
    /\ \A i \in {"save", "cli", "sti", "tables", "ivt", "stack=c", "stack=low", "stack=saved"} :
          CanExecute(i)
    /\ cpu.gdt => CanExecute("setPE")
    /\ cpu.cs = "seg16" /\ cpu.seg = "seg16" => CanExecute("clearPE")
    /\ \A i \in {"cs=flat", "cs=seg16", "seg=flat", "seg=seg16"} :
          cpu.PE /\ cpu.gdt => CanExecute(i)
    /\ \A i \in {"cs=real", "seg=real"} : ~cpu.PE => CanExecute(i)
BY Zenon DEF CanExecute

LEMMA Executes ==
    ASSUME NEW i, Execute, Head(code) = i, CanExecute(i), crashed = FALSE
    PROVE  /\ cpu' = Effect(i) /\ crashed' = FALSE /\ then' = then
           /\ saved' = IF i = "save" THEN cpu.stack ELSE saved
BY Zenon DEF Execute

\* The way up ends in the C code.
LEMMA UpStep ==
    ASSUME NEW g \in BOOLEAN, NEW last \in Lasts, GoingUp(g, last), Execute, crashed = FALSE
    PROVE  crashed' = FALSE /\ (GoingUp(g, last)' \/ InCCode')
<1>1. CASE code = <<"cli", "tables", "setPE", "cs=flat", "seg=flat", last>>
  <2>1. Head(code) = "cli" /\ code' = <<"tables", "setPE", "cs=flat", "seg=flat", last>>
        BY <1>1 DEF Execute
  <2>2. RealMode(g)
        BY <1>1 DEF GoingUp
  <2>3. CanExecute("cli")
        BY <2>2, Requirements, Zenon DEF Is, RealMode, FlatMode
  <2>4. crashed' = FALSE /\ then' = then /\ saved' = saved /\ cpu' = Effect("cli")
        BY <2>1, <2>3, Executes, Zenon
  <2>5. Is(cpu', FALSE, g, "ivt", "real", "real", "low", FALSE)
        BY <2>2, <2>4, Effects DEF RealMode, FlatMode
  <2> QED BY <2>1, <2>4, <2>5, Zenon DEF GoingUp, InCCode, FlatMode
<1>2. CASE code = <<"tables", "setPE", "cs=flat", "seg=flat", last>>
  <2>1. Head(code) = "tables" /\ code' = <<"setPE", "cs=flat", "seg=flat", last>>
        BY <1>2 DEF Execute
  <2>2. Is(cpu, FALSE, g, "ivt", "real", "real", "low", FALSE)
        BY <1>2 DEF GoingUp
  <2>3. CanExecute("tables")
        BY <2>2, Requirements, Zenon DEF Is, RealMode, FlatMode
  <2>4. crashed' = FALSE /\ then' = then /\ saved' = saved /\ cpu' = Effect("tables")
        BY <2>1, <2>3, Executes, Zenon
  <2>5. Is(cpu', FALSE, TRUE, "none", "real", "real", "low", FALSE)
        BY <2>2, <2>4, Effects DEF RealMode, FlatMode
  <2> QED BY <2>1, <2>4, <2>5, Zenon DEF GoingUp, InCCode, FlatMode
<1>3. CASE code = <<"setPE", "cs=flat", "seg=flat", last>>
  <2>1. Head(code) = "setPE" /\ code' = <<"cs=flat", "seg=flat", last>>
        BY <1>3 DEF Execute
  <2>2. Is(cpu, FALSE, TRUE, "none", "real", "real", "low", FALSE)
        BY <1>3 DEF GoingUp
  <2>3. CanExecute("setPE")
        BY <2>2, Requirements, Zenon DEF Is, RealMode, FlatMode
  <2>4. crashed' = FALSE /\ then' = then /\ saved' = saved /\ cpu' = Effect("setPE")
        BY <2>1, <2>3, Executes, Zenon
  <2>5. Is(cpu', TRUE, TRUE, "none", "real", "real", "low", FALSE)
        BY <2>2, <2>4, Effects DEF RealMode, FlatMode
  <2> QED BY <2>1, <2>4, <2>5, Zenon DEF GoingUp, InCCode, FlatMode
<1>4. CASE code = <<"cs=flat", "seg=flat", last>>
  <2>1. Head(code) = "cs=flat" /\ code' = <<"seg=flat", last>>
        BY <1>4 DEF Execute
  <2>2. Is(cpu, TRUE, TRUE, "none", "real", "real", "low", FALSE)
        BY <1>4 DEF GoingUp
  <2>3. CanExecute("cs=flat")
        BY <2>2, Requirements, Zenon DEF Is, RealMode, FlatMode
  <2>4. crashed' = FALSE /\ then' = then /\ saved' = saved /\ cpu' = Effect("cs=flat")
        BY <2>1, <2>3, Executes, Zenon
  <2>5. Is(cpu', TRUE, TRUE, "none", "flat", "real", "low", FALSE)
        BY <2>2, <2>4, Effects DEF RealMode, FlatMode
  <2> QED BY <2>1, <2>4, <2>5, Zenon DEF GoingUp, InCCode, FlatMode
<1>5. CASE code = <<"seg=flat", last>>
  <2>1. Head(code) = "seg=flat" /\ code' = <<last>>
        BY <1>5 DEF Execute
  <2>2. Is(cpu, TRUE, TRUE, "none", "flat", "real", "low", FALSE)
        BY <1>5 DEF GoingUp
  <2>3. CanExecute("seg=flat")
        BY <2>2, Requirements, Zenon DEF Is, RealMode, FlatMode
  <2>4. crashed' = FALSE /\ then' = then /\ saved' = saved /\ cpu' = Effect("seg=flat")
        BY <2>1, <2>3, Executes, Zenon
  <2>5. Is(cpu', TRUE, TRUE, "none", "flat", "flat", "bad", FALSE)
        BY <2>2, <2>4, Effects DEF RealMode, FlatMode
  <2> QED BY <2>1, <2>4, <2>5, Zenon DEF GoingUp, InCCode, FlatMode
<1>6. CASE code = <<last>>
  <2>1. Head(code) = last /\ code' = <<>>
        BY <1>6 DEF Execute
  <2>2. Is(cpu, TRUE, TRUE, "none", "flat", "flat", "bad", FALSE)
        BY <1>6 DEF GoingUp
  <2>3. CanExecute(last) /\ last # "save"
        BY Requirements DEF Lasts
  <2>4. crashed' = FALSE /\ then' = then /\ saved' = saved /\ cpu' = Effect(last)
        BY <2>1, <2>3, Executes, Zenon
  <2>5. last = "stack=c" \/ (last = "stack=saved" /\ saved = "c")
        BY DEF GoingUp, Lasts
  <2>6. Is(cpu', TRUE, TRUE, "none", "flat", "flat", "c", FALSE)
        BY <2>2, <2>4, <2>5, Effects
  <2> QED BY <2>1, <2>4, <2>6, Zenon DEF GoingUp, InCCode, FlatMode
<1> QED BY <1>1, <1>2, <1>3, <1>4, <1>5, <1>6 DEF GoingUp

\* The way down ends in the BIOS.
LEMMA DownStep ==
    ASSUME GoingDown, Execute, crashed = FALSE
    PROVE  crashed' = FALSE /\ (GoingDown' \/ InBios')
<1>1. CASE code = <<"cli", "seg=seg16", "cs=seg16", "clearPE", "cs=real",
                    "seg=real", "stack=low", "ivt", "sti">>
  <2>1. Head(code) = "cli" /\ code' = <<"seg=seg16", "cs=seg16", "clearPE", "cs=real",
              "seg=real", "stack=low", "ivt", "sti">>
        BY <1>1 DEF Execute
  <2>2. FlatMode
        BY <1>1 DEF GoingDown
  <2>3. CanExecute("cli")
        BY <2>2, Requirements, Zenon DEF Is, RealMode, FlatMode
  <2>4. crashed' = FALSE /\ then' = then /\ saved' = saved /\ cpu' = Effect("cli")
        BY <2>1, <2>3, Executes, Zenon
  <2>5. Is(cpu', TRUE, TRUE, "none", "flat", "flat", "c", FALSE)
        BY <2>2, <2>4, Effects DEF RealMode, FlatMode
  <2> QED BY <2>1, <2>4, <2>5, Zenon DEF GoingDown, InBios, RealMode, FlatMode
<1>2. CASE code = <<"seg=seg16", "cs=seg16", "clearPE", "cs=real", "seg=real",
                    "stack=low", "ivt", "sti">>
  <2>1. Head(code) = "seg=seg16" /\ code' = <<"cs=seg16", "clearPE", "cs=real", "seg=real",
              "stack=low", "ivt", "sti">>
        BY <1>2 DEF Execute
  <2>2. FlatMode
        BY <1>2 DEF GoingDown
  <2>3. CanExecute("seg=seg16")
        BY <2>2, Requirements, Zenon DEF Is, RealMode, FlatMode
  <2>4. crashed' = FALSE /\ then' = then /\ saved' = saved /\ cpu' = Effect("seg=seg16")
        BY <2>1, <2>3, Executes, Zenon
  <2>5. Is(cpu', TRUE, TRUE, "none", "flat", "seg16", "bad", FALSE)
        BY <2>2, <2>4, Effects DEF RealMode, FlatMode
  <2> QED BY <2>1, <2>4, <2>5, Zenon DEF GoingDown, InBios, RealMode, FlatMode
<1>3. CASE code = <<"cs=seg16", "clearPE", "cs=real", "seg=real", "stack=low",
                    "ivt", "sti">>
  <2>1. Head(code) = "cs=seg16" /\ code' = <<"clearPE", "cs=real", "seg=real", "stack=low",
              "ivt", "sti">>
        BY <1>3 DEF Execute
  <2>2. Is(cpu, TRUE, TRUE, "none", "flat", "seg16", "bad", FALSE)
        BY <1>3 DEF GoingDown
  <2>3. CanExecute("cs=seg16")
        BY <2>2, Requirements, Zenon DEF Is, RealMode, FlatMode
  <2>4. crashed' = FALSE /\ then' = then /\ saved' = saved /\ cpu' = Effect("cs=seg16")
        BY <2>1, <2>3, Executes, Zenon
  <2>5. Is(cpu', TRUE, TRUE, "none", "seg16", "seg16", "bad", FALSE)
        BY <2>2, <2>4, Effects DEF RealMode, FlatMode
  <2> QED BY <2>1, <2>4, <2>5, Zenon DEF GoingDown, InBios, RealMode, FlatMode
<1>4. CASE code = <<"clearPE", "cs=real", "seg=real", "stack=low", "ivt",
                    "sti">>
  <2>1. Head(code) = "clearPE" /\ code' = <<"cs=real", "seg=real", "stack=low", "ivt", "sti">>
        BY <1>4 DEF Execute
  <2>2. Is(cpu, TRUE, TRUE, "none", "seg16", "seg16", "bad", FALSE)
        BY <1>4 DEF GoingDown
  <2>3. CanExecute("clearPE")
        BY <2>2, Requirements, Zenon DEF Is, RealMode, FlatMode
  <2>4. crashed' = FALSE /\ then' = then /\ saved' = saved /\ cpu' = Effect("clearPE")
        BY <2>1, <2>3, Executes, Zenon
  <2>5. Is(cpu', FALSE, TRUE, "none", "seg16", "seg16", "bad", FALSE)
        BY <2>2, <2>4, Effects DEF RealMode, FlatMode
  <2> QED BY <2>1, <2>4, <2>5, Zenon DEF GoingDown, InBios, RealMode, FlatMode
<1>5. CASE code = <<"cs=real", "seg=real", "stack=low", "ivt", "sti">>
  <2>1. Head(code) = "cs=real" /\ code' = <<"seg=real", "stack=low", "ivt", "sti">>
        BY <1>5 DEF Execute
  <2>2. Is(cpu, FALSE, TRUE, "none", "seg16", "seg16", "bad", FALSE)
        BY <1>5 DEF GoingDown
  <2>3. CanExecute("cs=real")
        BY <2>2, Requirements, Zenon DEF Is, RealMode, FlatMode
  <2>4. crashed' = FALSE /\ then' = then /\ saved' = saved /\ cpu' = Effect("cs=real")
        BY <2>1, <2>3, Executes, Zenon
  <2>5. Is(cpu', FALSE, TRUE, "none", "real", "seg16", "bad", FALSE)
        BY <2>2, <2>4, Effects DEF RealMode, FlatMode
  <2> QED BY <2>1, <2>4, <2>5, Zenon DEF GoingDown, InBios, RealMode, FlatMode
<1>6. CASE code = <<"seg=real", "stack=low", "ivt", "sti">>
  <2>1. Head(code) = "seg=real" /\ code' = <<"stack=low", "ivt", "sti">>
        BY <1>6 DEF Execute
  <2>2. Is(cpu, FALSE, TRUE, "none", "real", "seg16", "bad", FALSE)
        BY <1>6 DEF GoingDown
  <2>3. CanExecute("seg=real")
        BY <2>2, Requirements, Zenon DEF Is, RealMode, FlatMode
  <2>4. crashed' = FALSE /\ then' = then /\ saved' = saved /\ cpu' = Effect("seg=real")
        BY <2>1, <2>3, Executes, Zenon
  <2>5. Is(cpu', FALSE, TRUE, "none", "real", "real", "bad", FALSE)
        BY <2>2, <2>4, Effects DEF RealMode, FlatMode
  <2> QED BY <2>1, <2>4, <2>5, Zenon DEF GoingDown, InBios, RealMode, FlatMode
<1>7. CASE code = <<"stack=low", "ivt", "sti">>
  <2>1. Head(code) = "stack=low" /\ code' = <<"ivt", "sti">>
        BY <1>7 DEF Execute
  <2>2. Is(cpu, FALSE, TRUE, "none", "real", "real", "bad", FALSE)
        BY <1>7 DEF GoingDown
  <2>3. CanExecute("stack=low")
        BY <2>2, Requirements, Zenon DEF Is, RealMode, FlatMode
  <2>4. crashed' = FALSE /\ then' = then /\ saved' = saved /\ cpu' = Effect("stack=low")
        BY <2>1, <2>3, Executes, Zenon
  <2>5. Is(cpu', FALSE, TRUE, "none", "real", "real", "low", FALSE)
        BY <2>2, <2>4, Effects DEF RealMode, FlatMode
  <2> QED BY <2>1, <2>4, <2>5, Zenon DEF GoingDown, InBios, RealMode, FlatMode
<1>8. CASE code = <<"ivt", "sti">>
  <2>1. Head(code) = "ivt" /\ code' = <<"sti">>
        BY <1>8 DEF Execute
  <2>2. Is(cpu, FALSE, TRUE, "none", "real", "real", "low", FALSE)
        BY <1>8 DEF GoingDown
  <2>3. CanExecute("ivt")
        BY <2>2, Requirements, Zenon DEF Is, RealMode, FlatMode
  <2>4. crashed' = FALSE /\ then' = then /\ saved' = saved /\ cpu' = Effect("ivt")
        BY <2>1, <2>3, Executes, Zenon
  <2>5. Is(cpu', FALSE, TRUE, "ivt", "real", "real", "low", FALSE)
        BY <2>2, <2>4, Effects DEF RealMode, FlatMode
  <2> QED BY <2>1, <2>4, <2>5, Zenon DEF GoingDown, InBios, RealMode, FlatMode
<1>9. CASE code = <<"sti">>
  <2>1. Head(code) = "sti" /\ code' = <<>>
        BY <1>9 DEF Execute
  <2>2. Is(cpu, FALSE, TRUE, "ivt", "real", "real", "low", FALSE)
        BY <1>9 DEF GoingDown
  <2>3. CanExecute("sti")
        BY <2>2, Requirements, Zenon DEF Is, RealMode, FlatMode
  <2>4. crashed' = FALSE /\ then' = then /\ saved' = saved /\ cpu' = Effect("sti")
        BY <2>1, <2>3, Executes, Zenon
  <2>5. Is(cpu', FALSE, TRUE, "ivt", "real", "real", "low", TRUE)
        BY <2>2, <2>4, Effects DEF RealMode, FlatMode
  <2> QED BY <2>1, <2>4, <2>5, Zenon DEF GoingDown, InBios, RealMode, FlatMode
<1> QED BY <1>1, <1>2, <1>3, <1>4, <1>5, <1>6, <1>7, <1>8, <1>9 DEF GoingDown

LEMMA LeaveStep ==
    ASSUME LeavingC, Execute, crashed = FALSE
    PROVE  crashed' = FALSE /\ GoingDown'
<1>1. Head(code) = "save" /\ code' = Tail(EnterReal)
      BY DEF LeavingC, Execute, EnterReal
<1>2. CanExecute("save")
      BY Requirements, Zenon
<1>3. crashed' = FALSE /\ then' = then /\ saved' = cpu.stack /\ cpu' = Effect("save")
      BY <1>1, <1>2, Executes, Zenon
<1>4. Is(cpu', TRUE, TRUE, "none", "flat", "flat", "c", FALSE)
      BY <1>3, Effects DEF LeavingC, FlatMode
<1>5. cpu.stack = "c"
      BY Zenon DEF LeavingC, FlatMode, Is
<1>6. Tail(EnterReal) = <<"cli", "seg=seg16", "cs=seg16", "clearPE", "cs=real", "seg=real",
                         "stack=low", "ivt", "sti">>
      BY DEF EnterReal
<1> QED BY <1>1, <1>3, <1>4, <1>5, <1>6, Zenon DEF LeavingC, GoingDown, FlatMode

LEMMA KernelStep ==
    ASSUME AtKernel, Execute, crashed = FALSE
    PROVE  crashed' = FALSE /\ AtKernel'
<1>1. code = ToKernel /\ code' = Tail(code) /\ then = "kernel"
      BY Zenon DEF AtKernel, Execute
<1>2. Head(ToKernel) = "cli" /\ Tail(ToKernel) = <<>> /\ CanExecute("cli")
      BY Requirements DEF ToKernel
<1>3. crashed' = FALSE /\ then' = then /\ cpu' = Effect("cli")
      BY <1>1, <1>2, Executes, Zenon
<1>4. Is(cpu', TRUE, TRUE, "none", "flat", "flat", "c", FALSE)
      BY <1>3, Effects DEF AtKernel, FlatMode
<1> QED BY <1>1, <1>2, <1>3, <1>4, Zenon DEF AtKernel, FlatMode

-----------------------------------------------------------------------------
(* The other steps                                                         *)

\* Interrupts are only enabled where the BIOS can handle them.
LEMMA InterruptStep ==
    ASSUME ThunkInv, Interrupt
    PROVE  ThunkInv'
<1>1. \E g \in BOOLEAN : RealMode(g)
  <2>1. cpu.intr
        BY DEF Interrupt
  <2>2. CASE \E g \in BOOLEAN, last \in Lasts : GoingUp(g, last)
        BY <2>1, <2>2 DEF GoingUp, Interrupt, Is
  <2>3. CASE InCCode \/ LeavingC \/ AtKernel
        BY <2>1, <2>3 DEF InCCode, LeavingC, AtKernel, FlatMode, Is, Interrupt
  <2>4. CASE GoingDown
        BY <2>1, <2>4 DEF GoingDown, FlatMode, Is, Interrupt
  <2>5. CASE InBios
        BY <2>5 DEF InBios
  <2> QED BY <2>2, <2>3, <2>4, <2>5 DEF ThunkInv, Placed
<1>2. HandlerReady
      BY <1>1, Zenon DEF RealMode, Is, HandlerReady
<1>3. UNCHANGED <<cpu, saved, code, then>> /\ crashed' = FALSE
      BY <1>2, Zenon DEF Interrupt, ThunkInv
<1> QED
    BY <1>3, Zenon DEF ThunkInv, Placed, GoingUp, InCCode, LeavingC, GoingDown, InBios,
                AtKernel, RealMode, FlatMode

\* With nothing left to execute, the processor is where it was going.
LEMMA Arrived ==
    ASSUME Placed, code = <<>>
    PROVE  /\ then = "C" => InCCode
           /\ then = "int13" => InBios
BY DEF Placed, GoingUp, InCCode, LeavingC, EnterReal, GoingDown, InBios, AtKernel

LEMMA CodeStep ==
    ASSUME ThunkInv, InC \/ InThunk \/ JumpToKernel
    PROVE  ThunkInv'
<1>1. CASE InC \/ JumpToKernel
  <2>1. then = "C" /\ code = <<>> /\ crashed' = (crashed \/ ~CReady)
        /\ UNCHANGED <<cpu, saved>>
        BY <1>1, Zenon DEF InC, JumpToKernel, CStep
  <2>2. InCCode
        BY <2>1, Arrived DEF ThunkInv
  <2>3. CReady
        BY <2>2, Zenon DEF InCCode, FlatMode, Is, CReady
  <2>4. crashed' = FALSE
        BY <2>1, <2>3, Zenon DEF ThunkInv
  <2>5. FlatMode'
        BY <2>1, <2>2, Zenon DEF InCCode, FlatMode
  <2>6. \/ then' = "C" /\ code' = <<>>
        \/ then' = "int13" /\ code' = EnterReal
        \/ then' = "kernel" /\ code' = ToKernel
        BY <1>1, <2>1, Zenon DEF InC, JumpToKernel, CStep
  <2>7. InCCode' \/ LeavingC' \/ AtKernel'
        BY <2>5, <2>6 DEF InCCode, LeavingC, AtKernel
  <2> QED BY <2>4, <2>7, Zenon DEF ThunkInv, Placed
<1>2. CASE InThunk
  <2>1. /\ then = "int13" /\ code = <<>>
        /\ crashed' = (crashed \/ ~(HandlerReady /\ cpu.seg = "real" /\ cpu.intr))
        /\ \/ UNCHANGED <<code, then>>
           \/ code' = ReturnTo32 /\ then' = "C"
        /\ UNCHANGED <<cpu, saved>>
        BY <1>2, Zenon DEF InThunk
  <2>2. InBios
        BY <2>1, Arrived DEF ThunkInv
  <2>3. crashed' = FALSE
        BY <2>1, <2>2, Zenon DEF ThunkInv, InBios, RealMode, Is, HandlerReady
  <2>4. RealMode(TRUE)' /\ saved' = "c"
        BY <2>1, <2>2, Zenon DEF InBios, RealMode
  <2>5. CASE UNCHANGED <<code, then>>
        BY <2>1, <2>3, <2>4, <2>5, Zenon DEF ThunkInv, Placed, InBios
  <2>6. CASE code' = ReturnTo32 /\ then' = "C"
        BY <2>3, <2>4, <2>6, Zenon DEF ThunkInv, Placed, GoingUp, ReturnTo32, Lasts
  <2> QED BY <2>1, <2>5, <2>6
<1> QED BY <1>1, <1>2

LEMMA ThunkInitInv == ThunkInit => ThunkInv
<1> SUFFICES ASSUME ThunkInit PROVE ThunkInv
    OBVIOUS
<1>1. RealMode(FALSE) /\ then = "C" /\ code = Enter32 /\ crashed = FALSE
      BY Zenon DEF ThunkInit, RealMode, Is
<1> QED BY <1>1, Zenon DEF ThunkInv, Placed, GoingUp, Enter32, Lasts

LEMMA ThunkStepInv == ThunkInv /\ [ThunkNext]_<<vars, cpuVars>> => ThunkInv'
<1> SUFFICES ASSUME ThunkInv, [ThunkNext]_<<vars, cpuVars>> PROVE ThunkInv'
    OBVIOUS
<1>1. CASE Execute
  <2>1. crashed = FALSE
        BY DEF ThunkInv
  <2>2. ASSUME NEW g \in BOOLEAN, NEW last \in Lasts, GoingUp(g, last) PROVE ThunkInv'
        BY <1>1, <2>1, <2>2, UpStep, Zenon DEF ThunkInv, Placed
  <2>3. CASE LeavingC \/ GoingDown
        BY <1>1, <2>1, <2>3, LeaveStep, DownStep, Zenon DEF ThunkInv, Placed
  <2>4. CASE AtKernel
        BY <1>1, <2>1, <2>4, KernelStep, Zenon DEF ThunkInv, Placed
  <2>5. ~InCCode /\ ~InBios
        BY <1>1, Zenon DEF Execute, InCCode, InBios
  <2> QED BY <2>2, <2>3, <2>4, <2>5 DEF ThunkInv, Placed
<1>2. CASE Interrupt
      BY <1>2, InterruptStep
<1>3. CASE InC \/ InThunk \/ JumpToKernel
      BY <1>3, CodeStep
<1>4. CASE UNCHANGED <<vars, cpuVars>>
      BY <1>4, Zenon DEF cpuVars, ThunkInv, Placed, GoingUp, InCCode, LeavingC, GoingDown, InBios,
                  AtKernel, RealMode, FlatMode
<1> QED BY <1>1, <1>2, <1>3, <1>4 DEF ThunkNext

-----------------------------------------------------------------------------
(* The theorems                                                            *)

\* Interrupts may come between any two instructions of the switches, and disk
\* reads may take any number of trips and attempts: nothing is ever executed in
\* a mode, segment, table or stack it is not made for (io16.S:500-600, io32.S).
THEOREM ProcessorIsReady == ThunkSpec => []NeverCrashes
<1>1. ThunkInv => NeverCrashes
      BY DEF ThunkInv, NeverCrashes
<1> QED BY ThunkInitInv, ThunkStepInv, <1>1, PTL DEF ThunkSpec

\* What the processor does under it does not show in the read.
LEMMA StepIsDiskStep == [ThunkNext]_<<vars, cpuVars>> => [Next]_vars
<1> SUFFICES ASSUME [ThunkNext]_<<vars, cpuVars>> PROVE [Next]_vars
    OBVIOUS
<1>1. CASE Execute \/ Interrupt
      BY <1>1, Zenon DEF Execute, Interrupt
<1>2. CASE InC \/ JumpToKernel
      BY <1>2, Zenon DEF InC, JumpToKernel, CStep, Next
<1>3. CASE InThunk
      BY <1>3, Zenon DEF InThunk, Next
<1> QED BY <1>1, <1>2, <1>3 DEF ThunkNext

\* On this processor, too, an answer "0" means that all sectors are in place.
THEOREM ReadsAreCompleteOnThunk ==
    ASSUME ~PacketCountUpdated
    PROVE  ThunkSpec => []ReadComplete
<1>1. IInv /\ [Next]_vars => IInv'
      BY StepIInv
<1> QED BY StepIsDiskStep, InitIInv, <1>1, CompleteByIInv, PTL DEF ThunkSpec, ThunkInit

\* And every trip through both modes is a step of SectorRead or invisible to it.
THEOREM SectorReadImplementedOnThunk ==
    ASSUME ~PacketCountUpdated
    PROVE  ThunkSpec => Abstract!Init /\ [][Abstract!Next]_(Abstract!vars)
<1>1. IInv /\ [Next]_vars => IInv' /\ [Abstract!Next]_(Abstract!vars)
      BY StepIInv, StepImplements
<1> QED BY StepIsDiskStep, InitIInv, InitImplements, <1>1, PTL DEF ThunkSpec, ThunkInit
=============================================================================
