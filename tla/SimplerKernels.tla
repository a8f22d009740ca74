--------------------------- MODULE SimplerKernels ---------------------------
(***************************************************************************)
(* The kernels of the simpler backend as programs of an AI core: the two   *)
(* AllScan kernels, in every role a rank can have, and the incore kernels  *)
(* of GLA.  Element sizes and template dispatch are left out: a cell is a  *)
(* whole tile or a whole GM block.                                         *)
(***************************************************************************)
EXTENDS CoreInstructions, SequencesExt

CONSTANT K \* blocks of an AllScan message

ASSUME BlocksAssumption == K \in Nat \ {0}

Blocks     == 0..(K - 1)
Loop(F(_)) == FlattenSeq([i \in 1..K |-> F(i - 1)])

-----------------------------------------------------------------------------
(* allscan_kernel.cpp *)

Wait      == <<Scalar("TWAIT"), Barrier>>

\* Mutants: the flag of the outbound store is never waited for, or is waited
\* for before it is set.
FlushOutUnwaited == <<SetFlag("MTE3", "S", 7), Barrier, Scalar("TNOTIFY")>>
FlushOutSwapped ==
  <<WaitFlag("MTE3", "S", 7), SetFlag("MTE3", "S", 7), Barrier, Scalar("TNOTIFY")>>

FlushOut  == Sync("MTE3", "S", 7) \o <<Barrier, Scalar("TNOTIFY")>>

ForwardWait(k) ==
  Wait \o <<Load(Ub("recvTile"), Gm("recv", k)), Load(Ub("gammaTile"), Gm("gamma", k)),
            Load(Ub("sTile"), Gm("s_local", k))>>
       \o Sync("MTE2", "V", 0)
       \o <<Vec("TROWEXPANDMUL", Ub("recvTile"), <<Ub("recvTile"), Ub("gammaTile")>>),
            Vec("TADD", Ub("sTile"), <<Ub("sTile"), Ub("recvTile")>>)>>
       \o Sync("V", "MTE3", 0)

ForwardSource(k) == <<Load(Ub("sTile"), Gm("s_local", k))>> \o Sync("MTE2", "MTE3", 0)
ForwardPush(k)   == <<Store(Gm("remote", k), Ub("sTile"))>> \o FlushOut

ForwardBlock(role, k) ==
  (IF role = "first" THEN ForwardSource(k) ELSE ForwardWait(k))
    \o <<Store(Gm("output", k), Ub("sTile"))>>
    \o (IF role = "last" THEN <<>> ELSE ForwardPush(k))

AllScan(role) ==
  LET Block(k) == ForwardBlock(role, k) IN Loop(Block) \o <<Barrier>>

-----------------------------------------------------------------------------
(* allscan_backward_kernel.cpp; tmpTile is the region of sTile *)

BackwardWait(k) ==
  Wait \o <<Load(Ub("recvTile"), Gm("recv", k)), Load(Ub("sTile"), Gm("g_out", k))>>
       \o Sync("MTE2", "V", 0)
       \o <<Vec("TADD", Ub("sTile"), <<Ub("sTile"), Ub("recvTile")>>)>>
       \o Sync("V", "MTE3", 0)

BackwardSource(k) == <<Load(Ub("sTile"), Gm("g_out", k))>> \o Sync("MTE2", "MTE3", 0)

BackwardPush(k) ==
  <<Load(Ub("gammaTile"), Gm("gamma", k))>> \o Sync("MTE2", "V", 2)
    \o <<Vec("TROWEXPANDMUL", Ub("recvTile"), <<Ub("sTile"), Ub("gammaTile")>>)>>
    \o Sync("V", "MTE3", 2)
    \o <<Store(Gm("remote", k), Ub("recvTile"))>> \o FlushOut

\* Also a mutant of GammaGrad: the block without its closing barrier.
GammaGradOpen(k) ==
  Sync("MTE3", "MTE2", 3)
    \o <<Load(Ub("recvTile"), Gm("out_prev", k))>> \o Sync("MTE2", "V", 1)
    \o <<Vec("TMUL", Ub("recvTile"), <<Ub("sTile"), Ub("recvTile")>>), BarrierV,
         Op("V", "TROWSUM", <<Ub("dgammaTile"), Ub("sTile")>>, <<Ub("recvTile")>>)>>
    \o Sync("V", "MTE3", 1)
    \o <<Store(Gm("dgamma", k), Ub("dgammaTile"))>>

\* The last barrier keeps the next block's loads off the tiles of this one.
GammaGrad(k) == GammaGradOpen(k) \o <<Barrier>>

BackwardBlock(role, k) ==
  (IF role = "last" THEN BackwardSource(k) ELSE BackwardWait(k))
    \o <<Store(Gm("dS", k), Ub("sTile"))>>
    \o (IF role = "first" THEN <<>> ELSE BackwardPush(k) \o GammaGrad(k))

AllScanBackward(role) ==
  LET Block(k) == BackwardBlock(role, k) IN Loop(Block) \o <<Barrier>>

-----------------------------------------------------------------------------
(* The GLA kernels; every one ends in pipe_sync() *)

ChunkHPrep ==
  <<Load(Ub("gcsT"), G("g_cs")), Load(Ub("gtotT"), G("g_total"))>>
    \o Sync("MTE2", "V", 0)
    \o <<Expand(Ub("coeffT"), <<Ub("gtotT")>>), Barrier,
         Vec("TSUB", Ub("coeffT"), <<Ub("coeffT"), Ub("gcsT")>>), BarrierV,
         Vec("TEXP", Ub("coeffT"), <<Ub("coeffT")>>), BarrierV,
         Load(Ub("gcsT"), G("k"))>>
    \o Sync("MTE2", "V", 0)
    \o <<Vec("TMUL", Ub("coeffT"), <<Ub("coeffT"), Ub("gcsT")>>), BarrierV>>
    \o Sync("V", "MTE3", 0)
    \o <<Store(G("k_rest"), Ub("coeffT")),
         Vec("TEXP", Ub("decayRow"), <<Ub("gtotT")>>), BarrierV>>
    \o Sync("V", "MTE3", 1)
    \o <<Store(G("decay"), Ub("decayRow")), Barrier>>

ChunkHUpdate ==
  <<Load(Ub("kvT"), G("KV")), Load(Ub("sT"), G("S")), Load(Ub("decayT"), G("decay")),
    Barrier, Store(G("s_snap"), Ub("sT")), Barrier,
    Vec("TROWEXPANDMUL", Ub("sT"), <<Ub("sT"), Ub("decayT")>>), BarrierV,
    Vec("TADD", Ub("sT"), <<Ub("sT"), Ub("kvT")>>), Barrier,
    Store(G("S"), Ub("sT")), Barrier>>

ChunkHFirst ==
  <<Load(Ub("kvT"), G("KV")), Vec("TEXPANDS", Ub("sT"), <<>>), Barrier,
    Store(G("s_snap"), Ub("sT")), Store(G("S"), Ub("kvT")), Barrier>>

\* The mutant drops the flag.
NoReuseFlag     == <<>>

\* The MTE3 -> MTE2 flag frees xT of the q_eff store before k is loaded in it.
ReuseAfterStore == Sync("MTE3", "MTE2", 0)

ChunkOPrep ==
  <<Load(Ub("gT"), G("g_cs"))>> \o Sync("MTE2", "V", 0)
    \o <<Vec("TEXP", Ub("eT"), <<Ub("gT")>>), BarrierV, Load(Ub("xT"), G("q"))>>
    \o Sync("MTE2", "V", 0)
    \o <<Vec("TMUL", Ub("xT"), <<Ub("xT"), Ub("eT")>>), BarrierV>>
    \o Sync("V", "MTE3", 0)
    \o <<Store(G("q_eff"), Ub("xT")),
         Vec("TMULS", Ub("gT"), <<Ub("gT")>>), BarrierV,
         Vec("TEXP", Ub("gT"), <<Ub("gT")>>), BarrierV>>
    \o ReuseAfterStore
    \o <<Load(Ub("xT"), G("k"))>> \o Sync("MTE2", "V", 0)
    \o <<Vec("TMUL", Ub("xT"), <<Ub("xT"), Ub("gT")>>), BarrierV>>
    \o Sync("V", "MTE3", 1)
    \o <<Store(G("k_eff"), Ub("xT")), Barrier>>

ChunkOElt(op) ==
  <<Load(Ub("aT"), G("a")), Load(Ub("bT"), G("b"))>> \o Sync("MTE2", "V", 0)
    \o <<Vec(op, Ub("aT"), <<Ub("aT"), Ub("bT")>>), BarrierV>>
    \o Sync("V", "MTE3", 0)
    \o <<Store(G("out"), Ub("aT")), Barrier>>

\* Cube: TEXTRACT moves a tile to L0; TRESHAPE before it transposes the tile.
Extract(l0, mat, transposed) ==
  Op("MTE1", IF transposed THEN "transpose" ELSE "copy", <<Ub(l0)>>, <<Ub(mat)>>)

MatMul(mode) ==
  <<Load(Ub("aMat"), G("a")), Load(Ub("bMat"), G("b"))>>
    \o Sync("MTE2", "MTE1", 1) \o Sync("M", "MTE1", 1)
    \o <<Extract("l0a", "aMat", mode = "TN"), Extract("l0b", "bMat", mode = "NT")>>
    \o Sync("MTE1", "M", 1)
    \o <<Op("M", "TMATMUL", <<Ub("cTile")>>, <<Ub("l0a"), Ub("l0b")>>)>>
    \o Sync("M", "FIX", 1)
    \o <<Op("FIX", "copy", <<G("c")>>, <<Ub("cTile")>>), Barrier>>

GateCumsum ==
  <<Load(Ub("aMat"), G("tril")), Load(Ub("bMat"), G("g"))>>
    \o Sync("MTE2", "MTE1", 0)
    \o <<Extract("l0a", "aMat", FALSE), Extract("l0b", "bMat", FALSE)>>
    \o Sync("MTE1", "M", 0)
    \o <<Op("M", "TMATMUL", <<Ub("cTile")>>, <<Ub("l0a"), Ub("l0b")>>)>>
    \o Sync("M", "FIX", 0)
    \o <<Op("FIX", "copy", <<G("g_cs")>>, <<Ub("cTile")>>), Barrier>>

-----------------------------------------------------------------------------
(* A kernel is <<file, variant>>; its program, and the value its header     *)
(* promises for every block it stores                                       *)

Program(kernel) ==
  CASE kernel[1] = "allscan"          -> AllScan(kernel[2])
    [] kernel[1] = "allscan_backward" -> AllScanBackward(kernel[2])
    [] kernel[1] = "chunk_h_prep"     -> ChunkHPrep
    [] kernel[1] = "chunk_h_update"   -> IF kernel[2] = "first" THEN ChunkHFirst ELSE ChunkHUpdate
    [] kernel[1] = "chunk_o_prep"     -> ChunkOPrep
    [] kernel[1] = "chunk_o_elt"      -> ChunkOElt(kernel[2])
    [] kernel[1] = "matmul"           -> MatMul(kernel[2])
    [] kernel[1] = "gate_cumsum"      -> GateCumsum

ScanResult(role, k) ==
  IF role = "first" THEN Gm("s_local", k)
  ELSE <<"TADD", Gm("s_local", k), <<"TROWEXPANDMUL", Gm("recv", k), Gm("gamma", k)>>>>

StateGrad(role, k) ==
  IF role = "last" THEN Gm("g_out", k) ELSE <<"TADD", Gm("g_out", k), Gm("recv", k)>>

Message(role, k) == <<"TROWEXPANDMUL", StateGrad(role, k), Gm("gamma", k)>>
DecayGrad(role, k) == <<"TROWSUM", <<"TMUL", StateGrad(role, k), Gm("out_prev", k)>>>>

PromisedScan(role) ==
  {<<Gm("output", k), ScanResult(role, k)>> : k \in Blocks} \cup
  (IF role = "last" THEN {} ELSE {<<Gm("remote", k), ScanResult(role, k)>> : k \in Blocks})

PromisedBackward(role) ==
  {<<Gm("dS", k), StateGrad(role, k)>> : k \in Blocks} \cup
  (IF role = "first" THEN {} ELSE
     {<<Gm("remote", k), Message(role, k)>> : k \in Blocks} \cup
     {<<Gm("dgamma", k), DecayGrad(role, k)>> : k \in Blocks})

Decayed == <<"TEXP", <<"TSUB", <<"TCOLEXPAND", G("g_total")>>, G("g_cs")>>>>
Advanced == <<"TADD", <<"TROWEXPANDMUL", G("S"), G("decay")>>, G("KV")>>
Left(mode)  == IF mode = "TN" THEN <<"transpose", G("a")>> ELSE G("a")
Right(mode) == IF mode = "NT" THEN <<"transpose", G("b")>> ELSE G("b")

\* The pairs <<block stored, value promised>> of a kernel.
Promised(kernel) ==
  CASE kernel[1] = "allscan"          -> PromisedScan(kernel[2])
    [] kernel[1] = "allscan_backward" -> PromisedBackward(kernel[2])
    [] kernel[1] = "chunk_h_prep"     ->
         {<<G("k_rest"), <<"TMUL", Decayed, G("k")>>>>, <<G("decay"), <<"TEXP", G("g_total")>>>>}
    [] kernel[1] = "chunk_h_update"   ->
         IF kernel[2] = "first" THEN {<<G("s_snap"), <<"TEXPANDS">>>>, <<G("S"), G("KV")>>}
         ELSE {<<G("s_snap"), G("S")>>, <<G("S"), Advanced>>}
    [] kernel[1] = "chunk_o_prep"     ->
         {<<G("q_eff"), <<"TMUL", G("q"), <<"TEXP", G("g_cs")>>>>>>,
          <<G("k_eff"), <<"TMUL", G("k"), <<"TEXP", <<"TMULS", G("g_cs")>>>>>>>>}
    [] kernel[1] = "chunk_o_elt"      -> {<<G("out"), <<kernel[2], G("a"), G("b")>>>>}
    [] kernel[1] = "matmul"           ->
         {<<G("c"), <<"TMATMUL", Left(kernel[2]), Right(kernel[2])>>>>}
    [] kernel[1] = "gate_cumsum"      -> {<<G("g_cs"), <<"TMATMUL", G("tril"), G("g")>>>>}
=============================================================================
