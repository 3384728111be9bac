------------------------------- MODULE MCParts -------------------------------
(***************************************************************************)
(* The parts whose models share no state: the transaction engine, the RPC  *)
(* service, the snapshot journal, the sampler, and the kernels of a layer. *)
(* A behaviour runs one of them, its focus; the others keep still.         *)
(*                                                                         *)
(* The engine's frontiers and epochs overflow at 4, so that every checked  *)
(* addition is refused somewhere.  The service has two connections, three  *)
(* request ids and a cache of two responses: a retry meets a cached, an    *)
(* evicted and a dropped response, and the second connection's request     *)
(* waits, is admitted, or cancels the first one's.                         *)
(***************************************************************************)
EXTENDS SessionTxn, ExecutorRpc, SnapshotJournal, Sampler, TopkRouter,
        MoeExperts, GdnKernels, QsaSelect, QsaAttention

VARIABLE focus

partsVars == <<focus, engineVars, rpcVars, journalVars, samplerVars, routerVars,
               moeVars, gdnVars, qsaVars, attnVars>>

\* Only the service knows of clients, and it treats them alike.
ClientSymmetry == Permutations(Clients)

\* Sessions that grow, shrink, diverge after a common token, and start anew.
MCSessions == {<<>>, <<2>>, <<1, 1>>, <<1, 2>>}

\* Logits after each token, one of them -inf; draws that meet every interval.
MCNegInf == -100
MCLogit == [t \in SVocab |-> [u \in SVocab |->
                IF t = 2 /\ u = 2 THEN MCNegInf ELSE ((3 * t + 2 * u) % 5) - 1]]
MCUniform == [n \in 1..6 |-> (5 * n) % 8]

\* Logits of which at most one stands out; below it the exponentials are equal.
MCRows ==
    LET low == [RIds -> {0, 1}] IN
        low \cup {[f EXCEPT ![e] = 3] : f \in low, e \in RIds}
MCExpf == [d \in -3..0 |-> IF d = 0 THEN 2 ELSE 1]

\* Two input tokens with different projections in every channel.
MCProjected == [x \in {1, 2} |->
    [in |-> [c \in {"q", "k", "v"} \X (0..1) |->
                (x * (CASE c[1] = "q" -> 3 [] c[1] = "k" -> 4 [] OTHER -> 5)
                    + 2 * c[2] + x) % 11],
     ab |-> <<x, x + 1>>]]

MCAffinity == [t \in QTokens |-> t]
MCAttnDot == [h \in 0..1 |-> [p \in 0..4 |-> (3 * h + 2 * p + h * p) % 5]]

PartsInit ==
    /\ focus \in {"engine", "rpc", "journal", "sampler", "router", "moe", "gdn",
                  "qsa", "attention"}
    /\ EngineInit /\ RpcInit /\ JournalInit /\ SamplerInit /\ RouterInit /\ MoeInit
    /\ GdnInit /\ QsaInit /\ AttnInit

\* All parts but this one keep still.
Others(part) ==
    /\ UNCHANGED focus
    /\ IF part = "engine" THEN TRUE ELSE UNCHANGED engineVars
    /\ IF part = "rpc" THEN TRUE ELSE UNCHANGED rpcVars
    /\ IF part = "journal" THEN TRUE ELSE UNCHANGED journalVars
    /\ IF part = "sampler" THEN TRUE ELSE UNCHANGED samplerVars
    /\ IF part = "router" THEN TRUE ELSE UNCHANGED routerVars
    /\ IF part = "moe" THEN TRUE ELSE UNCHANGED moeVars
    /\ IF part = "gdn" THEN TRUE ELSE UNCHANGED gdnVars
    /\ IF part = "qsa" THEN TRUE ELSE UNCHANGED qsaVars
    /\ IF part = "attention" THEN TRUE ELSE UNCHANGED attnVars

PartsNext ==
    \/ focus = "engine" /\ EngineNext /\ Others("engine")
    \/ focus = "rpc" /\ RpcNext /\ Others("rpc")
    \/ focus = "journal" /\ JournalNext /\ Others("journal")
    \/ focus = "sampler" /\ SamplerNext /\ Others("sampler")
    \/ focus = "router" /\ RouterNext /\ Others("router")
    \/ focus = "moe" /\ MoeNext /\ Others("moe")
    \/ focus = "gdn" /\ GdnNext /\ Others("gdn")
    \/ focus = "qsa" /\ QsaNext /\ Others("qsa")
    \/ focus = "attention" /\ AttnNext /\ Others("attention")

PartsSpec == PartsInit /\ [][PartsNext]_partsVars
=============================================================================
