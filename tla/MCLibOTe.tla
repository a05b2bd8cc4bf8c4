------------------------------- MODULE MCLibOTe -------------------------------
(* The extensions of libOTe on small instances: OT, silent VOLE and LogVole.  *)
(* A behaviour is one session of one of them: "part" says of which, with      *)
(* which parameters, and never changes; what the part does not use keeps its  *)
(* first value.  Small tables cover the sizes, settings and a second call;    *)
(* check instances add a receiver that uses two choices, split objects and    *)
(* the settings the checks depend on.                                         *)
EXTENDS LogVoleSession, LogVole

VARIABLES part,
          oS, oR, oToS, oToR,               \* the objects and the channel of OtExt to SilentOt
          conf, call, closed, seen, mDelta  \* OtExt, DotOt, NcoOt, SilentVole
sessionVars == vars
pairVars == <<oS, oR, oToS, oToR>>
suiteVars == <<part, pairVars, conf, call, closed, seen, mDelta, sessionVars, ringVars>>

RingIdle == stage = "" /\ run = 0 /\ sender = 0 /\ receiver = 0 /\ wire = 0
PlanIdle ==
    /\ plan = <<>> /\ left = {} /\ S = Object /\ R = Object
    /\ toS = <<>> /\ toR = <<>> /\ outS = <<>> /\ outR = <<>>
SessionIdle == PlanIdle /\ RingIdle
PairIdle == oS = 0 /\ oR = 0 /\ oToS = 0 /\ oToR = 0
OtIdle == conf = 0 /\ call = 0 /\ closed = FALSE /\ seen = 0 /\ mDelta = 0

-------------------------------------------------------------------------------
(* OT extensions.                                                             *)

Ext == INSTANCE OtExt WITH
    S <- oS, R <- oR, toS <- oToS, toR <- oToR,
    BlockSize <- 2, Columns <- 2, CommStep <- 2, Sizes <- {1, 3},
    Kinds <- {"random", "chosen", "correlated"}, Mals <- BOOLEAN, FiatShamirs <- BOOLEAN,
    Hashes <- {"RandomOracle", "AesHash"}, Nexts <- {"again"}, Faults <- {0}
ExtCheck == INSTANCE OtExt WITH
    S <- oS, R <- oR, toS <- oToS, toR <- oToR,
    BlockSize <- 2, Columns <- 3, CommStep <- 2, Sizes <- {1, 2},
    Kinds <- {"random", "chosen"}, Mals <- BOOLEAN, FiatShamirs <- BOOLEAN,
    Hashes <- {"AesHash", "NoHash"}, Nexts <- {"again", "split"}, Faults <- {0, 3}
\* What the theorems about OtExt grant, of both instances.
ASSUME ExtGiven == Ext!Given /\ ExtCheck!Given

KosDot == INSTANCE DotOt WITH
    S <- oS, R <- oR, toS <- oToS, toR <- oToR,
    BlockSize <- 2, SuperBlkSize <- 2, CommStep <- 2, Columns <- 2,
    Sizes <- {1, 2, 4, 5, 7, 8}, Deltas <- {FALSE}, Nexts <- {"again"}, Faults <- {0}
DotCheck == INSTANCE DotOt WITH
    S <- oS, R <- oR, toS <- oToS, toR <- oToR,
    BlockSize <- 2, SuperBlkSize <- 1, CommStep <- 2, Columns <- 2,
    Sizes <- {1, 3}, Deltas <- BOOLEAN, Nexts <- {"again", "split"}, Faults <- 0 .. 3
Nco == INSTANCE NcoOt WITH
    S <- oS, R <- oR, toS <- oToS, toR <- oToR,
    BlockSize <- 2, SuperBlkSize <- 2, StatUnit <- 2, WordBits <- 1,
    Kinds <- {"kkrt", "oos"}, Stats <- {2}, Plans <- {<<2>>, <<1, 1>>},
    Flows <- {"direct"}, Nexts <- {"again"}, Faults <- {0}
NcoCheck == INSTANCE NcoOt WITH
    S <- oS, R <- oR, toS <- oToS, toR <- oToR,
    BlockSize <- 2, SuperBlkSize <- 2, StatUnit <- 2, WordBits <- 1,
    Kinds <- {"kkrt", "oosmal"}, Stats <- {1, 2}, Plans <- {<<1>>, <<2>>},
    Flows <- {"chosen"}, Nexts <- {"again", "split"}, Faults <- 0 .. 2
NcoProof == INSTANCE NcoOt WITH
    S <- oS, R <- oR, toS <- oToS, toR <- oToR,
    BlockSize <- 2, SuperBlkSize <- 2, StatUnit <- 2, WordBits <- 2,
    Kinds <- {"oosmal"}, Stats <- {2}, Plans <- {<<1>>, <<2>>},
    Flows <- {"direct"}, Nexts <- {"again"}, Faults <- {0}

-------------------------------------------------------------------------------
(* Silent VOLE: one and two calls, with and without configure, correlations   *)
(* made by the objects or given to them, both noises, sizes that are refused. *)

SilentOp == INSTANCE SilentVole WITH
    S <- oS, R <- oR, toS <- oToS, toR <- oToR,
    DeltaBits <- 2, Partitions <- 2, SizePer <- 2, Request <- 2, NoiseVecSize <- 5,
    Kinds <- {}, Plans <- {}, Debugs <- {}, Faults <- {}
All == SilentOp!Run(2, 2, FALSE)
SilentPlans ==
    { <<All, All>>,
      <<SilentOp!Configure("Regular", TRUE, "BaseExtend"), All, SilentOp!Run(2, 1, TRUE)>>,
      <<SilentOp!Configure("Regular", FALSE, "Base"), SilentOp!SetBase, All>>,
      <<SilentOp!Configure("Stationary", FALSE, "BaseExtend"), All, SilentOp!SetBase, All, All>>,
      <<SilentOp!Configure("Stationary", TRUE, "Base"), SilentOp!GenBase, All, All>>,
      <<SilentOp!Configure("Stationary", TRUE, "BaseExtend"), All,
        SilentOp!Configure("Regular", TRUE, "BaseExtend"), All>>,
      <<SilentOp!Configure("Regular", FALSE, "Base"), SilentOp!Run(2, 3, FALSE)>>,
      <<SilentOp!SetBase>>, <<SilentOp!GenBase>> }
DealtPlan == <<SilentOp!Configure("Regular", TRUE, "Base"), SilentOp!SetBase, All>>

Silent == INSTANCE SilentVole WITH
    S <- oS, R <- oR, toS <- oToS, toR <- oToR,
    DeltaBits <- 2, Partitions <- 2, SizePer <- 2, Request <- 2, NoiseVecSize <- 5,
    Kinds <- {"gf128", "integer"}, Plans <- SilentPlans, Debugs <- BOOLEAN, Faults <- {0, 1, 3}
Dealt == INSTANCE SilentVole WITH
    S <- oS, R <- oR, toS <- oToS, toR <- oToR,
    DeltaBits <- 2, Partitions <- 2, SizePer <- 2, Request <- 2, NoiseVecSize <- 5,
    Kinds <- {"gf128"}, Plans <- {DealtPlan}, Debugs <- {FALSE}, Faults <- {0}

-------------------------------------------------------------------------------
(* Silent OT: every kind of call, both noises, base correlations of every     *)
(* source, a second call, a split, and the calls the objects refuse or fail   *)
(* over.                                                                      *)

D1 == <<"d1", 0>>
D2 == <<"d2", 0>>
OtOp == INSTANCE SilentOt WITH
    S <- oS, R <- oR, toS <- oToS, toR <- oToR,
    Partitions <- 2, SizePer <- 3, Request <- 3, NoiseVecSize <- 7,
    Points <- {}, BaseChoices <- {}, Plans <- {}, Debugs <- {}, Faults <- {}
Transfer(kind) == OtOp!Run(kind, OtOp!Any, 3)
SilentOtPlans ==
    { <<Transfer("random"), Transfer("correlated")>>,
      <<OtOp!Configure("Regular", TRUE), OtOp!Run("correlated", D1, 3), Transfer("inplace")>>,
      <<OtOp!Configure("Regular", TRUE), OtOp!GenCors(D1, FALSE), Transfer("inplace"),
        Transfer("chosen")>>,
      <<OtOp!Configure("Stationary", TRUE), Transfer("random"), Transfer("chosen")>>,
      <<OtOp!Configure("Stationary", FALSE), OtOp!GenCors(D1, FALSE),
        OtOp!Run("inplace", D1, 3), Transfer("random")>>,
      <<OtOp!Configure("Stationary", FALSE), OtOp!SetCors(D1), Transfer("random"),
        OtOp!Run("correlated", D2, 3)>>,
      <<OtOp!Configure("Stationary", TRUE), OtOp!SetCors(D1), OtOp!Run("correlated", D1, 3),
        Transfer("random")>>,
      <<OtOp!Configure("Stationary", TRUE), OtOp!SetCors(D1), OtOp!Clear, Transfer("random")>>,
      <<OtOp!GenOts, Transfer("random"), OtOp!Split, Transfer("random")>>,
      <<OtOp!Query("both"), Transfer("random"), OtOp!Configure("Stationary", FALSE),
        Transfer("random")>>,
      <<OtOp!SetOts(D1), OtOp!Configure("Stationary", FALSE), OtOp!Run("inplace", D1, 3)>>,
      <<OtOp!Query("sender"), Transfer("random")>>, <<OtOp!Query("receiver"), Transfer("random")>>,
      <<OtOp!Configure("Regular", FALSE), OtOp!GenCors(D1, TRUE), OtOp!GenCors(D1, TRUE),
        Transfer("random")>>,
      <<OtOp!Configure("Regular", TRUE), OtOp!Run("random", OtOp!Any, 2)>>,
      <<OtOp!SetCors(D1)>>, <<OtOp!Split>>, <<OtOp!GenCors(OtOp!Any, TRUE)>> }

SilentT == INSTANCE SilentOt WITH
    S <- oS, R <- oR, toS <- oToS, toR <- oToR,
    Partitions <- 2, SizePer <- 3, Request <- 3, NoiseVecSize <- 7,
    Points <- {[j \in 0 .. 1 |-> 2 * j], [j \in 0 .. 1 |-> 2 - j]},
    BaseChoices <- {<<1, 1>>, <<0, 1>>},
    Plans <- SilentOtPlans, Debugs <- BOOLEAN, Faults <- {0, 1}

-------------------------------------------------------------------------------
(* LogVole.                                                                   *)

Calls == {<<"transfer", 1>>, <<"sid", 0>>, <<"sid", 1>>, <<"releaseK", 0>>, <<"releaseK", 1>>,
          <<"offline">>, <<"configure", 2>>, <<"clear">>}

FirstCalls == {<<"transfer", 1>>, <<"sid", 0>>, <<"releaseK", 1>>, <<"offline">>}

\* An explicit id is only used after an offline phase that still stands.
Sensible(p) ==
    \A i \in 1..Len(p) :
        p[i][1] \in {"sid", "releaseK"} =>
            \E j \in 1..(i - 1) :
                /\ p[j][1] \in {"offline", "transfer"}
                /\ \A m \in (j + 1)..(i - 1) : p[m][1] \notin {"configure", "clear"}
                /\ p[j][1] = "offline" => \E m \in 1..(j - 1) : p[m][1] = "configure"

PlansLong ==
    {p \in {<<<<"configure", 1>>, <<"offline">>, a, b, c, d>> : a \in FirstCalls, b, c, d \in Calls}
           \union {<<<<"transfer", 1>>, a, b, c>> : a, b, c \in Calls} : Sensible(p)}
\* Here the state may be gone when an explicit id is used.
PlansFault ==
    {<<<<"configure", 1>>, <<"offline">>, <<"transfer", 1>>, a, b>> : a, b \in Calls}
    \union {<<<<"transfer", 1>>, a, <<"transfer", 1>>>> : a \in Calls}

\* The same plans' session with more faults; MCLibOTe extends the one without.
Faulty == INSTANCE LogVoleSession WITH
    Plans <- PlansFault, Retries <- 1, Faults <- {"badDelta", "seedFails", "size"}

-------------------------------------------------------------------------------
\* The ring protocol over three primes of ten bits: a root alone, one level
\* above the root, and two levels with one encoding used twice.
Primes == <<1009, 1013, 1019>>
Vector(w) == [i \in 1 .. w |-> ((i * i * 8) + (i * 4) + 1) % P]
MCRuns == [salt : {1, 2, 21}, delta : {5}, x : {Vector(12)}]
          \union [salt : {1, 4}, delta : {7}, x : {Vector(13)}]
          \union [salt : {2, 3}, delta : {12}, x : {Vector(25)}]

SuiteInit ==
    \/ part = "ext" /\ Ext!Init /\ mDelta = 0 /\ SessionIdle
    \/ part = "extCheck" /\ ExtCheck!Init /\ mDelta = 0 /\ SessionIdle
    \/ part = "dot" /\ KosDot!Init /\ SessionIdle
    \/ part = "dotCheck" /\ DotCheck!Init /\ SessionIdle
    \/ part = "nco" /\ Nco!Init /\ mDelta = 0 /\ SessionIdle
    \/ part = "ncoCheck" /\ NcoCheck!Init /\ mDelta = 0 /\ SessionIdle
    \/ part = "ncoProof" /\ NcoProof!Init /\ mDelta = 0 /\ SessionIdle
    \/ /\ part = "silent" /\ Silent!Init
       /\ call = 0 /\ seen = 0 /\ mDelta = 0 /\ SessionIdle
    \/ /\ part = "silentOt" /\ SilentT!Init
       /\ call = 0 /\ seen = 0 /\ mDelta = 0 /\ SessionIdle
    \/ part = "session" /\ Init /\ PairIdle /\ OtIdle /\ RingIdle
    \/ part = "faulty" /\ Faulty!Init /\ PairIdle /\ OtIdle /\ RingIdle
    \/ part = "ring" /\ RingInit /\ PairIdle /\ OtIdle /\ PlanIdle

\* What the steps of a part leave alone.
OtRest == UNCHANGED <<part, mDelta, sessionVars, ringVars>>
DotRest == UNCHANGED <<part, sessionVars, ringVars>>
SilentRest == UNCHANGED <<part, call, seen, mDelta, sessionVars, ringVars>>
SessionRest == UNCHANGED <<part, pairVars, conf, call, closed, seen, mDelta, ringVars>>
RingRest == UNCHANGED <<part, pairVars, conf, call, closed, seen, mDelta, sessionVars>>

SuiteNext ==
    \/ part = "ext" /\ Ext!Next /\ OtRest
    \/ part = "extCheck" /\ ExtCheck!Next /\ OtRest
    \/ part = "dot" /\ KosDot!Next /\ DotRest
    \/ part = "dotCheck" /\ DotCheck!Next /\ DotRest
    \/ part = "nco" /\ Nco!Next /\ OtRest
    \/ part = "ncoCheck" /\ NcoCheck!Next /\ OtRest
    \/ part = "ncoProof" /\ NcoProof!Next /\ OtRest
    \/ part = "silent" /\ Silent!Next /\ SilentRest
    \/ part = "silentOt" /\ SilentT!Next /\ SilentRest
    \/ part = "session" /\ Next /\ SessionRest
    \/ part = "faulty" /\ Faulty!Next /\ SessionRest
    \/ part = "ring" /\ RingNext /\ RingRest

\* Both coroutines of the part that runs are resumed.
SuiteFairness ==
    /\ WF_suiteVars(part = "extCheck" /\ ExtCheck!ReceiverNext /\ OtRest)
    /\ WF_suiteVars(part = "extCheck" /\ ExtCheck!SenderNext /\ OtRest)
    /\ WF_suiteVars(part = "dotCheck" /\ DotCheck!Receiver /\ DotRest)
    /\ WF_suiteVars(part = "dotCheck" /\ DotCheck!Sender /\ DotRest)
    /\ WF_suiteVars(part = "ncoCheck" /\ NcoCheck!ReceiverNext /\ OtRest)
    /\ WF_suiteVars(part = "ncoCheck" /\ NcoCheck!SenderNext /\ OtRest)
    /\ WF_suiteVars(part = "session" /\ SenderStep /\ SessionRest)
    /\ WF_suiteVars(part = "session" /\ ReceiverStep /\ SessionRest)

SuiteSpec == SuiteInit /\ [][SuiteNext]_suiteVars /\ SuiteFairness

\* Silent VOLE on correlations given to it.
DealtSpec ==
    /\ part = "dealt" /\ Dealt!Init
    /\ call = 0 /\ seen = 0 /\ mDelta = 0 /\ SessionIdle
    /\ [][Dealt!Next /\ SilentRest]_suiteVars

-------------------------------------------------------------------------------
\* Counters, matrices and message buffers stay within what the objects have.
TypeOK ==
    /\ part = "ext" => Ext!TypeOK
    /\ part = "dot" => KosDot!TypeOK
    /\ part = "nco" => Nco!TypeOK

\* IKNP and KOS: a call both sides return from is an OT, over partial blocks,
\* several messages of u, every hash and a second call, although a receiver
\* used another choice in one column.
OtCorrect ==
    /\ part = "ext" => Ext!OtCorrect
    /\ part = "extCheck" => ExtCheck!OtCorrect

\* KosDot: the pairs differ by mDelta and the receiver has what it chose.
DotCorrect ==
    /\ part = "dot" => KosDot!DotCorrect
    /\ part = "dotCheck" => DotCheck!DotCorrect

\* The correlation is that of the first call, on a second one and after a split.
DeltaKept ==
    [][part = "dotCheck" /\ mDelta # DotCheck!ZeroBlock /\ mDelta' # DotCheck!ZeroBlock
         => mDelta' = mDelta]_suiteVars

\* KKRT and OOS: an encoding of the sender is the receiver's exactly for the
\* word it chose.
EncodingsAgree ==
    /\ part = "nco" => Nco!EncodingsAgree
    /\ part = "ncoCheck" => NcoCheck!EncodingsAgree
    /\ part = "ncoProof" => NcoProof!EncodingsAgree

\* The receiver of sendChosen has the message of its word.
ChosenCorrect == part = "ncoCheck" => NcoCheck!ChosenCorrect

\* A receiver that deviates in a column gets past the consistency check only
\* where the sender's choice hides it.
CheatCaught ==
    /\ part = "silent" => Silent!CheatCaught
    /\ part = "silentOt" => SilentT!CheatCaught
    /\ part = "extCheck" => ExtCheck!CheatCaught
    /\ part = "dotCheck" => DotCheck!CheatCaught
    /\ part = "ncoCheck" => NcoCheck!CheatCaught

\* No pad or row is used twice, by two calls or by a split pair.
PadsFresh ==
    /\ part = "silent" => Silent!PadsFresh
    /\ part = "silentOt" => SilentT!PadsFresh
    /\ part = "ext" => Ext!PadsFresh
    /\ part = "dotCheck" => DotCheck!PadsFresh
    /\ part = "ncoCheck" => NcoCheck!PadsFresh

\* Honest parties set up alike are never refused.  (A split malicious KOS pair
\* is: splitBase does not pass the base choices on; see the README.)
HonestSucceeds ==
    /\ part = "silent" => Silent!HonestSucceeds
    /\ part = "silentOt" => SilentT!HonestSucceeds
    /\ part = "ext" => Ext!HonestSucceeds
    /\ part = "dot" => KosDot!HonestSucceeds
    /\ part = "nco" => Nco!HonestSucceeds
    /\ part = "ncoCheck" => NcoCheck!HonestSucceeds
    /\ part = "ncoProof" => NcoProof!HonestSucceeds

\* Whatever is refused, found out or closed, both coroutines end.  With agreeing
\* plans both LogVole applications do, whatever local refusals happen on the way.
BothEnd ==
    <>[](/\ part \in {"extCheck", "dotCheck", "ncoCheck"} =>
              {oS.pc, oR.pc} \subseteq {"done", "throw"}
         /\ part = "session" => Ended)

\* Silent OT: a call both sides return from is the transfer asked for.
SilentOtCorrect == part = "silentOt" => SilentT!OtCorrect

\* Silent VOLE: a call both sides return from gives a = b + c * delta.
SilentCorrect == part = "silent" => Silent!VoleCorrect
-------------------------------------------------------------------------------
\* What both sides return from is the transfer each protocol promises, and a Delta OT
\* keeps its correlation.
TransfersRight ==
    [](TypeOK /\ OtCorrect /\ DotCorrect /\ EncodingsAgree /\ ChosenCorrect
       /\ SilentOtCorrect) /\ DeltaKept

\* What both sides return from is a VOLE, silent or by LogVole, over an instance of one
\* size.
VoleRight == SilentCorrect /\ VoleHolds /\ SizesAgree

\* Honest parties do not fail either when the correlations come from setBaseCors and
\* the malicious check is on.
DerandomizedSucceeds == part = "dealt" => Dealt!DerandomizedSucceeds

\* The ring protocol: at every level the receiver's labels are the sender's plus
\* secret times digit up to the noise the seed search allows for, and the outputs
\* satisfy a = b + x Delta mod p, when the labels of the root's key are clear.
RingVole == part = "ring" => LabelsNear /\ OutputsFit /\ EncodingsMean
===============================================================================
