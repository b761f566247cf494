---------------------------- MODULE ServicesProofs ----------------------------
(***************************************************************************)
(* Proofs about the parts around the engine: the gate of POST /tx, the     *)
(* limiter of /wallet/restore, the light router and the reward engine.     *)
(***************************************************************************)
EXTENDS TxGate, Limiter, LightRouter, Rewards, BaseProofs

(***************************************************************************)
(* The gate.  What each handler has established is what the next one, and  *)
(* in the end the engine, relies on.                                       *)
(***************************************************************************)
Prechecked == req.json /\ PrecheckErrors = {}

SigChecked ==
    \/ NoKey \in {req.key, req.sig.by} /\ ~ env.verifySig
    \/ req.sig = [by |-> req.key, over |-> "this"]

BindingChecked ==
    \/ req.key = NoKey /\ ~ env.requireKey
    \/ VerifyFromBinding(req.from, req.key)

\* The refusals that go through jsonizeSigErrors.
GateReasons == {"signature_required", "bad_signature_encoding", "bad_signature",
                "from_pubkey_required", "bad_pubkey_encoding", "from_pubkey_mismatch",
                "commitment_required", "bad_commitment"}

Refused == engine = "untouched" /\ reply.status = 400 /\ reply.reason \in GateReasons

Posted ==
    \/ engine = "changed" /\ reply = Reply(200, "applied")
    \/ engine = "changed" /\ reply = Reply(400, "apply:io_error")
    \/ /\ engine = "receipt"
       /\ reply \in {Reply(400, "apply:bad_nonce"), Reply(400, "apply:insufficient_funds")}

GateInv ==
    /\ req \in Req
    /\ stage \in {"precheck", "sig", "binding", "commit", "post", "jsonize", "done"}
    /\ stage \notin {"jsonize", "done"} => engine = "untouched"
    /\ stage \in {"sig", "binding", "commit", "post"} \/ engine # "untouched" => Prechecked
    /\ stage \in {"binding", "commit", "post"} \/ engine # "untouched" => SigChecked
    /\ stage \in {"commit", "post"} \/ engine # "untouched" => BindingChecked
    /\ stage = "jsonize" => Refused \/ Posted
    /\ RepliesTruthful

\* The invariant holds of a request that arrives, and every handler keeps it.
LEMMA GateInductive ==
    /\ Init => GateInv
    /\ GateInv /\ [Next]_vars => GateInv'
<1>1. Init => GateInv
  BY DEF Init, GateInv, RepliesTruthful
<1>2. ASSUME GateInv, UNCHANGED <<req, env, height>>
      PROVE  /\ Prechecked' <=> Prechecked
             /\ SigChecked' <=> SigChecked
             /\ BindingChecked' <=> BindingChecked
  BY <1>2 DEF Prechecked, PrecheckErrors, ExpectedFee, SigChecked, BindingChecked
<1>3. ASSUME GateInv, UNCHANGED vars PROVE GateInv'
  <2>1. /\ Refused' <=> Refused
        /\ Posted' <=> Posted
        /\ RepliesTruthful' <=> RepliesTruthful
    BY <1>3 DEF vars, Refused, Posted, RepliesTruthful
  <2>2. QED
    BY <1>2, <1>3, <2>1 DEF GateInv, vars
<1>4. ASSUME GateInv, Precheck PROVE GateInv'
  <2>1. UNCHANGED <<req, env, height, engine>> /\ stage = "precheck"
    BY <1>4 DEF Precheck, Pass
  <2>2. CASE Prechecked /\ stage' = "sig"
    BY <1>2, <1>4, <2>1, <2>2 DEF GateInv, RepliesTruthful
  <2>3. CASE /\ stage' = "done"
             /\ reply' = Reply(400, IF req.json THEN "tx_precheck_failed" ELSE "malformed_json")
    BY <1>2, <1>4, <2>1, <2>3 DEF GateInv, RepliesTruthful, Reply
  <2>4. QED
    BY <1>4, <2>2, <2>3 DEF Precheck, Pass, Prechecked
<1>5. ASSUME GateInv, NEW why \in GateReasons, Answer(400, why),
             stage \in {"sig", "binding", "commit"}
      PROVE  GateInv'
  <2>1. /\ UNCHANGED <<req, env, height, engine>> /\ stage' = "jsonize"
        /\ reply' = [status |-> 400, reason |-> why] /\ engine = "untouched"
    BY <1>5 DEF Answer, Reply, GateInv
  <2>2. Refused'
    BY <1>5, <2>1 DEF Refused
  <2>3. QED
    BY <1>2, <1>5, <2>1, <2>2 DEF GateInv, RepliesTruthful
<1>6. ASSUME GateInv, PrecheckSig PROVE GateInv'
  <2>1. CASE SigChecked /\ Pass("binding")
    BY <1>2, <1>6, <2>1 DEF PrecheckSig, Pass, GateInv, RepliesTruthful
  <2>2. CASE \E why \in GateReasons : Answer(400, why)
    BY <1>5, <1>6, <2>2 DEF PrecheckSig
  <2>3. QED
    BY <1>6, <2>1, <2>2 DEF PrecheckSig, SigChecked, GateReasons
<1>7. ASSUME GateInv, PrecheckFromBinding PROVE GateInv'
  <2>1. CASE BindingChecked /\ Pass("commit")
    BY <1>2, <1>7, <2>1 DEF PrecheckFromBinding, Pass, GateInv, RepliesTruthful
  <2>2. CASE \E why \in GateReasons : Answer(400, why)
    BY <1>5, <1>7, <2>2 DEF PrecheckFromBinding
  <2>3. QED
    BY <1>7, <2>1, <2>2 DEF PrecheckFromBinding, BindingChecked, GateReasons
<1>8. ASSUME GateInv, PrecheckCommit PROVE GateInv'
  <2>1. CASE Pass("post")
    BY <1>2, <1>8, <2>1 DEF PrecheckCommit, Pass, GateInv, RepliesTruthful
  <2>2. CASE \E why \in GateReasons : Answer(400, why)
    BY <1>5, <1>8, <2>2 DEF PrecheckCommit
  <2>3. QED
    BY <1>8, <2>1, <2>2 DEF PrecheckCommit, GateReasons
<1>9. ASSUME GateInv, TxPost PROVE GateInv'
  <2>1. Posted'
    BY <1>9 DEF TxPost, Posted, Reply
  <2>2. QED
    BY <1>2, <1>9, <2>1 DEF TxPost, GateInv, RepliesTruthful
<1>10. ASSUME GateInv, JsonizeSigErrors PROVE GateInv'
  <2>1. /\ stage = "jsonize" /\ stage' = "done" /\ UNCHANGED <<req, env, height, engine>>
        /\ reply' = IF reply.status = 400 /\ reply.reason \in SigReasons
                    THEN Reply(200, "verify:bad_signature") ELSE reply
    BY <1>10 DEF JsonizeSigErrors
  <2>2. RepliesTruthful'
    <3>1. CASE Refused
      BY <2>1, <3>1 DEF Refused, GateReasons, SigReasons, RepliesTruthful, Reply
    <3>2. CASE Posted
      BY <2>1, <3>2 DEF Posted, SigReasons, RepliesTruthful, Reply
    <3>3. QED
      BY <1>10, <2>1, <3>1, <3>2 DEF GateInv
  <2>3. QED
    BY <1>2, <1>10, <2>1, <2>2 DEF GateInv
<1>11. QED
  BY <1>1, <1>3, <1>4, <1>6, <1>7, <1>8, <1>9, <1>10 DEF Next

\* minFeeMas asks for something, and for its share of an amount whose product fits.
LEMMA MinFeeShare ==
    ASSUME NEW x \in Nat, NEW word \in Nat, word > 10000
    PROVE  LET m == ((x + 9999) % word) \div 10000
           IN  /\ m \in Nat
               /\ x + 9999 < word => m * 10000 >= x
<1> DEFINE y == (x + 9999) % word
<1>1. y \in Nat /\ (x + 9999 < word => y = x + 9999)
  OBVIOUS
<1> HIDE DEF y
<1>2. y \div 10000 \in Nat /\ (y \div 10000) * 10000 > y - 10000
  BY <1>1
<1>3. QED
  BY <1>1, <1>2 DEF y

\* Every request, setting and height: what reaches the engine fits its words and pays its
\* fee (txPrecheckWith, minFeeMas).
THEOREM AdmittedTransfersFit == Spec => []AdmittedFits
<1>1. GateInv => AdmittedFits
  <2> SUFFICES ASSUME GateInv, Admitted
               PROVE  /\ req.amount > 0 /\ req.fee > 0
                      /\ req.amount + req.fee < Word
                      /\ req.amount * FeeBps + 9999 < Word =>
                           req.fee * 10000 >= req.amount * FeeBps
    BY DEF AdmittedFits
  <2>1. PrecheckErrors = {}
    BY DEF GateInv, Admitted, Prechecked
  <2>2. /\ req.amount \in Int /\ req.fee \in Int /\ FeeBps \in Nat /\ HalfWord \in Nat
        /\ req.amount < HalfWord /\ req.fee < HalfWord /\ HalfWord > 10000
    BY TxGateAssumption DEF GateInv
  <2>3. req.amount > 0 /\ ~ (req.fee < ExpectedFee)
    <3>1. "amount_le_0" \notin PrecheckErrors /\ "fee_below_min" \notin PrecheckErrors
      BY <2>1
    <3>2. ~ (req.amount <= 0) /\ ~ (req.fee < ExpectedFee)
      BY <3>1, Zenon DEF PrecheckErrors
    <3>3. QED
      BY <2>2, <3>2
  <2>4. Word \in Nat /\ Word > 10000 /\ Word = HalfWord + HalfWord
    BY <2>2 DEF Word
  <2> DEFINE x == req.amount * FeeBps
             m == ((x + 9999) % Word) \div 10000
  <2>5. x \in Nat
    BY <2>2, <2>3
  <2>6. ExpectedFee = IF m < 1 THEN 1 ELSE m
    BY <2>3 DEF ExpectedFee, MinFeeMas
  <2> HIDE DEF x
  <2>7. m \in Nat /\ (x + 9999 < Word => m * 10000 >= x)
    BY <2>4, <2>5, MinFeeShare
  <2> HIDE DEF m
  <2>8. req.fee >= 1 /\ req.fee >= m
    BY <2>2, <2>3, <2>6, <2>7
  <2>9. x + 9999 < Word => req.fee * 10000 >= x
    BY <2>2, <2>5, <2>7, <2>8
  <2>10. QED
    BY <2>2, <2>3, <2>4, <2>8, <2>9 DEF x
<1>2. QED
  BY <1>1, GateInductive, PTL DEF Spec

\* With both settings on nothing reaches the engine that the key bound to its sender did
\* not sign, and a key that is sent is checked under all settings (precheckSig,
\* precheckFromBindingWith).
THEOREM AdmittedTransfersAuthorised == Spec => []AdmittedAuthorised
<1>1. GateInv => AdmittedAuthorised
  <2> SUFFICES ASSUME GateInv, Admitted
               PROVE  /\ env.requireKey \/ req.key # NoKey => VerifyFromBinding(req.from, req.key)
                      /\ env.requireKey /\ env.verifySig =>
                           req.sig = [by |-> Bound[req.from], over |-> "this"]
    BY DEF AdmittedAuthorised
  <2>1. SigChecked /\ BindingChecked
    BY DEF GateInv, Admitted
  <2>2. QED
    BY <2>1 DEF SigChecked, BindingChecked, VerifyFromBinding
<1>2. QED
  BY <1>1, GateInductive, PTL DEF Spec

\* No reply lies about the engine, although a refused signature is answered with 200
\* (jsonizeSigErrors, txPostHandler).
THEOREM RepliesAreTruthful == Spec => []RepliesTruthful
<1>1. GateInv => RepliesTruthful
  BY DEF GateInv
<1>2. QED
  BY <1>1, GateInductive, PTL DEF Spec

(***************************************************************************)
(* The light router.  lcMu admits one writer, so the transactions taken    *)
(* are the receipts and at most one more.                                  *)
(***************************************************************************)
Writing(calls_) == {calls_[k].tx : k \in {j \in LcCall : calls_[j].at = "writing"}}

\* Each sender's nonces in N are those of its transactions in T.
NoncesMatch(T, N) ==
    \A s \in Sender :
        LET mine == {t \in T : t.from = s}
        IN  /\ IsFiniteSet(mine)
            /\ {t.nonce : t \in mine} = 0 .. N[s] - 1
            /\ Cardinality(mine) = N[s]

LightCall == [at : {"idle", "lock", "writing", "reading"},
              tx : LcTx \cup {[from |-> "nobody"]},
              reply : {"none", "bad_chain_id", "bad_nonce", "receipt"}]

LcData ==
    /\ lcNonces \in [Sender -> Nat]
    /\ lcReceipts \subseteq LcTx
    /\ lcHeight \in Nat
    /\ lcHeaders = [h \in 1 .. lcHeight |-> h]
    /\ lcBundles = [h \in 1 .. lcHeight |-> h]

LcShape == lcCalls \in [LcCall -> LightCall] /\ LcData

LcMutex ==
    \A k \in LcCall : /\ lcCalls[k].at = "writing" <=> lcMu = k
                      /\ lcCalls[k].at # "idle" => lcCalls[k].tx \in LcTx

LcInv ==
    /\ LcShape
    /\ LcMutex
    /\ NoncesMatch(Taken, lcNonces)
    /\ LightReceipts

\* NonceFits takes exactly the transaction the sender's nonce is next for.
LEMMA TakeNext ==
    ASSUME NEW T, NEW N \in [Sender -> Nat], NEW t \in LcTx,
           NoncesMatch(T, N), t.nonce = N[t.from]
    PROVE  NoncesMatch(T \cup {t}, [N EXCEPT ![t.from] = @ + 1])
<1> DEFINE M == [N EXCEPT ![t.from] = @ + 1]
<1>1. t.from \in Sender
  BY DEF Sender
<1> SUFFICES ASSUME NEW s \in Sender
             PROVE  LET mine == {u \in T \cup {t} : u.from = s}
                    IN  /\ IsFiniteSet(mine)
                        /\ {u.nonce : u \in mine} = 0 .. M[s] - 1
                        /\ Cardinality(mine) = M[s]
  BY DEF NoncesMatch
<1> DEFINE mine == {u \in T : u.from = s}
           more == {u \in T \cup {t} : u.from = s}
<1>2. /\ IsFiniteSet(mine) /\ {u.nonce : u \in mine} = 0 .. N[s] - 1
      /\ Cardinality(mine) = N[s] /\ N[s] \in Nat
  BY DEF NoncesMatch
<1>3. CASE s # t.from
  <2>1. more = mine /\ M[s] = N[s]
    BY <1>3
  <2>2. QED
    BY <1>2, <2>1
<1>4. CASE s = t.from
  <2>1. more = mine \cup {t} /\ M[s] = N[s] + 1
    BY <1>1, <1>4
  <2>2. t \notin mine
    BY <1>2, <1>4
  <2>3. IsFiniteSet(more) /\ Cardinality(more) = N[s] + 1
    <3> HIDE DEF mine, more
    <3>1. QED
      BY <1>2, <2>1, <2>2, FS_AddElement
  <2>4. {u.nonce : u \in more} = {u.nonce : u \in mine} \cup {N[s]}
    BY <1>4, <2>1
  <2>5. (0 .. N[s] - 1) \cup {N[s]} = 0 .. N[s] + 1 - 1
    BY <1>2
  <2>6. QED
    BY <1>2, <2>1, <2>3, <2>4, <2>5
<1>5. QED
  BY <1>3, <1>4

\* Nothing taken, nothing counted: the state a process starts from.
LEMMA NothingTaken == NoncesMatch({}, [s \in Sender |-> 0])
BY FS_EmptySet DEF NoncesMatch

\* A process starts, and starts again, in the invariant.
LEMMA LightStarts ==
    /\ lcMu = Nobody /\ lcNonces = [s \in Sender |-> 0] /\ lcReceipts = {}
    /\ lcHeight = 0 /\ lcHeaders = NoHeights /\ lcBundles = NoHeights
    /\ lcCalls = [k \in LcCall |-> Waiting]
    => LcInv
<1> SUFFICES ASSUME lcMu = Nobody, lcNonces = [s \in Sender |-> 0], lcReceipts = {},
                    lcHeight = 0, lcHeaders = NoHeights, lcBundles = NoHeights,
                    lcCalls = [k \in LcCall |-> Waiting]
             PROVE  LcInv
  OBVIOUS
<1>1. LcShape
  <2>1. Waiting \in LightCall
    BY DEF Waiting, LightCall
  <2>2. NoHeights = [h \in 1 .. 0 |-> h]
    BY DEF NoHeights
  <2>3. LcData
    BY <2>2 DEF LcData
  <2>4. QED
    BY <2>1, <2>3 DEF LcShape
<1>2. LcMutex
  BY LightRouterAssumption DEF LcMutex, Waiting
<1>3. Taken = {}
  BY DEF Taken, Waiting
<1>4. LightReceipts
  BY DEF LightReceipts, Waiting
<1>5. QED
  BY <1>1, <1>2, <1>3, <1>4, NothingTaken DEF LcInv

\* Every step of the light router keeps its invariant.
LEMMA LightStep == LcInv /\ [LcNext]_lcVars => LcInv'
<1> SUFFICES ASSUME LcInv, [LcNext]_lcVars PROVE LcInv'
  OBVIOUS
<1> USE DEF LcInv
<1>t. Taken = lcReceipts \cup Writing(lcCalls) /\ Taken' = lcReceipts' \cup Writing(lcCalls')
  BY DEF Taken, Writing
<1>d. ASSUME UNCHANGED <<lcNonces, lcReceipts, lcHeight, lcHeaders, lcBundles>> PROVE LcData'
  BY <1>d DEF LcShape, LcData
<1>c. ASSUME NEW k \in LcCall, NEW p \in {"idle", "writing", "reading"},
             NEW r \in {"bad_nonce", "receipt"}
      PROVE  /\ [lcCalls EXCEPT ![k].at = p] \in [LcCall -> LightCall]
             /\ [lcCalls EXCEPT ![k].at = p, ![k].reply = r] \in [LcCall -> LightCall]
  BY DEF LcShape, LightCall
<1>1. ASSUME NEW k \in LcCall, NEW t \in LcTx, TxDecode(k, t) PROVE LcInv'
  <2>1. UNCHANGED lcState
    BY <1>1 DEF TxDecode
  <2>2. LcShape'
    <3>1. /\ [at |-> "lock", tx |-> t, reply |-> "none"] \in LightCall
          /\ [at |-> "idle", tx |-> t, reply |-> "bad_chain_id"] \in LightCall
      BY DEF LightCall
    <3>2. lcCalls' \in [LcCall -> LightCall]
      BY <1>1, <3>1 DEF TxDecode, LcShape
    <3>3. QED
      BY <1>d, <2>1, <3>2 DEF LcShape, lcState
  <2>3. LcMutex'
    BY <1>1, <2>1 DEF TxDecode, LcShape, LightCall, lcState, LcMutex
  <2>4. Writing(lcCalls') = Writing(lcCalls)
    BY <1>1 DEF TxDecode, Writing, LcShape, LightCall
  <2>5. LightReceipts'
    BY <1>1, <2>1 DEF TxDecode, LightReceipts, ReceiptGet, LcShape, LightCall, lcState
  <2>6. QED
    BY <1>t, <2>1, <2>2, <2>3, <2>4, <2>5 DEF lcState
<1>2. ASSUME NEW k \in LcCall, TxLock(k) PROVE LcInv'
  <2> DEFINE t == lcCalls[k].tx
  <2>1. /\ lcCalls[k].at = "lock" /\ lcMu = Nobody /\ t \in LcTx
        /\ UNCHANGED <<lcReceipts, lcHeight, lcHeaders, lcBundles>>
    BY <1>2 DEF TxLock, LcMutex
  <2>2. CASE LcAnswer(k, "bad_nonce") /\ UNCHANGED <<lcMu, lcNonces>>
    <3>1. LcShape'
      BY <1>c, <1>d, <2>1, <2>2 DEF LcAnswer, LcShape
    <3>2. LcMutex'
      BY <2>1, <2>2 DEF LcAnswer, LcShape, LightCall, LcMutex
    <3>3. Writing(lcCalls') = Writing(lcCalls)
      BY <2>1, <2>2 DEF LcAnswer, Writing, LcShape, LightCall
    <3>4. LightReceipts'
      BY <2>1, <2>2 DEF LcAnswer, LightReceipts, ReceiptGet, LcShape, LightCall
    <3>5. QED
      BY <1>t, <2>1, <2>2, <3>1, <3>2, <3>3, <3>4
  <2>3. CASE /\ NonceFits(t) /\ Move(k, "writing") /\ lcMu' = k
             /\ lcNonces' = [lcNonces EXCEPT ![t.from] = @ + 1]
    <3>1. t.from \in Sender /\ t.nonce = lcNonces[t.from]
      BY <2>1, <2>3 DEF Sender, NonceFits
    <3>2. LcShape'
      <4>1. LcData'
        BY <2>1, <2>3, <3>1 DEF LcShape, LcData
      <4>2. QED
        BY <1>c, <2>3, <4>1 DEF Move, LcShape
    <3>3. LcMutex'
      BY <2>1, <2>3, LightRouterAssumption DEF Move, LcShape, LightCall, LcMutex
    <3>4. Taken = lcReceipts /\ Taken' = lcReceipts \cup {t}
      <4>1. Writing(lcCalls) = {}
        BY <2>1, LightRouterAssumption DEF Writing, LcMutex
      <4>2. Writing(lcCalls') = {t}
        BY <2>1, <2>3, LightRouterAssumption DEF Writing, Move, LcShape, LightCall, LcMutex
      <4>3. QED
        BY <1>t, <2>1, <4>1, <4>2
    <3>5. NoncesMatch(Taken', lcNonces')
      <4>1. PICK u \in LcTx : u = t
        BY <2>1
      <4>2. lcNonces \in [Sender -> Nat] /\ NoncesMatch(Taken, lcNonces)
        BY DEF LcShape, LcData
      <4>3. QED
        BY <2>3, <3>1, <3>4, <4>1, <4>2, TakeNext
    <3>6. LightReceipts'
      BY <2>1, <2>3 DEF Move, LightReceipts, ReceiptGet, LcShape, LightCall
    <3>7. QED
      BY <3>2, <3>3, <3>5, <3>6
  <2>4. QED
    BY <1>2, <2>2, <2>3 DEF TxLock
<1>3. ASSUME NEW k \in LcCall, TxStore(k) PROVE LcInv'
  <2> DEFINE t == lcCalls[k].tx
  <2>1. /\ lcCalls[k].at = "writing" /\ lcMu = k /\ t \in LcTx
        /\ lcReceipts' = lcReceipts \cup {t} /\ lcMu' = Nobody /\ Move(k, "reading")
        /\ UNCHANGED <<lcNonces, lcHeight, lcHeaders, lcBundles>>
    BY <1>3 DEF TxStore, LcMutex
  <2>2. LcShape'
    <3>1. LcData'
      BY <2>1 DEF LcShape, LcData
    <3>2. QED
      BY <1>c, <2>1, <3>1 DEF Move, LcShape
  <2>3. LcMutex'
    BY <2>1, LightRouterAssumption DEF Move, LcShape, LightCall, LcMutex
  <2>4. Writing(lcCalls) = {t} /\ Writing(lcCalls') = {}
    BY <2>1 DEF Writing, Move, LcShape, LightCall, LcMutex
  <2>5. LightReceipts'
    BY <2>1 DEF Move, LightReceipts, ReceiptGet, LcShape, LightCall
  <2>6. QED
    BY <1>t, <2>1, <2>2, <2>3, <2>4, <2>5
<1>4. ASSUME NEW k \in LcCall, TxReply(k) PROVE LcInv'
  <2>1. /\ lcCalls[k].at = "reading" /\ LcAnswer(k, "receipt") /\ UNCHANGED lcState
    BY <1>4 DEF TxReply, LightReceipts, ReceiptGet
  <2>2. LcShape'
    BY <1>c, <1>d, <2>1 DEF LcAnswer, LcShape, lcState
  <2>3. LcMutex'
    BY <2>1 DEF LcAnswer, LcShape, LightCall, lcState, LcMutex
  <2>4. Writing(lcCalls') = Writing(lcCalls)
    BY <2>1 DEF LcAnswer, Writing, LcShape, LightCall
  <2>5. LightReceipts'
    BY <2>1 DEF LcAnswer, LightReceipts, ReceiptGet, LcShape, LightCall, lcState
  <2>6. QED
    BY <1>t, <2>1, <2>2, <2>3, <2>4, <2>5 DEF lcState
<1>5. ASSUME NEW k \in LcCall, Die(k) PROVE LcInv'
  <2>1. LcShape'
    <3>1. Waiting \in LightCall
      BY DEF Waiting, LightCall
    <3>2. NoHeights = [h \in 1 .. 0 |-> h]
      BY DEF NoHeights
    <3>3. LcData'
      BY <1>5, <3>2 DEF Die, LcData
    <3>4. QED
      BY <1>5, <3>1, <3>3 DEF Die, LcShape
  <2>2. LcMutex'
    BY <1>5, LightRouterAssumption DEF Die, LcMutex, Waiting
  <2>3. Writing(lcCalls') = {}
    BY <1>5 DEF Die, Writing, Waiting
  <2>4. LightReceipts'
    BY <1>5 DEF Die, LightReceipts, Waiting
  <2>5. QED
    BY <1>5, <1>t, <2>1, <2>2, <2>3, <2>4, NothingTaken DEF Die
<1>6. ASSUME Commit PROVE LcInv'
  <2>1. UNCHANGED <<lcMu, lcNonces, lcReceipts, lcCalls>>
    BY <1>6 DEF Commit
  <2>2. LcShape'
    <3>1. lcHeight \in Nat /\ lcHeight' = lcHeight + 1
      BY <1>6 DEF Commit, LcShape, LcData
    <3>2. /\ lcHeaders' = [h \in 1 .. lcHeight' |-> h]
          /\ lcBundles' = [h \in 1 .. lcHeight' |-> h]
      BY <1>6, <3>1 DEF Commit, LcShape, LcData
    <3>3. QED
      BY <2>1, <3>1, <3>2 DEF LcShape, LcData
  <2>3. LcMutex' /\ LightReceipts'
    BY <2>1 DEF LcMutex, LightReceipts, ReceiptGet
  <2>4. QED
    BY <1>t, <2>1, <2>2, <2>3
<1>7. CASE UNCHANGED lcVars
  <2>1. LcShape' /\ LcMutex' /\ LightReceipts'
    BY <1>7, <1>d DEF lcVars, lcState, LcShape, LcMutex, LightReceipts, ReceiptGet
  <2>2. QED
    BY <1>7, <1>t, <2>1 DEF lcVars, lcState
<1>8. QED
  BY <1>1, <1>2, <1>3, <1>4, <1>5, <1>6, <1>7 DEF LcNext

\* Any number of goroutines, transactions, commits and deaths: the light router's answers
\* agree with one another (lcNonces, lcReceipts, lcHeaders and lcBundles), although POST /tx
\* reads its receipt without the lock.
THEOREM LightAnswersAgreeAlways == LcSpec => []LightAnswersAgree
<1>1. LcInit => LcInv
  BY LightStarts DEF LcInit
<1>2. LcInv => LightAnswersAgree
  <2> SUFFICES ASSUME LcInv PROVE LightAnswersAgree
    OBVIOUS
  <2>1. LightNonces
    BY DEF LcInv, NoncesMatch, LightNonces, NonceOf
  <2>2. LightProofsCheck
    BY DEF LcInv, LcShape, LcData, LightProofsCheck, LightProof
  <2>3. QED
    BY <2>1, <2>2 DEF LcInv, LightAnswersAgree
<1>3. QED
  BY <1>1, <1>2, LightStep, PTL DEF LcSpec

(***************************************************************************)
(* The limiter.  First what a refill does to a bucket.                     *)
(***************************************************************************)
BucketAt(now) == [tokens : 0 .. Rpm, last : 0 .. now]

RlCall(now) == [ip : Client \cup {"none"}, req : HttpReq \cup {[path |-> "none"]},
                at : {"idle", "outer", "inner", "handler"}, from : 0 .. now,
                patient : BOOLEAN, reply : Nat]

RlShape ==
    /\ clock \in Nat
    /\ rl \in [DOMAIN rl -> BucketAt(clock)] /\ DOMAIN rl \subseteq Client
    /\ calls \in [Call -> RlCall(clock)]
    /\ spans \in [Client -> Seq([from : 0 .. clock, to : 0 .. clock])]
    /\ \A k \in Call :
         calls[k].at # "idle" => calls[k].ip \in Client /\ calls[k].req \in HttpReq

\* Whole tokens: the quotient fits, and one more does not.
LEMMA DivBounds ==
    ASSUME NEW x \in Nat, NEW T \in Nat \ {0}
    PROVE  /\ x \div T \in Nat
           /\ T * (x \div T) <= x
           /\ x < T * (x \div T) + T
OBVIOUS

\* refill keeps the bucket within its size, never takes a token, gives two when the time of
\* two has passed, gives no more than the time that passed, and leaves less than the time
\* of one.
LEMMA RefillBounds ==
    ASSUME clock \in Nat, NEW b \in BucketAt(clock)
    PROVE  /\ Refill(b) \in BucketAt(clock)
           /\ Refill(b).tokens >= b.tokens
           /\ clock >= b.last + 2 * TokenTime => Refill(b).tokens >= 2
           /\ clock < Refill(b).last + TokenTime
           /\ \/ Refill(b) = b
              \/ /\ Refill(b).last = clock
                 /\ TokenTime * (Refill(b).tokens - b.tokens) <= clock - b.last
<1> DEFINE x == clock - b.last
           add == x \div TokenTime
<1>1. /\ x \in Nat /\ TokenTime \in Nat \ {0} /\ Rpm \in Nat /\ Rpm >= 2
      /\ b.tokens \in 0 .. Rpm /\ b.last \in 0 .. clock /\ b = [tokens |-> b.tokens, last |-> b.last]
  BY LimiterAssumption DEF BucketAt
<1>2. Refill(b) = IF add > 0
                  THEN [tokens |-> IF b.tokens + add > Rpm THEN Rpm ELSE b.tokens + add,
                        last |-> clock]
                  ELSE b
  BY DEF Refill
<1> HIDE DEF x
<1>3. add \in Nat /\ TokenTime * add <= x /\ x < TokenTime * add + TokenTime
  BY <1>1, DivBounds
<1> HIDE DEF add
<1>4. CASE add = 0
  <2>1. Refill(b) = b
    BY <1>2, <1>4
  <2>2. x < TokenTime
    BY <1>1, <1>3, <1>4
  <2>3. QED
    BY <1>1, <2>1, <2>2 DEF x, BucketAt
<1>5. CASE add > 0
  <2> DEFINE n == IF b.tokens + add > Rpm THEN Rpm ELSE b.tokens + add
  <2>1. Refill(b) = [tokens |-> n, last |-> clock]
    BY <1>2, <1>5
  <2>2. n \in 0 .. Rpm /\ n >= b.tokens /\ n - b.tokens <= add /\ n - b.tokens \in Nat
    BY <1>1, <1>3
  <2>3. x >= 2 * TokenTime => n >= 2
    <3>1. x >= 2 * TokenTime => add >= 2
      <4>1. add = 1 => TokenTime * add = TokenTime
        BY <1>1
      <4>2. QED
        BY <1>1, <1>3, <1>5, <4>1
    <3>2. QED
      BY <1>1, <1>3, <3>1
  <2> HIDE DEF n
  <2>4. TokenTime * (n - b.tokens) <= TokenTime * add
    BY <1>1, <1>3, <2>2
  <2>5. TokenTime * (n - b.tokens) <= x
    <3>1. TokenTime * (n - b.tokens) \in Int /\ TokenTime * add \in Int
      BY <1>1, <1>3, <2>2
    <3>2. QED
      BY <1>1, <1>3, <2>4, <3>1
  <2>6. QED
    BY <1>1, <2>1, <2>2, <2>3, <2>5 DEF x, BucketAt
<1>6. QED
  BY <1>3, <1>4, <1>5

\* The bucket with a token taken out of it.
OneLess(b) == [b EXCEPT !.tokens = @ - 1]

\* What a client has been charged since t, D tokens, against its bucket b: they come from a
\* full bucket and from the refills since t, the first of which may count the time of one
\* token before t.
Charged(D, b, t) ==
    IF b.last < t
    THEN D + b.tokens <= Rpm /\ (D > 0 => t < b.last + TokenTime)
    ELSE TokenTime * (D + b.tokens) <= TokenTime * (Rpm + 1) + (b.last - t)

\* Time since the last refill pays for the tokens a refill adds.
LEMMA ChargedRefill ==
    ASSUME clock \in Nat, NEW b \in BucketAt(clock), NEW t \in 0 .. clock, NEW D \in Nat,
           Charged(D, b, t)
    PROVE  Charged(D, Refill(b), t)
<1> DEFINE r == Refill(b)
<1>1. /\ TokenTime \in Nat \ {0} /\ Rpm \in Nat /\ b.tokens \in 0 .. Rpm /\ b.last \in 0 .. clock
      /\ r.tokens \in 0 .. Rpm /\ r.last \in 0 .. clock /\ r.tokens >= b.tokens
  BY LimiterAssumption, RefillBounds DEF BucketAt
<1>2. CASE r = b
  BY <1>2
<1>3. CASE r.last = clock /\ TokenTime * (r.tokens - b.tokens) <= clock - b.last
  <2>1. SUFFICES TokenTime * (D + r.tokens) <= TokenTime * (Rpm + 1) + (clock - t)
    BY <1>1, <1>3 DEF Charged
  <2> HIDE DEF r
  <2>2. /\ TokenTime * (D + r.tokens) =
             TokenTime * (D + b.tokens) + TokenTime * (r.tokens - b.tokens)
        /\ TokenTime * (D + r.tokens) \in Int /\ TokenTime * (D + b.tokens) \in Int
        /\ TokenTime * (r.tokens - b.tokens) \in Int
        /\ TokenTime * (Rpm + 1) = TokenTime * Rpm + TokenTime
        /\ TokenTime * Rpm \in Int /\ TokenTime * (Rpm + 1) \in Int
    BY <1>1
  <2>3. CASE ~ (b.last < t)
    <3>1. TokenTime * (D + b.tokens) <= TokenTime * (Rpm + 1) + (b.last - t)
      BY <2>3 DEF Charged
    <3>2. QED
      BY <1>1, <1>3, <2>2, <3>1
  <2>4. CASE b.last < t /\ D = 0
    <3>1. TokenTime * (D + r.tokens) <= TokenTime * Rpm
      BY <1>1, <2>4
    <3>2. QED
      BY <1>1, <2>2, <3>1
  <2>5. CASE b.last < t /\ D > 0
    <3>1. D + b.tokens <= Rpm /\ t < b.last + TokenTime
      BY <2>5 DEF Charged
    <3>2. TokenTime * (D + b.tokens) <= TokenTime * Rpm
      BY <1>1, <3>1
    <3>3. QED
      BY <1>1, <1>3, <2>2, <3>1, <3>2
  <2>6. QED
    BY <2>3, <2>4, <2>5
<1>4. QED
  BY <1>2, <1>3, RefillBounds

\* A token taken from the bucket is a token charged.
LEMMA ChargedTake ==
    ASSUME clock \in Nat, NEW b \in BucketAt(clock), NEW t \in 0 .. clock, NEW D \in Nat,
           Charged(D, b, t), b.tokens # 0, clock < b.last + TokenTime
    PROVE  Charged(D + 1, OneLess(b), t)
<1>1. /\ TokenTime \in Nat \ {0} /\ b.tokens \in Nat /\ b.last \in Nat
      /\ OneLess(b).tokens = b.tokens - 1 /\ OneLess(b).last = b.last
  BY LimiterAssumption DEF BucketAt, OneLess
<1>2. D + 1 + (b.tokens - 1) = D + b.tokens
  BY <1>1
<1>3. QED
  BY <1>1, <1>2 DEF Charged

\* Forgetting a charge is safe: a request that is refused at the inner layer has paid.
LEMMA ChargedLess ==
    ASSUME NEW now \in Nat, NEW b \in BucketAt(now), NEW t \in Nat, NEW D \in Nat, NEW E \in Nat,
           Charged(D, b, t), E <= D
    PROVE  Charged(E, b, t)
<1>1. /\ TokenTime \in Nat \ {0} /\ b.tokens \in Nat /\ b.last \in Nat /\ Rpm \in Nat
  BY LimiterAssumption DEF BucketAt
<1>2. TokenTime * (E + b.tokens) <= TokenTime * (D + b.tokens)
  BY <1>1
<1>3. /\ TokenTime * (E + b.tokens) \in Int /\ TokenTime * (D + b.tokens) \in Int
      /\ TokenTime * (Rpm + 1) \in Int
  BY <1>1
<1>4. QED
  BY <1>1, <1>2, <1>3 DEF Charged

\* Nothing charged is within every bound.
LEMMA ChargedNothing ==
    ASSUME NEW now \in Nat, NEW b \in BucketAt(now), NEW t \in Nat
    PROVE  Charged(0, b, t)
<1>1. /\ TokenTime \in Nat \ {0} /\ b.tokens \in 0 .. Rpm /\ b.last \in Nat /\ Rpm \in Nat
  BY LimiterAssumption DEF BucketAt
<1>2. TokenTime * b.tokens <= TokenTime * (Rpm + 1)
  BY <1>1
<1>3. TokenTime * b.tokens \in Int /\ TokenTime * (Rpm + 1) \in Int /\ 0 + b.tokens = b.tokens
  BY <1>1
<1>4. QED
  BY <1>1, <1>2, <1>3 DEF Charged

\* The charge since t is at most a full bucket, the tokens of the time since, and one.
LEMMA ChargedBound ==
    ASSUME NEW now \in Nat, NEW b \in BucketAt(now), NEW t \in 0 .. now, NEW D \in Nat,
           Charged(D, b, t)
    PROVE  D <= Rpm + 1 + (now - t) \div TokenTime
<1> DEFINE q == (now - t) \div TokenTime
<1>1. /\ TokenTime \in Nat \ {0} /\ b.tokens \in Nat /\ b.last \in 0 .. now /\ Rpm \in Nat
  BY LimiterAssumption DEF BucketAt
<1>2. q \in Nat /\ now - t < TokenTime * q + TokenTime
  BY <1>1, DivBounds
<1> HIDE DEF q
<1>3. CASE b.last < t
  BY <1>1, <1>2, <1>3 DEF Charged, q
<1>4. CASE ~ (b.last < t)
  <2>1. TokenTime * (D + b.tokens) <= TokenTime * (Rpm + 1) + (b.last - t)
    BY <1>4 DEF Charged
  <2>2. TokenTime * D <= TokenTime * (D + b.tokens) /\ TokenTime * D \in Int
        /\ TokenTime * (D + b.tokens) \in Int /\ TokenTime * (Rpm + 1) \in Int /\ TokenTime * q \in Int
    BY <1>1, <1>2
  <2>3. TokenTime * D < TokenTime * (Rpm + 1) + TokenTime * q + TokenTime
    BY <1>1, <1>2, <2>1, <2>2
  <2>4. TokenTime * (Rpm + 1) + TokenTime * q + TokenTime = TokenTime * (Rpm + 2 + q)
    BY <1>1, <1>2
  <2>5. D < Rpm + 2 + q
    <3>1. SUFFICES ASSUME D >= Rpm + 2 + q PROVE FALSE
      BY <1>1, <1>2
    <3>2. TokenTime * D >= TokenTime * (Rpm + 2 + q)
      BY <1>1, <1>2, <3>1
    <3>3. TokenTime * (Rpm + 2 + q) \in Int
      BY <1>1, <1>2
    <3>4. QED
      BY <2>2, <2>3, <2>4, <3>2, <3>3
  <2>6. QED
    BY <1>1, <1>2, <2>5 DEF q
<1>5. QED
  BY <1>3, <1>4

\* A goroutine without a request is one.
LEMMA NoCallShape == \A now \in Nat : NoCall \in RlCall(now) /\ NoCall.at = "idle" /\ NoCall.reply = 0
BY DEF RlCall, NoCall

\* The records of the goroutines stay records of goroutines.
LEMMA CallUpdates ==
    ASSUME RlShape, NEW k \in Call, NEW code \in Nat, NEW next \in {"inner", "handler"}
    PROVE  /\ Answered(k, code) \in [Call -> RlCall(clock)]
           /\ Onward(k, next) \in [Call -> RlCall(clock)]
           /\ Answered(k, code)[k].at = "idle"
           /\ Answered(k, code)[k].reply = code
           /\ Answered(k, code)[k].patient <=> (code = 429 /\ calls[k].patient)
           /\ Onward(k, next)[k].at = next
           /\ Onward(k, next)[k].from = (IF next = "inner" THEN clock ELSE calls[k].from)
           /\ Onward(k, next)[k].ip = calls[k].ip /\ Onward(k, next)[k].req = calls[k].req
           /\ Onward(k, next)[k].patient = calls[k].patient
           /\ Onward(k, next)[k].reply = calls[k].reply
           /\ \A j \in Call \ {k} : Answered(k, code)[j] = calls[j] /\ Onward(k, next)[j] = calls[j]
<1>1. clock \in Nat /\ calls \in [Call -> RlCall(clock)]
  BY DEF RlShape
<1>2. PICK p \in BOOLEAN : p = (code = 429 /\ calls[k].patient)
  OBVIOUS
<1> DEFINE a == [NoCall EXCEPT !.reply = code, !.patient = p]
           o == [calls[k] EXCEPT !.at = next, !.from = IF next = "inner" THEN clock ELSE @]
<1>3. a \in RlCall(clock) /\ a.at = "idle" /\ a.reply = code /\ a.patient = p
  <2>1. PICK n \in RlCall(clock) : n = NoCall /\ n.at = "idle"
    BY <1>1, NoCallShape
  <2>2. a = [n EXCEPT !.reply = code, !.patient = p]
    BY <2>1
  <2>3. QED
    BY <1>1, <2>1, <2>2 DEF RlCall
<1>4. /\ o \in RlCall(clock) /\ o.at = next
      /\ o.from = (IF next = "inner" THEN clock ELSE calls[k].from)
      /\ o.ip = calls[k].ip /\ o.req = calls[k].req
      /\ o.patient = calls[k].patient /\ o.reply = calls[k].reply
  <2>1. PICK r \in RlCall(clock) : r = calls[k]
    BY <1>1
  <2>2. PICK z \in 0 .. clock : z = IF next = "inner" THEN clock ELSE r.from
    BY <1>1 DEF RlCall
  <2>3. o = [r EXCEPT !.at = next, !.from = z]
    BY <2>1, <2>2
  <2>4. QED
    BY <1>1, <2>1, <2>2, <2>3 DEF RlCall
<1>5. Answered(k, code) = [calls EXCEPT ![k] = a] /\ Onward(k, next) = [calls EXCEPT ![k] = o]
  BY <1>1, <1>2 DEF Answered, Onward
<1> HIDE DEF a, o
<1>6. /\ Answered(k, code)[k] = a /\ Onward(k, next)[k] = o
      /\ \A j \in Call \ {k} : Answered(k, code)[j] = calls[j] /\ Onward(k, next)[j] = calls[j]
      /\ Answered(k, code) \in [Call -> RlCall(clock)] /\ Onward(k, next) \in [Call -> RlCall(clock)]
  BY <1>1, <1>3, <1>4, <1>5
<1>7. Answered(k, code)[k].patient <=> (code = 429 /\ calls[k].patient)
  BY <1>2, <1>3, <1>6
<1>8. QED
  BY <1>3, <1>4, <1>6, <1>7

\* One layer of withRateLimitRestore on a limited path: the bucket it finds and refills, and
\* its two outcomes.
LayerDoes(k, next, c, b, r) ==
    /\ c = calls[k].ip /\ b = Bucket(c) /\ r = Refill(b)
    /\ DOMAIN rl' = DOMAIN rl \cup {c}
    /\ \A x \in DOMAIN rl \ {c} : rl'[x] = rl[x]
    /\ rl' \in [DOMAIN rl' -> BucketAt(clock)]
    /\ \/ r.tokens = 0 /\ rl'[c] = r /\ calls' = Answered(k, 429)
       \/ r.tokens # 0 /\ rl'[c] = OneLess(r) /\ calls' = Onward(k, next)

\* A layer on a limited path does so.
LEMMA LayerOutcomes ==
    ASSUME RlShape, NEW k \in Call, NEW here \in {"outer", "inner"},
           NEW next \in {"inner", "handler"}, Layer(k, here, next), Limited(calls[k].req)
    PROVE  \E c \in Client, b \in BucketAt(clock), r \in BucketAt(clock) : LayerDoes(k, next, c, b, r)
<1>1. PICK c \in Client : c = calls[k].ip
  BY DEF RlShape, Layer
<1>2. PICK b \in BucketAt(clock) : b = Bucket(c)
  <2>1. c \in DOMAIN rl => rl[c] \in BucketAt(clock)
    BY DEF RlShape
  <2>2. [tokens |-> Rpm, last |-> clock] \in BucketAt(clock)
    BY LimiterAssumption DEF RlShape, BucketAt
  <2>3. QED
    BY <2>1, <2>2 DEF Bucket
<1>3. PICK r \in BucketAt(clock) : r = Refill(b)
  BY RefillBounds DEF RlShape
<1>4. TakeToken(k, next)
  BY DEF Layer
<1>5. r.tokens # 0 => OneLess(r) \in BucketAt(clock)
  BY LimiterAssumption DEF BucketAt, OneLess
<1>6. CASE r.tokens = 0
  <2>1. rl' = [x \in DOMAIN rl \cup {c} |-> IF x = c THEN r ELSE rl[x]] /\ calls' = Answered(k, 429)
    BY <1>1, <1>2, <1>3, <1>4, <1>6 DEF TakeToken, PutBucket
  <2>2. QED
    BY <1>1, <1>2, <1>3, <1>6, <2>1 DEF RlShape, LayerDoes
<1>7. CASE r.tokens # 0
  <2>1. rl' = [x \in DOMAIN rl \cup {c} |-> IF x = c THEN OneLess(r) ELSE rl[x]]
        /\ calls' = Onward(k, next)
    BY <1>1, <1>2, <1>3, <1>4, <1>7 DEF TakeToken, PutBucket, OneLess
  <2>2. QED
    BY <1>1, <1>2, <1>3, <1>5, <1>7, <2>1 DEF RlShape, LayerDoes
<1>8. QED
  BY <1>6, <1>7

\* A layer on a path it does not limit, and a handler's answer, leave the buckets alone; all
\* the limiter's steps keep the shape of its state.
LEMMA RlShapeStep == RlShape /\ [RlNext]_rlVars => RlShape'
<1> SUFFICES ASSUME RlShape, [RlNext]_rlVars PROVE RlShape'
  OBVIOUS
<1> DEFINE Busy(C) == \A k \in Call : C[k].at # "idle" => C[k].ip \in Client /\ C[k].req \in HttpReq
           Span(now) == [from : 0 .. now, to : 0 .. now]
<1>1. /\ clock \in Nat /\ rl \in [DOMAIN rl -> BucketAt(clock)] /\ DOMAIN rl \subseteq Client
      /\ calls \in [Call -> RlCall(clock)] /\ spans \in [Client -> Seq(Span(clock))]
      /\ Busy(calls)
  BY DEF RlShape
<1>2. ASSUME clock' = clock, rl' \in [DOMAIN rl' -> BucketAt(clock)], DOMAIN rl' \subseteq Client,
             calls' \in [Call -> RlCall(clock)], spans' \in [Client -> Seq(Span(clock))], Busy(calls')
      PROVE  RlShape'
  BY <1>1, <1>2 DEF RlShape
<1>a. ASSUME NEW k \in Call, NEW code \in Nat
      PROVE  Answered(k, code) \in [Call -> RlCall(clock)] /\ Busy(Answered(k, code))
  BY <1>1, CallUpdates
<1>3. ASSUME NEW k \in Call, NEW here \in {"outer", "inner"}, NEW next \in {"inner", "handler"},
             Layer(k, here, next)
      PROVE  /\ clock' = clock /\ rl' \in [DOMAIN rl' -> BucketAt(clock)] /\ DOMAIN rl' \subseteq Client
             /\ calls' \in [Call -> RlCall(clock)] /\ Busy(calls')
  <2>1. ASSUME calls' = Onward(k, next) PROVE calls' \in [Call -> RlCall(clock)] /\ Busy(calls')
    <3>1. calls[k].at # "idle"
      BY <1>3 DEF Layer
    <3>2. /\ calls' \in [Call -> RlCall(clock)] /\ \A j \in Call \ {k} : calls'[j] = calls[j]
          /\ calls'[k].ip = calls[k].ip /\ calls'[k].req = calls[k].req
      BY <2>1, CallUpdates, 0 \in Nat
    <3>3. QED
      BY <1>1, <3>1, <3>2
  <2>2. ASSUME calls' = Answered(k, 429) PROVE calls' \in [Call -> RlCall(clock)] /\ Busy(calls')
    BY <1>a, <2>2
  <2>3. CASE Limited(calls[k].req)
    <3>1. /\ rl' \in [DOMAIN rl' -> BucketAt(clock)] /\ DOMAIN rl' \subseteq Client
          /\ (calls' = Answered(k, 429) \/ calls' = Onward(k, next))
      <4>1. PICK c \in Client, b \in BucketAt(clock), r \in BucketAt(clock) : LayerDoes(k, next, c, b, r)
        BY <1>3, <2>3, LayerOutcomes
      <4>2. QED
        BY <1>1, <4>1 DEF LayerDoes
    <3>2. QED
      BY <1>3, <2>1, <2>2, <3>1 DEF Layer
  <2>4. CASE ~ Limited(calls[k].req)
    BY <1>1, <1>3, <2>1, <2>4 DEF Layer
  <2>5. QED
    BY <2>3, <2>4
<1>4. ASSUME NEW k \in Call, OuterLayer(k) PROVE RlShape'
  BY <1>1, <1>2, <1>3, <1>4 DEF OuterLayer
<1>5. ASSUME NEW k \in Call, InnerLayer(k) PROVE RlShape'
  <2>1. Layer(k, "inner", "handler")
    BY <1>5 DEF InnerLayer
  <2>2. spans' \in [Client -> Seq(Span(clock))]
    <3>1. /\ calls[k].ip \in Client /\ calls[k] \in RlCall(clock)
      BY <1>1, <2>1 DEF Layer
    <3>2. PICK e \in Span(clock) : e = [from |-> calls[k].from, to |-> clock]
      <4>1. PICK z \in 0 .. clock : z = calls[k].from
        BY <3>1 DEF RlCall
      <4>2. clock \in 0 .. clock
        BY <1>1
      <4>3. [from |-> z, to |-> clock] \in Span(clock)
        BY <4>2
      <4>4. QED
        BY <4>1, <4>3
    <3>3. spans' = spans \/ spans' = [spans EXCEPT ![calls[k].ip] = Append(@, e)]
      BY <1>5, <3>2 DEF InnerLayer
    <3> DEFINE S == Seq(Span(clock))
    <3>4. \A q \in S : Append(q, e) \in S
      OBVIOUS
    <3>5. spans \in [Client -> S]
      BY <1>1
    <3> HIDE DEF S
    <3>6. spans' \in [Client -> S]
      BY <3>1, <3>3, <3>4, <3>5
    <3>7. QED
      BY <3>6 DEF S
  <2>3. QED
    BY <1>2, <1>3, <2>1, <2>2
<1>6. ASSUME NEW k \in Call, Handle(k) PROVE RlShape'
  <2>1. PICK code \in WalletReply(calls[k].req) : calls' = Answered(k, code)
    BY <1>6 DEF Handle
  <2>2. calls[k].req \in HttpReq
    BY <1>1, <1>6 DEF Handle
  <2>3. code \in Nat
    BY <2>1, <2>2, LimiterAssumption DEF WalletReply
  <2>4. QED
    <3>1. calls' \in [Call -> RlCall(clock)] /\ Busy(calls')
      BY <1>a, <2>1, <2>3
    <3>2. QED
      BY <1>1, <1>2, <1>6, <3>1 DEF Handle
<1>7. ASSUME NEW k \in Call, NEW c \in Client, NEW r \in HttpReq, Arrive(k, c, r) PROVE RlShape'
  <2>1. CASE r.method = "OPTIONS"
    <3>1. calls' \in [Call -> RlCall(clock)] /\ Busy(calls')
      BY <1>a, <1>7, <2>1 DEF Arrive
    <3>2. QED
      BY <1>1, <1>2, <1>7, <3>1 DEF Arrive
  <2>2. CASE r.method # "OPTIONS"
    <3> DEFINE new == [NoCall EXCEPT !.ip = c, !.req = r, !.at = "outer", !.patient = Rested(c)]
               old(x) == [calls[x] EXCEPT !.patient = @ /\ calls[x].ip # c]
    <3>1. new \in RlCall(clock) /\ new.ip = c /\ new.req = r
      <4>1. PICK n \in RlCall(clock) : n = NoCall
        BY <1>1, NoCallShape
      <4>2. PICK p \in BOOLEAN : p = Rested(c)
        BY DEF Rested
      <4>3. new = [n EXCEPT !.ip = c, !.req = r, !.at = "outer", !.patient = p]
        BY <4>1, <4>2
      <4>4. QED
        BY <4>1, <4>3 DEF RlCall
    <3>2. ASSUME NEW x \in Call
          PROVE  /\ old(x) \in RlCall(clock) /\ old(x).at = calls[x].at
                 /\ old(x).ip = calls[x].ip /\ old(x).req = calls[x].req
      <4>1. PICK n \in RlCall(clock) : n = calls[x]
        BY <1>1
      <4>2. PICK p \in BOOLEAN : p = (n.patient /\ n.ip # c)
        OBVIOUS
      <4>3. old(x) = [n EXCEPT !.patient = p]
        BY <4>1, <4>2
      <4>4. QED
        BY <4>1, <4>3 DEF RlCall
    <3>3. calls' = [x \in Call |-> IF x = k THEN new ELSE old(x)]
      BY <1>7, <2>2 DEF Arrive
    <3> HIDE DEF new, old
    <3>4. calls' \in [Call -> RlCall(clock)] /\ Busy(calls')
      BY <1>1, <3>1, <3>2, <3>3
    <3>5. QED
      BY <1>1, <1>2, <1>7, <3>4 DEF Arrive
  <2>3. QED
    BY <2>1, <2>2
<1>8. ASSUME Tick PROVE RlShape'
  <2>1. /\ clock' = clock + 1 /\ clock' \in Nat /\ UNCHANGED <<rl, calls, spans>>
    BY <1>1, <1>8 DEF Tick
  <2>2. /\ BucketAt(clock) \subseteq BucketAt(clock') /\ RlCall(clock) \subseteq RlCall(clock')
        /\ Span(clock) \subseteq Span(clock')
    BY <1>1, <2>1 DEF BucketAt, RlCall
  <2>3. Seq(Span(clock)) \subseteq Seq(Span(clock'))
    <3> HIDE DEF Span
    <3>1. QED
      BY <2>2
  <2>4. /\ rl' \in [DOMAIN rl' -> BucketAt(clock')] /\ calls' \in [Call -> RlCall(clock')]
        /\ spans' \in [Client -> Seq(Span(clock'))]
    <3> HIDE DEF Span
    <3>1. QED
      BY <1>1, <2>1, <2>2, <2>3
  <2>5. QED
    BY <1>1, <2>1, <2>4 DEF RlShape
<1>9. CASE UNCHANGED rlVars
  BY <1>1, <1>2, <1>9 DEF rlVars
<1>10. QED
  BY <1>4, <1>5, <1>6, <1>7, <1>8, <1>9 DEF RlNext

(***************************************************************************)
(* Patience.  A client that rested keeps its bucket to itself: nobody else *)
(* is between the layers with its address, so the tokens the outer layer   *)
(* finds, two at least, are still there for the inner one.                 *)
(***************************************************************************)
Alone(C, k) ==
    \A j \in Call \ {k} : C[j].at \in {"outer", "inner"} => C[j].ip # C[k].ip

Served(C, R, now, k) ==
    /\ C[k].reply # 429
    /\ C[k].at = "outer" =>
         /\ Alone(C, k)
         /\ C[k].ip \in DOMAIN R => now >= R[C[k].ip].last + 2 * TokenTime
    /\ C[k].at = "inner" /\ Limited(C[k].req) =>
         /\ Alone(C, k)
         /\ C[k].ip \in DOMAIN R /\ R[C[k].ip].tokens >= 1

RlPatience == \A k \in Call : calls[k].patient => Served(calls, rl, clock, k)

\* A layer serves the patient client it holds, and does not touch the bucket of another.
LEMMA LayerPatience ==
    ASSUME RlShape, RlPatience, NEW m \in Call,
           NEW here \in {"outer", "inner"}, NEW next \in {"inner", "handler"},
           (here = "outer") <=> (next = "inner"), Layer(m, here, next)
    PROVE  RlPatience'
<1> SUFFICES ASSUME NEW k \in Call, calls'[k].patient PROVE Served(calls', rl', clock', k)
  BY DEF RlPatience
<1>1. /\ clock' = clock /\ calls[m].at = here /\ clock \in Nat /\ TokenTime \in Nat \ {0}
      /\ Rpm \in Nat /\ Rpm >= 2 /\ 429 \in Nat
  BY LimiterAssumption DEF Layer, RlShape
<1>2. \/ calls' = Onward(m, next)
      \/ calls' = Answered(m, 429) /\ Limited(calls[m].req)
  BY LayerOutcomes DEF Layer, LayerDoes
<1>3. \A j \in Call \ {m} : calls'[j] = calls[j]
  <2>1. \A j \in Call \ {m} : Answered(m, 429)[j] = calls[j] /\ Onward(m, next)[j] = calls[j]
    BY <1>1, CallUpdates
  <2>2. QED
    BY <1>2, <2>1
<1>4. \/ calls'[m].at = "idle"
      \/ calls'[m].ip = calls[m].ip
  BY <1>1, <1>2, CallUpdates
<1>5. ASSUME Alone(calls, k), calls'[k].ip = calls[k].ip PROVE Alone(calls', k)
  BY <1>1, <1>3, <1>4, <1>5 DEF Alone
<1>6. CASE k # m
  <2>1. calls'[k] = calls[k] /\ Served(calls, rl, clock, k)
    BY <1>3, <1>6 DEF RlPatience
  <2>2. ASSUME Alone(calls, k)
        PROVE  /\ calls[k].ip \in DOMAIN rl' <=> calls[k].ip \in DOMAIN rl
               /\ calls[k].ip \in DOMAIN rl => rl'[calls[k].ip] = rl[calls[k].ip]
    <3>1. calls[m].ip # calls[k].ip
      BY <1>1, <1>6, <2>2 DEF Alone
    <3>2. CASE Limited(calls[m].req)
      <4>1. PICK c \in Client : /\ c = calls[m].ip /\ DOMAIN rl' = DOMAIN rl \cup {c}
                                /\ \A x \in DOMAIN rl \ {c} : rl'[x] = rl[x]
        BY <3>2, LayerOutcomes DEF LayerDoes
      <4>2. QED
        BY <3>1, <4>1
    <3>3. CASE ~ Limited(calls[m].req)
      BY <3>3 DEF Layer
    <3>4. QED
      BY <3>2, <3>3
  <2>3. QED
    BY <1>1, <1>5, <2>1, <2>2 DEF Served
<1>7. CASE k = m /\ ~ Limited(calls[m].req)
  <2>1. calls' = Onward(k, next)
    BY <1>2, <1>7
  <2>2. LET o == Onward(k, next)[k]
        IN  /\ o.at = next /\ o.req = calls[k].req /\ o.reply = calls[k].reply
            /\ o.patient = calls[k].patient
    BY <1>1, CallUpdates
  <2>3. QED
    BY <1>1, <1>7, <2>1, <2>2 DEF Served, RlPatience
<1>8. CASE k = m /\ Limited(calls[m].req)
  <2>1. PICK c \in Client, b \in BucketAt(clock), r \in BucketAt(clock) : LayerDoes(m, next, c, b, r)
    BY <1>8, LayerOutcomes
  <2>a. /\ c = calls[k].ip /\ b = Bucket(c) /\ r = Refill(b)
        /\ DOMAIN rl' = DOMAIN rl \cup {c}
        /\ \/ r.tokens = 0 /\ calls' = Answered(k, 429)
           \/ r.tokens # 0 /\ rl'[c] = OneLess(r) /\ calls' = Onward(k, next)
    BY <1>8, <2>1 DEF LayerDoes
  <2>2. calls[k].patient
    BY <1>1, <1>2, <1>8, CallUpdates
  <2>3. Served(calls, rl, clock, k)
    BY <2>2 DEF RlPatience
  <2>4. r.tokens >= b.tokens /\ (clock >= b.last + 2 * TokenTime => r.tokens >= 2)
    BY <1>1, <2>a, RefillBounds
  <2>5. b.tokens \in Nat /\ b.last \in Nat /\ r.tokens \in Nat /\ OneLess(r).tokens = r.tokens - 1
    BY <1>1 DEF BucketAt, OneLess
  <2>6. CASE here = "outer"
    <3>1. Alone(calls, k) /\ (c \in DOMAIN rl => clock >= rl[c].last + 2 * TokenTime)
      BY <1>1, <1>8, <2>a, <2>3, <2>6 DEF Served
    <3>2. r.tokens >= 2
      <4>1. CASE c \in DOMAIN rl
        BY <2>a, <2>4, <3>1, <4>1 DEF Bucket
      <4>2. CASE c \notin DOMAIN rl
        BY <1>1, <2>a, <2>4, <2>5, <4>2 DEF Bucket
      <4>3. QED
        BY <4>1, <4>2
    <3>3. calls' = Onward(k, next) /\ rl'[c].tokens >= 1
      BY <2>a, <2>5, <3>2
    <3>4. /\ calls'[k].at = "inner" /\ calls'[k].ip = c /\ calls'[k].reply = calls[k].reply
      BY <1>1, <2>a, <2>6, <3>3, CallUpdates
    <3>5. Alone(calls', k)
      BY <1>5, <2>a, <3>1, <3>4
    <3>6. QED
      BY <2>a, <2>3, <3>3, <3>4, <3>5 DEF Served
  <2>7. CASE here = "inner"
    <3>1. c \in DOMAIN rl /\ rl[c].tokens >= 1
      BY <1>1, <1>8, <2>a, <2>3, <2>7 DEF Served
    <3>2. r.tokens # 0
      BY <2>a, <2>4, <2>5, <3>1 DEF Bucket
    <3>3. calls' = Onward(k, next) /\ next = "handler"
      BY <2>a, <2>7, <3>2
    <3>4. calls'[k].at = "handler" /\ calls'[k].reply = calls[k].reply
      BY <1>1, <3>3, CallUpdates
    <3>5. QED
      BY <2>3, <3>4 DEF Served
  <2>8. QED
    BY <2>6, <2>7
<1>9. QED
  BY <1>6, <1>7, <1>8

\* Every step of the limiter keeps the patient clients served.
LEMMA PatienceStep == RlShape /\ RlPatience /\ [RlNext]_rlVars => RlPatience'
<1> SUFFICES ASSUME RlShape, RlPatience, [RlNext]_rlVars PROVE RlPatience'
  OBVIOUS
<1>1. /\ clock \in Nat /\ TokenTime \in Nat \ {0} /\ calls \in [Call -> RlCall(clock)]
  BY LimiterAssumption DEF RlShape
<1>2. ASSUME NEW m \in Call, NEW code \in Nat \ {429}, calls' = Answered(m, code),
             UNCHANGED <<clock, rl>>
      PROVE  RlPatience'
  <2>1. /\ calls'[m].at = "idle" /\ ~ calls'[m].patient
        /\ \A j \in Call \ {m} : calls'[j] = calls[j]
    BY <1>2, CallUpdates
  <2>2. ASSUME NEW k \in Call, k # m, Alone(calls, k) PROVE Alone(calls', k)
    BY <2>1, <2>2 DEF Alone
  <2>3. QED
    BY <1>2, <2>1, <2>2 DEF RlPatience, Served
<1>3. ASSUME NEW m \in Call, OuterLayer(m) PROVE RlPatience'
  BY <1>3, LayerPatience DEF OuterLayer
<1>4. ASSUME NEW m \in Call, InnerLayer(m) PROVE RlPatience'
  BY <1>4, LayerPatience DEF InnerLayer
<1>5. ASSUME NEW m \in Call, Handle(m) PROVE RlPatience'
  <2>1. PICK code \in WalletReply(calls[m].req) : calls' = Answered(m, code)
    BY <1>5 DEF Handle
  <2>2. calls[m].req \in HttpReq
    BY <1>5 DEF Handle, RlShape
  <2>3. code \in Nat \ {429}
    BY <2>1, <2>2, LimiterAssumption DEF WalletReply
  <2>4. QED
    BY <1>2, <1>5, <2>1, <2>3 DEF Handle
<1>6. ASSUME NEW m \in Call, NEW c \in Client, NEW r \in HttpReq, Arrive(m, c, r) PROVE RlPatience'
  <2>1. CASE r.method = "OPTIONS"
    BY <1>2, <1>6, <2>1 DEF Arrive
  <2>2. CASE r.method # "OPTIONS"
    <3> DEFINE new == [NoCall EXCEPT !.ip = c, !.req = r, !.at = "outer", !.patient = Rested(c)]
               old(x) == [calls[x] EXCEPT !.patient = @ /\ calls[x].ip # c]
    <3>1. /\ new.ip = c /\ new.at = "outer" /\ new.reply = 0 /\ new.patient = Rested(c)
      <4>1. PICK n \in RlCall(clock) : n = NoCall /\ n.reply = 0
        BY <1>1, NoCallShape
      <4>2. QED
        BY <4>1 DEF RlCall
    <3>2. ASSUME NEW x \in Call
          PROVE  /\ old(x).at = calls[x].at /\ old(x).ip = calls[x].ip
                 /\ old(x).req = calls[x].req /\ old(x).reply = calls[x].reply
                 /\ old(x).patient = (calls[x].patient /\ calls[x].ip # c)
      <4>1. PICK n \in RlCall(clock) : n = calls[x]
        BY <1>1
      <4>2. QED
        BY <4>1 DEF RlCall
    <3>3. calls' = [x \in Call |-> IF x = m THEN new ELSE old(x)] /\ UNCHANGED <<clock, rl>>
      BY <1>6, <2>2 DEF Arrive
    <3> HIDE DEF new, old
    <3>4. ASSUME NEW k \in Call, calls'[k].patient PROVE Served(calls', rl', clock', k)
      <4>1. CASE k = m
        <5>1. Rested(c) /\ calls'[k].ip = c /\ calls'[k].at = "outer" /\ calls'[k].reply = 0
          BY <3>1, <3>3, <3>4, <4>1
        <5>2. Alone(calls', k)
          BY <3>2, <3>3, <4>1, <5>1 DEF Alone, Rested
        <5>3. QED
          BY <3>3, <5>1, <5>2 DEF Served, Rested
      <4>2. CASE k # m
        <5>1. /\ calls[k].patient /\ calls[k].ip # c /\ calls'[k].ip = calls[k].ip
              /\ calls'[k].at = calls[k].at /\ calls'[k].req = calls[k].req
              /\ calls'[k].reply = calls[k].reply
          BY <3>2, <3>3, <3>4, <4>2
        <5>2. ASSUME Alone(calls, k) PROVE Alone(calls', k)
          BY <3>1, <3>2, <3>3, <4>2, <5>1, <5>2 DEF Alone
        <5>3. QED
          BY <3>3, <5>1, <5>2 DEF Served, RlPatience
      <4>3. QED
        BY <4>1, <4>2
    <3>5. QED
      BY <3>4 DEF RlPatience
  <2>3. QED
    BY <2>1, <2>2
<1>7. ASSUME Tick PROVE RlPatience'
  <2>1. clock' = clock + 1 /\ UNCHANGED <<rl, calls>>
    BY <1>7 DEF Tick
  <2>2. \A k \in Call : Alone(calls, k) => Alone(calls', k)
    BY <2>1 DEF Alone
  <2>3. \A x \in DOMAIN rl : rl[x].last \in Nat
    BY <1>1 DEF RlShape, BucketAt
  <2>4. QED
    BY <1>1, <2>1, <2>2, <2>3 DEF RlPatience, Served
<1>8. CASE UNCHANGED rlVars
  BY <1>8 DEF rlVars, RlPatience, Served, Alone
<1>9. QED
  BY <1>3, <1>4, <1>5, <1>6, <1>7, <1>8 DEF RlNext

\* The limiter starts with no buckets and no requests.
LEMMA RlStarts == RlInit => RlShape /\ RlPatience
<1> SUFFICES ASSUME RlInit PROVE RlShape /\ RlPatience
  OBVIOUS
<1>1. calls \in [Call -> RlCall(clock)] /\ \A k \in Call : calls[k].at = "idle" /\ calls[k].reply = 0
  BY NoCallShape DEF RlInit
<1>2. \A k \in Call : ~ calls[k].patient
  BY DEF RlInit, NoCall
<1>3. rl \in [DOMAIN rl -> BucketAt(clock)] /\ DOMAIN rl \subseteq Client /\ clock \in Nat
  BY DEF RlInit
<1>4. spans \in [Client -> Seq([from : 0 .. clock, to : 0 .. clock])]
  BY DEF RlInit
<1>5. QED
  BY <1>1, <1>2, <1>3, <1>4 DEF RlShape, RlPatience, Served

\* Any number of clients and requests, any rate of two or more: a client that waited the time
\* of two tokens is not refused, although each restore is charged twice
\* (withRateLimitRestore, around the router and around the mux).
THEOREM PatientClientsAreServed == RlSpec => []PatientIsServed
<1>1. RlPatience => PatientIsServed
  BY DEF RlPatience, Served, PatientIsServed
<1>2. QED
  BY <1>1, RlStarts, RlShapeStep, PatienceStep, PTL DEF RlSpec

(***************************************************************************)
(* The bound on restores.  The charge of a client since t is two tokens    *)
(* for each of its restores that began since, and one for each that is     *)
(* between the layers.                                                     *)
(***************************************************************************)
Done(sp, t) == {i \in DOMAIN sp : sp[i].from >= t}

Half(C, c, t) ==
    {k \in Call : /\ C[k].at = "inner" /\ Limited(C[k].req)
                  /\ C[k].ip = c /\ C[k].from >= t}

Charge(C, sp, c, t) == 2 * Cardinality(Done(sp[c], t)) + Cardinality(Half(C, c, t))

Covered(C, sp, R, c, t) ==
    /\ IsFiniteSet(Half(C, c, t))
    /\ IF c \in DOMAIN R THEN Charged(Charge(C, sp, c, t), R[c], t)
       ELSE Charge(C, sp, c, t) = 0

RlPaid == \A c \in Client : \A t \in 0 .. clock : Covered(calls, spans, rl, c, t)

\* The restores of a client are a finite set, and another one adds itself.
LEMMA DoneAppend ==
    ASSUME NEW S, NEW sp \in Seq(S), NEW t, NEW e
    PROVE  /\ IsFiniteSet(Done(sp, t)) /\ Cardinality(Done(sp, t)) \in Nat
           /\ e \in S => Cardinality(Done(Append(sp, e), t)) =
                            Cardinality(Done(sp, t)) + (IF e.from >= t THEN 1 ELSE 0)
<1>1. Len(sp) \in Nat /\ DOMAIN sp = 1 .. Len(sp)
  OBVIOUS
<1>2. IsFiniteSet(DOMAIN sp)
  BY <1>1, FS_Interval
<1>3. Done(sp, t) \subseteq DOMAIN sp
  BY DEF Done
<1>4. IsFiniteSet(Done(sp, t)) /\ Cardinality(Done(sp, t)) \in Nat
  BY <1>2, <1>3, FS_Subset, FS_CardinalityType
<1>5. ASSUME e \in S
      PROVE  Done(Append(sp, e), t) =
               IF e.from >= t THEN Done(sp, t) \cup {Len(sp) + 1} ELSE Done(sp, t)
  <2> DEFINE q == Append(sp, e)
  <2>1. /\ DOMAIN q = 1 .. Len(sp) + 1 /\ q[Len(sp) + 1] = e
        /\ \A i \in 1 .. Len(sp) : q[i] = sp[i]
    BY <1>5
  <2>2. DOMAIN q = DOMAIN sp \cup {Len(sp) + 1} /\ Len(sp) + 1 \notin DOMAIN sp
    BY <1>1, <2>1
  <2> HIDE DEF q
  <2>3. Done(q, t) = IF e.from >= t THEN Done(sp, t) \cup {Len(sp) + 1} ELSE Done(sp, t)
    BY <1>1, <2>1, <2>2 DEF Done
  <2>4. QED
    BY <2>3 DEF q
<1>6. Len(sp) + 1 \notin Done(sp, t)
  BY <1>1, <1>3
<1>7. QED
  BY <1>4, <1>5, <1>6, FS_AddElement

\* What a layer on a limited path charges its client, and nobody else.
LEMMA LayerPays ==
    ASSUME RlShape, RlPaid, NEW k \in Call,
           \/ OuterLayer(k)
           \/ InnerLayer(k),
           Limited(calls[k].req), NEW d \in Client, NEW t \in 0 .. clock
    PROVE  Covered(calls', spans', rl', d, t)
<1>1. PICK here \in {"outer", "inner"}, next \in {"inner", "handler"} :
        (here = "outer" <=> next = "inner") /\ Layer(k, here, next)
  BY DEF OuterLayer, InnerLayer
<1>2. PICK c \in Client, b \in BucketAt(clock), r \in BucketAt(clock) : LayerDoes(k, next, c, b, r)
  BY <1>1, LayerOutcomes
<1>3. /\ clock \in Nat /\ calls[k].at = here /\ c = calls[k].ip /\ calls[k].from \in 0 .. clock
      /\ spans \in [Client -> Seq([from : 0 .. clock, to : 0 .. clock])]
  BY <1>1, <1>2 DEF RlShape, Layer, LayerDoes, RlCall
<1>4. /\ Covered(calls, spans, rl, d, t)
      /\ IsFiniteSet(Half(calls, d, t)) /\ Cardinality(Half(calls, d, t)) \in Nat
      /\ Cardinality(Done(spans[d], t)) \in Nat /\ Charge(calls, spans, d, t) \in Nat
  <2>1. Covered(calls, spans, rl, d, t) /\ IsFiniteSet(Half(calls, d, t))
    BY DEF RlPaid, Covered
  <2>2. Cardinality(Half(calls, d, t)) \in Nat
    BY <2>1, FS_CardinalityType
  <2>3. Cardinality(Done(spans[d], t)) \in Nat
    BY <1>3, DoneAppend
  <2>4. QED
    BY <2>1, <2>2, <2>3 DEF Charge
<1>5. \/ calls' = Answered(k, 429) /\ r.tokens = 0 /\ rl'[c] = r
      \/ calls' = Onward(k, next) /\ r.tokens # 0 /\ rl'[c] = OneLess(r)
  BY <1>2 DEF LayerDoes
<1>6. \A j \in Call \ {k} : calls'[j] = calls[j]
  <2>1. \A j \in Call \ {k} : Answered(k, 429)[j] = calls[j] /\ Onward(k, next)[j] = calls[j]
    BY CallUpdates, 429 \in Nat
  <2>2. QED
    BY <1>5, <2>1
<1>7. calls' = Answered(k, 429) => calls'[k].at = "idle"
  BY CallUpdates, 429 \in Nat
<1>8. calls' = Onward(k, next) =>
        /\ calls'[k].at = next /\ calls'[k].ip = c /\ calls'[k].req = calls[k].req
        /\ next = "inner" => calls'[k].from = clock
  BY <1>3, CallUpdates, 0 \in Nat
<1>9. CASE d # c
  <2>1. Half(calls', d, t) = Half(calls, d, t)
    BY <1>3, <1>5, <1>6, <1>7, <1>8, <1>9 DEF Half
  <2>2. spans'[d] = spans[d]
    BY <1>3, <1>9 DEF OuterLayer, InnerLayer
  <2>3. /\ d \in DOMAIN rl' <=> d \in DOMAIN rl
        /\ d \in DOMAIN rl => rl'[d] = rl[d]
    BY <1>2, <1>9 DEF LayerDoes
  <2>4. QED
    BY <1>4, <2>1, <2>2, <2>3 DEF Covered, Charge
<1>10. CASE d = c
  <2> DEFINE D == Charge(calls, spans, c, t)
             E == Charge(calls', spans', c, t)
             h == Cardinality(Half(calls, c, t))
             n == Cardinality(Done(spans[c], t))
  <2>1. D \in Nat /\ h \in Nat /\ n \in Nat /\ D = 2 * n + h /\ IsFiniteSet(Half(calls, c, t))
    BY <1>4, <1>10 DEF Charge
  <2>2. Charged(D, b, t)
    <3>1. CASE c \in DOMAIN rl
      BY <1>2, <1>4, <1>10, <3>1 DEF Covered, LayerDoes, Bucket
    <3>2. CASE c \notin DOMAIN rl
      BY <1>3, <1>4, <1>10, <3>2, ChargedNothing DEF Covered
    <3>3. QED
      BY <3>1, <3>2
  <2>3. Charged(D, r, t) /\ clock < r.last + TokenTime
    BY <1>2, <1>3, <2>1, <2>2, ChargedRefill, RefillBounds DEF LayerDoes
  <2>4. r.tokens # 0 => Charged(D + 1, OneLess(r), t) /\ OneLess(r) \in BucketAt(clock)
    <3>1. r.tokens # 0 => Charged(D + 1, OneLess(r), t)
      BY <1>3, <2>1, <2>3, ChargedTake
    <3>2. r.tokens # 0 => OneLess(r) \in BucketAt(clock)
      BY LimiterAssumption DEF BucketAt, OneLess
    <3>3. QED
      BY <3>1, <3>2
  <2>5. c \in DOMAIN rl'
    BY <1>2 DEF LayerDoes
  <2>6. SUFFICES /\ IsFiniteSet(Half(calls', c, t))
                 /\ Charged(E, rl'[c], t)
    BY <1>10, <2>5 DEF Covered
  <2>7. CASE here = "outer" /\ calls' = Answered(k, 429) /\ rl'[c] = r
    <3>1. Half(calls', c, t) = Half(calls, c, t)
      <4>1. k \notin Half(calls, c, t) /\ k \notin Half(calls', c, t)
        BY <1>3, <1>7, <2>7 DEF Half
      <4>2. \A j \in Call \ {k} : j \in Half(calls', c, t) <=> j \in Half(calls, c, t)
        BY <1>6 DEF Half
      <4>3. Half(calls', c, t) \subseteq Call /\ Half(calls, c, t) \subseteq Call
        BY DEF Half
      <4>4. QED
        BY <4>1, <4>2, <4>3
    <3>2. spans' = spans
      BY <1>3, <2>7 DEF OuterLayer, InnerLayer, Layer
    <3>3. E = D
      BY <3>1, <3>2 DEF Charge
    <3> HIDE DEF D, E
    <3>4. QED
      BY <2>1, <2>3, <2>7, <3>1, <3>3
  <2>8. CASE here = "outer" /\ calls' = Onward(k, next) /\ r.tokens # 0 /\ rl'[c] = OneLess(r)
    <3>1. Half(calls', c, t) = Half(calls, c, t) \cup {k} /\ k \notin Half(calls, c, t)
      BY <1>1, <1>3, <1>6, <1>8, <2>8 DEF Half
    <3>2. spans' = spans
      BY <1>3, <2>8 DEF OuterLayer, InnerLayer, Layer
    <3>3. IsFiniteSet(Half(calls', c, t)) /\ Cardinality(Half(calls', c, t)) = h + 1
      BY <2>1, <3>1, FS_AddElement
    <3>4. E = D + 1
      BY <2>1, <3>2, <3>3 DEF Charge
    <3> HIDE DEF D, E
    <3>5. QED
      BY <2>4, <2>8, <3>3, <3>4
  <2>9. CASE here = "inner"
    <3>1. Half(calls', c, t) = Half(calls, c, t) \ {k}
      BY <1>1, <1>3, <1>5, <1>6, <1>7, <1>8, <2>9 DEF Half
    <3>2. k \in Half(calls, c, t) <=> calls[k].from >= t
      BY <1>3, <2>9 DEF Half
    <3>3. /\ IsFiniteSet(Half(calls', c, t))
          /\ Cardinality(Half(calls', c, t)) = IF calls[k].from >= t THEN h - 1 ELSE h
          /\ Cardinality(Half(calls', c, t)) \in Nat
      BY <2>1, <3>1, <3>2, FS_RemoveElement, FS_CardinalityType
    <3>4. InnerLayer(k)
      BY <1>3, <2>9 DEF OuterLayer, Layer
    <3>5. CASE calls' = Answered(k, 429) /\ rl'[c] = r
      <4>1. spans' = spans
        BY <1>7, <3>4, <3>5 DEF InnerLayer
      <4>2. E \in Nat /\ E <= D
        BY <2>1, <3>3, <4>1 DEF Charge
      <4> HIDE DEF D, E
      <4>3. QED
        BY <1>3, <2>1, <2>3, <3>3, <3>5, <4>2, ChargedLess
    <3>6. CASE calls' = Onward(k, next) /\ r.tokens # 0 /\ rl'[c] = OneLess(r)
      <4> DEFINE S == [from : 0 .. clock, to : 0 .. clock]
      <4>1. PICK e \in S : e = [from |-> calls[k].from, to |-> clock] /\ e.from = calls[k].from
        <5>1. clock \in 0 .. clock
          BY <1>3
        <5>2. [from |-> calls[k].from, to |-> clock] \in S
          BY <1>3, <5>1
        <5>3. QED
          BY <5>2
      <4>2. PICK q \in Seq(S) : q = spans[c]
        BY <1>3
      <4>a. spans'[c] = Append(q, e)
        BY <1>1, <1>3, <1>8, <2>9, <3>4, <3>6, <4>1, <4>2 DEF InnerLayer
      <4> HIDE DEF S
      <4>b. Cardinality(Done(Append(q, e), t)) =
              Cardinality(Done(q, t)) + (IF e.from >= t THEN 1 ELSE 0)
        BY DoneAppend
      <4>3. Cardinality(Done(spans'[c], t)) = n + (IF calls[k].from >= t THEN 1 ELSE 0)
        BY <4>1, <4>2, <4>a, <4>b
      <4>4. E \in Nat /\ E <= D + 1
        BY <2>1, <3>3, <4>3 DEF Charge
      <4> HIDE DEF D, E
      <4>5. QED
        BY <1>3, <2>1, <2>4, <3>3, <3>6, <4>4, ChargedLess
    <3>7. QED
      BY <1>5, <3>5, <3>6
  <2>10. QED
    BY <1>5, <2>7, <2>8, <2>9
<1>11. QED
  BY <1>9, <1>10

\* Every step of the limiter keeps the charges paid.
LEMMA PaidStep == RlShape /\ RlPaid /\ [RlNext]_rlVars => RlPaid'
<1> SUFFICES ASSUME RlShape, RlPaid, [RlNext]_rlVars PROVE RlPaid'
  OBVIOUS
<1>1. /\ clock \in Nat /\ calls \in [Call -> RlCall(clock)]
      /\ spans \in [Client -> Seq([from : 0 .. clock, to : 0 .. clock])]
      /\ rl \in [DOMAIN rl -> BucketAt(clock)]
  BY DEF RlShape
<1> DEFINE Same(k) == \/ calls'[k].at # "inner" /\ calls[k].at # "inner"
                      \/ /\ calls'[k].at = calls[k].at /\ calls'[k].req = calls[k].req
                         /\ calls'[k].ip = calls[k].ip /\ calls'[k].from = calls[k].from
                      \/ ~ Limited(calls[k].req) /\ ~ Limited(calls'[k].req)
<1>2. ASSUME UNCHANGED <<clock, rl, spans>>, \A k \in Call : Same(k) PROVE RlPaid'
  <2>1. ASSUME NEW c \in Client, NEW t \in 0 .. clock PROVE Half(calls', c, t) = Half(calls, c, t)
    BY <1>2 DEF Half
  <2>2. QED
    BY <1>2, <2>1 DEF RlPaid, Covered, Charge
<1>3. ASSUME NEW k \in Call, \/ OuterLayer(k)
                            \/ InnerLayer(k)
      PROVE  RlPaid'
  <2>1. PICK here \in {"outer", "inner"}, next \in {"inner", "handler"} : Layer(k, here, next)
    BY <1>3 DEF OuterLayer, InnerLayer
  <2>2. CASE Limited(calls[k].req)
    BY <1>3, <2>1, <2>2, LayerPays DEF RlPaid, Layer
  <2>3. CASE ~ Limited(calls[k].req)
    <3>1. calls' = Onward(k, next) /\ UNCHANGED <<clock, rl, spans>>
      BY <1>3, <2>1, <2>3 DEF Layer, OuterLayer, InnerLayer
    <3>2. Onward(k, next)[k].req = calls[k].req /\ \A j \in Call \ {k} : Onward(k, next)[j] = calls[j]
      BY CallUpdates, 0 \in Nat
    <3>3. \A j \in Call : Same(j)
      BY <2>3, <3>1, <3>2
    <3>4. QED
      <4> HIDE DEF Same
      <4>1. QED
        BY <1>2, <3>1, <3>3
  <2>4. QED
    BY <2>2, <2>3
<1>4. ASSUME NEW k \in Call, NEW code \in Nat, calls' = Answered(k, code), calls[k].at # "inner",
             UNCHANGED <<clock, rl, spans>>
      PROVE  RlPaid'
  <2>1. Answered(k, code)[k].at = "idle" /\ \A j \in Call \ {k} : Answered(k, code)[j] = calls[j]
    BY CallUpdates
  <2>2. \A j \in Call : Same(j)
    BY <1>4, <2>1
  <2>3. QED
    <3> HIDE DEF Same
    <3>1. QED
      BY <1>2, <1>4, <2>2
<1>5. ASSUME NEW k \in Call, Handle(k) PROVE RlPaid'
  <2>1. PICK code \in WalletReply(calls[k].req) : calls' = Answered(k, code)
    BY <1>5 DEF Handle
  <2>2. calls[k].req \in HttpReq
    BY <1>5 DEF Handle, RlShape
  <2>3. code \in Nat
    BY <2>1, <2>2, LimiterAssumption DEF WalletReply
  <2>4. QED
    BY <1>4, <1>5, <2>1, <2>3 DEF Handle
<1>6. ASSUME NEW k \in Call, NEW c \in Client, NEW r \in HttpReq, Arrive(k, c, r) PROVE RlPaid'
  <2>1. CASE r.method = "OPTIONS"
    BY <1>4, <1>6, <2>1 DEF Arrive
  <2>2. CASE r.method # "OPTIONS"
    <3> DEFINE new == [NoCall EXCEPT !.ip = c, !.req = r, !.at = "outer", !.patient = Rested(c)]
               old(x) == [calls[x] EXCEPT !.patient = @ /\ calls[x].ip # c]
    <3>1. new.at = "outer"
      <4>1. PICK n \in RlCall(clock) : n = NoCall
        BY <1>1, NoCallShape
      <4>2. QED
        BY <4>1 DEF RlCall
    <3>2. ASSUME NEW x \in Call
          PROVE  /\ old(x).at = calls[x].at /\ old(x).ip = calls[x].ip
                 /\ old(x).req = calls[x].req /\ old(x).from = calls[x].from
      <4>1. PICK n \in RlCall(clock) : n = calls[x]
        BY <1>1
      <4>2. QED
        BY <4>1 DEF RlCall
    <3>3. /\ calls' = [x \in Call |-> IF x = k THEN new ELSE old(x)] /\ UNCHANGED <<clock, rl, spans>>
          /\ calls[k].at = "idle"
      BY <1>6, <2>2 DEF Arrive
    <3> HIDE DEF new, old
    <3>4. \A j \in Call : Same(j)
      BY <3>1, <3>2, <3>3
    <3>5. QED
      <4> HIDE DEF Same
      <4>1. QED
        BY <1>2, <3>3, <3>4
  <2>3. QED
    BY <2>1, <2>2
<1>7. ASSUME Tick PROVE RlPaid'
  <2>1. clock' = clock + 1 /\ UNCHANGED <<rl, calls, spans>>
    BY <1>7 DEF Tick
  <2>2. SUFFICES ASSUME NEW c \in Client, NEW t \in 0 .. clock + 1 PROVE Covered(calls, spans, rl, c, t)
    BY <2>1 DEF RlPaid
  <2>3. CASE t \in 0 .. clock
    BY <2>3 DEF RlPaid
  <2>4. CASE t = clock + 1
    <3>1. Half(calls, c, t) = {}
      BY <1>1, <2>4 DEF Half, RlCall
    <3>2. Done(spans[c], t) = {}
      <4> DEFINE S == [from : 0 .. clock, to : 0 .. clock]
      <4>1. PICK q \in Seq(S) : q = spans[c]
        BY <1>1
      <4>a. \A i \in DOMAIN q : q[i] \in S
        <5> HIDE DEF S
        <5>1. QED
          OBVIOUS
      <4>2. \A i \in DOMAIN spans[c] : spans[c][i].from \in 0 .. clock
        BY <4>1, <4>a
      <4>3. QED
        BY <1>1, <2>4, <4>2 DEF Done
    <3>3. Charge(calls, spans, c, t) = 0 /\ IsFiniteSet(Half(calls, c, t))
      BY <3>1, <3>2, FS_EmptySet DEF Charge
    <3>4. c \in DOMAIN rl => Charged(0, rl[c], t)
      BY <1>1, ChargedNothing
    <3>5. QED
      BY <3>3, <3>4 DEF Covered
  <2>5. QED
    BY <1>1, <2>3, <2>4
<1>8. CASE UNCHANGED rlVars
  BY <1>8 DEF rlVars, RlPaid
<1>9. QED
  BY <1>3, <1>5, <1>6, <1>7, <1>8 DEF RlNext

\* The restores that lie between t1 and t2.
Within(sp, t1, t2) == {i \in DOMAIN sp : sp[i].from >= t1 /\ sp[i].to <= t2}

\* The stretches that end now are bounded by the charges; those that ended earlier are not
\* touched, since a restore ends when it takes its last token.
LEMMA BoundStep ==
    RlShape /\ RlShape' /\ RlPaid' /\ RestoresBounded /\ [RlNext]_rlVars => RestoresBounded'
<1> SUFFICES ASSUME RlShape, RlShape', RlPaid', RestoresBounded, [RlNext]_rlVars,
                    NEW c \in Client, NEW t1 \in 0 .. clock', NEW t2 \in t1 .. clock'
             PROVE  2 * Cardinality(Within(spans'[c], t1, t2)) <= Rpm + 1 + (t2 - t1) \div TokenTime
  BY DEF RestoresBounded, Within
<1>1. /\ clock \in Nat /\ clock' \in Nat /\ Rpm \in Nat /\ TokenTime \in Nat \ {0}
      /\ spans \in [Client -> Seq([from : 0 .. clock, to : 0 .. clock])]
      /\ spans' \in [Client -> Seq([from : 0 .. clock', to : 0 .. clock'])]
      /\ rl' \in [DOMAIN rl' -> BucketAt(clock')]
  BY LimiterAssumption DEF RlShape
<1>2. CASE t2 = clock'
  <2> DEFINE D == Charge(calls', spans', c, t1)
  <2>1. Covered(calls', spans', rl', c, t1)
    BY DEF RlPaid
  <2>2. /\ IsFiniteSet(Done(spans'[c], t1)) /\ Cardinality(Done(spans'[c], t1)) \in Nat
    BY <1>1, DoneAppend
  <2>3. Cardinality(Half(calls', c, t1)) \in Nat
    BY <2>1, FS_CardinalityType DEF Covered
  <2>4. D \in Nat /\ 2 * Cardinality(Done(spans'[c], t1)) <= D
    BY <2>2, <2>3 DEF Charge
  <2>5. /\ Cardinality(Within(spans'[c], t1, t2)) <= Cardinality(Done(spans'[c], t1))
        /\ Cardinality(Within(spans'[c], t1, t2)) \in Nat
    <3>1. Within(spans'[c], t1, t2) \subseteq Done(spans'[c], t1)
      BY DEF Within, Done
    <3>2. QED
      BY <2>2, <3>1, FS_Subset, FS_CardinalityType
  <2>6. (clock' - t1) \div TokenTime \in Nat
    <3>1. clock' - t1 \in Nat
      BY <1>1
    <3>2. QED
      BY <1>1, <3>1, DivBounds
  <2>7. D <= Rpm + 1 + (clock' - t1) \div TokenTime
    <3>1. CASE c \in DOMAIN rl'
      <4>1. PICK b \in BucketAt(clock') : b = rl'[c]
        BY <1>1, <3>1
      <4>2. Charged(D, b, t1)
        BY <2>1, <3>1, <4>1 DEF Covered
      <4> HIDE DEF D
      <4>3. QED
        BY <1>1, <2>4, <4>2, ChargedBound
    <3>2. CASE c \notin DOMAIN rl'
      <4>1. D = 0
        BY <2>1, <3>2 DEF Covered
      <4> HIDE DEF D
      <4>2. QED
        BY <1>1, <2>6, <4>1
    <3>3. QED
      BY <3>1, <3>2
  <2> HIDE DEF D
  <2>8. QED
    BY <1>1, <1>2, <2>2, <2>4, <2>5, <2>7, <2>6
<1>3. CASE t2 # clock'
  <2>1. \/ spans' = spans /\ clock' \in {clock, clock + 1}
        \/ /\ clock' = clock
           /\ \E k \in Call : spans' = [spans EXCEPT ![calls[k].ip] =
                                          Append(@, [from |-> calls[k].from, to |-> clock])]
    BY DEF RlNext, rlVars, OuterLayer, InnerLayer, Layer, Handle, Arrive, Tick
  <2>2. t1 \in 0 .. clock /\ t2 \in t1 .. clock
    BY <1>1, <1>3, <2>1
  <2>3. 2 * Cardinality(Within(spans[c], t1, t2)) <= Rpm + 1 + (t2 - t1) \div TokenTime
    BY <2>2 DEF RestoresBounded, Within
  <2>4. Within(spans'[c], t1, t2) = Within(spans[c], t1, t2)
    <3>1. CASE spans' = spans
      BY <3>1
    <3>2. CASE clock' = clock /\ spans' # spans
      <4>1. PICK k \in Call : spans' = [spans EXCEPT ![calls[k].ip] =
                                          Append(@, [from |-> calls[k].from, to |-> clock])]
        BY <2>1, <3>2
      <4> DEFINE e == [from |-> calls[k].from, to |-> clock]
                 q == spans[c]
      <4>2. spans'[c] = q \/ spans'[c] = Append(q, e)
        BY <1>1, <4>1
      <4>a. t2 < clock
        BY <1>1, <1>3, <2>2, <3>2
      <4>3. q \in Seq([from : 0 .. clock, to : 0 .. clock]) /\ e.to = clock
        BY <1>1
      <4>4. Len(q) \in Nat /\ DOMAIN q = 1 .. Len(q)
        BY <4>3
      <4> HIDE DEF e, q
      <4>5. /\ DOMAIN Append(q, e) = 1 .. Len(q) + 1 /\ Append(q, e)[Len(q) + 1] = e
            /\ \A i \in 1 .. Len(q) : Append(q, e)[i] = q[i]
        BY <4>3
      <4>6. DOMAIN Append(q, e) = DOMAIN q \cup {Len(q) + 1}
        BY <4>4, <4>5
      <4>7. ~ (e.to <= t2)
        BY <1>1, <2>2, <4>3, <4>a
      <4>8. Within(Append(q, e), t1, t2) = Within(q, t1, t2)
        BY <4>4, <4>5, <4>6, <4>7 DEF Within
      <4>9. QED
        BY <4>2, <4>8 DEF q
    <3>3. QED
      BY <2>1, <3>1, <3>2
  <2>5. QED
    BY <2>3, <2>4
<1>4. QED
  BY <1>2, <1>3

\* Any number of clients and requests, however they overlap: in no stretch of time does a
\* client get more restores than half of a full bucket, the tokens that came back meanwhile
\* and one, since both layers of withRateLimitRestore charge its one bucket.
THEOREM RestoresAreBounded == RlSpec => []RestoresBounded
<1>1. RlInit => RlPaid /\ RestoresBounded
  <2> SUFFICES ASSUME RlInit PROVE RlPaid /\ RestoresBounded
    OBVIOUS
  <2>1. \A c \in Client : spans[c] = <<>>
    BY DEF RlInit
  <2>2. ASSUME NEW c \in Client, NEW t1, NEW t2
        PROVE  Within(spans[c], t1, t2) = {} /\ Done(spans[c], t1) = {} /\ Half(calls, c, t1) = {}
    <3>1. DOMAIN spans[c] = {}
      BY <2>1
    <3>2. \A k \in Call : calls[k].at # "inner"
      BY NoCallShape, 0 \in Nat DEF RlInit
    <3>3. QED
      BY <3>1, <3>2 DEF Within, Done, Half
  <2>a. IsFiniteSet({}) /\ Cardinality({}) = 0
    BY FS_EmptySet
  <2>3. RlPaid
    <3>1. DOMAIN rl = {}
      BY DEF RlInit
    <3> SUFFICES ASSUME NEW c \in Client, NEW t \in 0 .. clock PROVE Covered(calls, spans, rl, c, t)
      BY DEF RlPaid
    <3>2. Half(calls, c, t) = {} /\ Done(spans[c], t) = {}
      BY <2>2
    <3>3. QED
      BY <2>a, <3>1, <3>2 DEF Covered, Charge
  <2>4. RestoresBounded
    <3> SUFFICES ASSUME NEW c \in Client, NEW t1 \in 0 .. clock, NEW t2 \in t1 .. clock
                 PROVE  2 * Cardinality(Within(spans[c], t1, t2)) <=
                          Rpm + 1 + (t2 - t1) \div TokenTime
      BY DEF RestoresBounded, Within
    <3>1. t2 - t1 \in Nat /\ Rpm \in Nat /\ TokenTime \in Nat \ {0}
      BY LimiterAssumption DEF RlInit
    <3>2. (t2 - t1) \div TokenTime \in Nat
      BY <3>1, DivBounds
    <3>3. Cardinality(Within(spans[c], t1, t2)) = 0
      BY <2>2, <2>a
    <3> HIDE DEF Within
    <3>4. QED
      BY <3>1, <3>2, <3>3
  <2>5. QED
    BY <2>3, <2>4
<1>2. QED
  BY <1>1, RlStarts, RlShapeStep, PaidStep, BoundStep, PTL DEF RlSpec

(***************************************************************************)
(* The reward engine.  First what the division of a share by weights gives:*)
(* the portions, and what they leave handed out one by one.                *)
(***************************************************************************)
\* The place of i among the numbers of H, and those on the first r places.
PlaceIn(H, i) == Cardinality({j \in H : j <= i})
Early(H, r) == {i \in H : PlaceIn(H, i) <= r}

\* There are r of them, or all.
LEMMA EarlyCount ==
    ASSUME NEW n \in Nat, NEW H \in SUBSET (1 .. n), NEW r \in Nat
    PROVE  /\ IsFiniteSet(H) /\ IsFiniteSet(Early(H, r))
           /\ Cardinality(Early(H, r)) = IF r <= Cardinality(H) THEN r ELSE Cardinality(H)
<1> DEFINE G == {s \in SUBSET H :
                   Cardinality(Early(s, r)) = IF r <= Cardinality(s) THEN r ELSE Cardinality(s)}
<1>1. IsFiniteSet(H)
  <2>1. IsFiniteSet(1 .. n)
    BY FS_Interval
  <2>2. QED
    BY <2>1, FS_Subset
<1>2. ASSUME NEW s \in SUBSET H, \A x \in s : s \ {x} \in G
      PROVE  s \in G
  <2>1. IsFiniteSet(s)
    BY <1>1, FS_Subset
  <2>2. CASE s = {}
    <3>1. Early(s, r) = {} /\ Cardinality(s) = 0
      BY <2>2, FS_EmptySet DEF Early
    <3>2. QED
      BY <3>1, FS_EmptySet
  <2>3. CASE s # {}
    <3>1. PICK m \in s : \A j \in s : m >= j
      <4>1. s \in SUBSET (1 .. n)
        OBVIOUS
      <4>2. Max(s) \in s /\ \A j \in s : Max(s) >= j
        BY <2>3, <4>1, MaxType
      <4>3. QED
        BY <4>2
    <3> DEFINE t == s \ {m}
    <3>2. PICK k \in Nat : k = Cardinality(t) /\ Cardinality(s) = k + 1 /\ IsFiniteSet(t)
      <4>1. /\ Cardinality(s) \in Nat /\ Cardinality(s \ {m}) \in Nat
            /\ Cardinality(s \ {m}) = Cardinality(s) - 1 /\ IsFiniteSet(s \ {m})
        BY <1>1, <3>1, Smaller
      <4>2. QED
        BY <4>1
    <3>3. \A i \in t : PlaceIn(s, i) = PlaceIn(t, i)
      <4> TAKE i \in t
      <4>1. i \in 1 .. n /\ m \in 1 .. n /\ m > i
        BY <3>1
      <4>2. {j \in s : j <= i} = {j \in t : j <= i}
        BY <4>1
      <4>3. QED
        BY <4>2 DEF PlaceIn
    <3>4. PlaceIn(s, m) = k + 1
      <4>1. {j \in s : j <= m} = s
        BY <3>1
      <4>2. QED
        BY <3>2, <4>1 DEF PlaceIn
    <3>5. Early(s, r) = Early(t, r) \cup (IF k + 1 <= r THEN {m} ELSE {}) /\ m \notin Early(t, r)
      BY <3>3, <3>4 DEF Early
    <3>6. IsFiniteSet(Early(t, r))
      BY <3>2, FS_Subset DEF Early
    <3>7. Cardinality(Early(t, r)) = IF r <= k THEN r ELSE k
      BY <1>2, <3>1, <3>2
    <3> HIDE DEF t
    <3>8. CASE k + 1 <= r
      <4>1. Early(s, r) = Early(t, r) \cup {m}
        BY <3>5, <3>8
      <4>2. Cardinality(Early(s, r)) = Cardinality(Early(t, r)) + 1
        BY <3>5, <3>6, <4>1, FS_AddElement
      <4>3. Cardinality(Early(s, r)) = k + 1
        BY <3>7, <3>8, <4>2
      <4>4. QED
        BY <3>2, <3>8, <4>3
    <3>9. CASE ~(k + 1 <= r)
      <4>1. Early(s, r) = Early(t, r)
        BY <3>5, <3>9
      <4>2. Cardinality(Early(s, r)) = r
        BY <3>7, <3>9, <4>1
      <4>3. QED
        BY <3>2, <3>9, <4>2
    <3>10. QED
      BY <3>8, <3>9
  <2>4. QED
    BY <2>2, <2>3
<1>3. H \in G
  <2> HIDE DEF G
  <2>1. QED
    BY <1>1, <1>2, SubsetInduction
<1>4. IsFiniteSet(Early(H, r))
  BY <1>1, FS_Subset DEF Early
<1>5. QED
  BY <1>1, <1>3, <1>4

\* A positive factor can be dropped from both sides.
LEMMA Cancel ==
    ASSUME NEW a \in Int, NEW b \in Int, NEW c \in Nat \ {0}
    PROVE  /\ c * a <= c * b => a <= b
           /\ c * a < c * b => a < b
<1>1. ASSUME a > b PROVE c * a > c * b
  <2>1. PICK d \in Nat : a = b + d /\ d > 0
    <3>1. a - b \in Nat /\ a = b + (a - b) /\ a - b > 0
      BY <1>1
    <3>2. QED
      BY <3>1
  <2>2. c * a = c * b + c * d /\ c * d > 0 /\ c * d \in Int /\ c * b \in Int
    BY <2>1
  <2>3. QED
    BY <2>2
<1>2. c * a \in Int /\ c * b \in Int
  OBVIOUS
<1>3. c * a <= c * b => a <= b
  BY <1>1, <1>2
<1>4. ASSUME c * a < c * b PROVE a < b
  <2>1. a <= b /\ a # b
    BY <1>2, <1>3, <1>4
  <2>2. QED
    BY <2>1
<1>5. QED
  BY <1>3, <1>4

\* The portions of a share s by weights w with sum W, products taken modulo a word: each
\* is its proportion rounded down, or less when the product wraps.
LEMMA PortionBounds ==
    ASSUME NEW s \in Nat, NEW w \in Nat, NEW W \in Nat \ {0}, NEW word \in Nat \ {0},
           NEW p, p = ((s * w) % word) \div W
    PROVE  /\ p \in Nat /\ W * p \in Nat /\ s * w \in Nat
           /\ W * p <= s * w
           /\ s * w < word => s * w + 1 <= W * p + W
<1>1. PICK x \in Nat : x = s * w
  OBVIOUS
<1>2. PICK y \in Nat : y = x % word /\ y <= x /\ (x < word => y = x)
  <2>1. x % word \in Nat /\ x % word <= x /\ (x < word => x % word = x)
    BY <1>1
  <2>2. QED
    BY <2>1
<1>3. p = y \div W
  BY <1>1, <1>2
<1>4. p \in Nat /\ W * p <= y /\ y < W * p + W
  BY <1>3, DivBounds
<1>5. W * p \in Nat
  BY <1>4
<1>6. QED
  BY <1>1, <1>2, <1>4, <1>5

\* Portions and what is handed out one by one: p is the portions, r what they leave, q
\* what each position of H gets in the end.
Portioned(H, s, w, W, word, p) ==
    /\ \A i \in H : w[i] \in Nat /\ p[i] = ((s * w[i]) % word) \div W
    /\ W = Sum(w, H)

HandedOut(H, p, r, q) ==
    \A i \in H : q[i] = p[i] + (IF PlaceIn(H, i) <= r THEN 1 ELSE 0)

\* The portions are no more than the share, and where no product wraps they leave less
\* than one for each.
LEMMA PortionsFit ==
    ASSUME NEW H, IsFiniteSet(H), NEW s \in Nat, NEW w, NEW W \in Nat \ {0},
           NEW word \in Nat \ {0}, NEW p, Portioned(H, s, w, W, word, p), H # {}
    PROVE  /\ \A i \in H : p[i] \in Nat
           /\ Sum(p, H) \in Nat /\ Sum(p, H) <= s
           /\ (\A i \in H : s * w[i] < word) => s < Sum(p, H) + Cardinality(H)
<1> DEFINE sw == [i \in H |-> s * w[i] + 0]
           wp == [i \in H |-> W * p[i] + 0]
           sw1 == [i \in H |-> s * w[i] + 1]
           wp1 == [i \in H |-> W * p[i] + W]
<1>1. \A i \in H : /\ w[i] \in Nat /\ p[i] \in Nat
                   /\ W * p[i] \in Nat /\ s * w[i] \in Nat /\ W * p[i] <= s * w[i]
                   /\ s * w[i] < word => s * w[i] + 1 <= W * p[i] + W
  <2> TAKE i \in H
  <2>1. w[i] \in Nat /\ p[i] = ((s * w[i]) % word) \div W
    BY DEF Portioned
  <2>2. QED
    BY <2>1, PortionBounds
<1>2. PICK F \in Nat, n \in Nat : F = Sum(p, H) /\ n = Cardinality(H)
  BY <1>1, SumType, FS_CardinalityType
<1>3. W = Sum(w, H)
  BY DEF Portioned
<1>4. Sum(sw, H) = s * W + 0 * n /\ Sum(wp, H) = W * F + 0 * n
  <2>1. \A i \in H : w[i] \in Int /\ sw[i] = s * w[i] + 0
    BY <1>1
  <2>2. \A i \in H : p[i] \in Int /\ wp[i] = W * p[i] + 0
    BY <1>1
  <2> HIDE DEF sw, wp
  <2>3. Sum(sw, H) = s * W + 0 * n
    BY <1>2, <1>3, <2>1, SumScale
  <2>4. Sum(wp, H) = W * F + 0 * n
    BY <1>2, <2>2, SumScale
  <2>5. QED
    BY <2>3, <2>4
<1>5. Sum(wp, H) <= Sum(sw, H)
  <2>1. \A i \in H : wp[i] \in Int /\ sw[i] \in Int /\ wp[i] <= sw[i]
    BY <1>1
  <2> HIDE DEF sw, wp
  <2>2. QED
    BY <2>1, SumLe
<1>6. s * W \in Nat /\ W * F \in Nat /\ s * W = W * s
  BY <1>2
<1>7. W * F <= W * s
  BY <1>2, <1>4, <1>5, <1>6
<1>8. F <= s
  BY <1>2, <1>7, Cancel
<1>9. ASSUME \A i \in H : s * w[i] < word PROVE s < F + n
  <2>1. Sum(sw1, H) = s * W + 1 * n /\ Sum(wp1, H) = W * F + W * n
    <3>1. \A i \in H : w[i] \in Int /\ sw1[i] = s * w[i] + 1
      BY <1>1
    <3>2. \A i \in H : p[i] \in Int /\ wp1[i] = W * p[i] + W
      BY <1>1
    <3> HIDE DEF sw1, wp1
    <3>3. Sum(sw1, H) = s * W + 1 * n
      BY <1>2, <1>3, <3>1, SumScale
    <3>4. Sum(wp1, H) = W * F + W * n
      BY <1>2, <3>2, SumScale
    <3>5. QED
      BY <3>3, <3>4
  <2>2. Sum(sw1, H) <= Sum(wp1, H)
    <3>1. \A i \in H : sw1[i] \in Int /\ wp1[i] \in Int /\ sw1[i] <= wp1[i]
      BY <1>1, <1>9
    <3> HIDE DEF sw1, wp1
    <3>2. QED
      BY <3>1, SumLe
  <2>3. n > 0
    BY <1>2, FS_EmptySet
  <2>4. W * (F + n) = W * F + W * n /\ W * n \in Nat
    BY <1>2
  <2>5. W * s < W * (F + n)
    BY <1>2, <1>6, <2>1, <2>2, <2>3, <2>4
  <2>6. QED
    BY <1>2, <2>5, Cancel
<1>10. QED
  BY <1>1, <1>2, <1>8, <1>9

\* Handed out one by one to the first r of H, the rest of the share is handed out in full
\* when no product wraps, and never more than the share.
LEMMA SharesAddUp ==
    ASSUME NEW n \in Nat, NEW H \in SUBSET (1 .. n), H # {}, NEW s \in Nat, NEW w,
           NEW W \in Nat \ {0}, NEW word \in Nat \ {0}, NEW p,
           Portioned(H, s, w, W, word, p),
           NEW r, r = (s - Sum(p, H)) % word, NEW q, HandedOut(H, p, r, q)
    PROVE  /\ \A i \in H : q[i] \in Nat
           /\ Sum(q, H) \in Nat /\ Sum(q, H) <= s
           /\ s < word /\ (\A i \in H : s * w[i] < word) => Sum(q, H) = s
<1> DEFINE one == [i \in H |-> IF PlaceIn(H, i) <= r THEN 1 ELSE 0]
<1>1. IsFiniteSet(H)
  BY EarlyCount
<1>2. PICK F \in Nat : /\ F = Sum(p, H) /\ F <= s
                       /\ (\A i \in H : s * w[i] < word) => s < F + Cardinality(H)
                       /\ \A i \in H : p[i] \in Nat
  BY <1>1, PortionsFit
<1>3. r \in Nat /\ r <= s - F /\ (s < word => r = s - F)
  <2>1. PICK x \in Nat : x = s - F
    BY <1>2
  <2>2. x % word \in Nat /\ x % word <= x /\ (x < word => x % word = x)
    OBVIOUS
  <2>3. QED
    BY <1>2, <2>1, <2>2
<1>4. PICK k \in Nat : /\ k = Cardinality(H)
                       /\ Cardinality(Early(H, r)) = IF r <= k THEN r ELSE k
  BY <1>1, <1>3, EarlyCount, FS_CardinalityType
<1>5. Sum(one, H) = Cardinality(Early(H, r))
  <2>1. \A i \in H : one[i] \in {0, 1}
    OBVIOUS
  <2>2. {i \in H : one[i] = 1} = Early(H, r)
    BY DEF Early
  <2> HIDE DEF one
  <2>3. Sum(one, H) = Cardinality({i \in H : one[i] = 1})
    BY <1>1, <2>1, SumCounts
  <2>4. QED
    BY <2>2, <2>3
<1>6. \A i \in H : p[i] \in Int /\ one[i] \in Nat /\ q[i] = p[i] + one[i]
  BY <1>2 DEF HandedOut
<1>7. Sum(q, H) = F + Sum(one, H)
  <2> HIDE DEF one
  <2>1. \A i \in H : p[i] \in Int /\ one[i] \in Int /\ q[i] = p[i] + one[i]
    BY <1>6
  <2>2. Sum(q, H) = Sum(p, H) + Sum(one, H)
    BY <1>1, <2>1, SumPlus
  <2>3. QED
    BY <1>2, <2>2
<1>8. \A i \in H : q[i] \in Nat
  BY <1>2, <1>6
<1> HIDE DEF one
<1>9. QED
  BY <1>2, <1>3, <1>4, <1>5, <1>7, <1>8

(***************************************************************************)
(* Weights, records and lists of them.  Then the two invariants: where     *)
(* Apply is, and that every record it has reset is settled.                *)
(***************************************************************************)
\* The schedule of BlockMintAt falls by the golden ratio, so that no interval mints more
\* than an earlier one.
Decays == \A i, j \in 1 .. Len(EpochMint) : i <= j => EpochMint[j] <= EpochMint[i]

\* The weight of a record by the fields it depends on.
WeightBy(class, consensus, participation, pool) ==
    LET sum == StakeBase[class] + consensus + participation
        out == IF sum < 0 THEN 0 ELSE sum
    IN  IF pool THEN out * PoolMultiplier ELSE out

FullWeight(r) == WeightBy(r.class, r.consensus, MaxParticipation, r.pool)

\* The largest weights the records can reach, once for each, fit a word.
WeightsFit ==
    \A s \in FirstScores : \A v \in Member : FullWeight(s[v]) * Cardinality(Member) < RewardWord

\* A score record with numbers in its fields.
IsRecord(r) ==
    /\ r = [addr |-> r.addr, class |-> r.class, consensus |-> r.consensus,
            participation |-> r.participation, pool |-> r.pool, rewarded |-> r.rewarded,
            updated |-> r.updated]
    /\ r.addr \in Member /\ r.class \in DOMAIN StakeBase /\ r.consensus \in Int
    /\ r.participation \in 0 .. MaxParticipation /\ r.rewarded \in Nat

\* A member of Score is one.
LEMMA ScoreIsRecord ==
    ASSUME NEW r \in Score
    PROVE  IsRecord(r)
BY DEF Score, IsRecord

\* RawWeight depends on four fields.
LEMMA RawWeightIs ==
    ASSUME NEW r
    PROVE  RawWeight(r) = WeightBy(r.class, r.consensus, r.participation, r.pool)
BY DEF RawWeight, WeightBy

\* Weights are natural numbers and grow with participation.
LEMMA WeightGrows ==
    ASSUME NEW c \in DOMAIN StakeBase, NEW k \in Int, NEW p \in Nat, NEW q \in Nat, p <= q, NEW b
    PROVE  /\ WeightBy(c, k, p, b) \in Nat /\ WeightBy(c, k, q, b) \in Nat
           /\ WeightBy(c, k, p, b) <= WeightBy(c, k, q, b)
<1> DEFINE Out(x) == IF StakeBase[c] + k + x < 0 THEN 0 ELSE StakeBase[c] + k + x
<1>1. StakeBase[c] \in Nat /\ PoolMultiplier \in Nat
  BY RewardsAssumption
<1>2. PICK x \in Nat, y \in Nat : x = Out(p) /\ y = Out(q) /\ x <= y
  <2>1. Out(p) \in Nat /\ Out(q) \in Nat /\ Out(p) <= Out(q)
    BY <1>1
  <2>2. QED
    BY <2>1
<1>3. x * PoolMultiplier \in Nat /\ y * PoolMultiplier \in Nat
      /\ x * PoolMultiplier <= y * PoolMultiplier
  <2>1. PICK d \in Nat : y = x + d
    <3>1. y - x \in Nat /\ y = x + (y - x)
      BY <1>2
    <3>2. QED
      BY <3>1
  <2>2. y * PoolMultiplier = x * PoolMultiplier + d * PoolMultiplier
        /\ d * PoolMultiplier \in Nat /\ x * PoolMultiplier \in Nat
    BY <1>1, <2>1
  <2>3. QED
    BY <2>2
<1>4. /\ WeightBy(c, k, p, b) = IF b THEN x * PoolMultiplier ELSE x
      /\ WeightBy(c, k, q, b) = IF b THEN y * PoolMultiplier ELSE y
  BY <1>2 DEF WeightBy
<1>5. QED
  BY <1>2, <1>3, <1>4

\* The weights of a record, of the same record with its participation cleared, and of the
\* same record with all the participation there can be.
LEMMA RecordWeights ==
    ASSUME NEW r, IsRecord(r)
    PROVE  /\ RawWeight(r) \in Nat /\ FullWeight(r) \in Nat
           /\ WeightOf(r) \in Nat /\ WeightOf(r) < RewardWord
           /\ RawWeight(r) <= FullWeight(r)
           /\ RawWeight([r EXCEPT !.participation = 0]) \in Nat
           /\ RawWeight([r EXCEPT !.participation = 0]) <= RawWeight(r)
<1>1. /\ r.class \in DOMAIN StakeBase /\ r.consensus \in Int /\ r.participation \in Nat
      /\ r.participation <= MaxParticipation /\ MaxParticipation \in Nat
      /\ RewardWord \in Nat /\ RewardWord > 0
  BY RewardsAssumption DEF IsRecord
<1>2. /\ RawWeight(r) \in Nat /\ FullWeight(r) \in Nat /\ RawWeight(r) <= FullWeight(r)
  BY <1>1, WeightGrows, RawWeightIs DEF FullWeight
<1>3. [r EXCEPT !.participation = 0] =
        [addr |-> r.addr, class |-> r.class, consensus |-> r.consensus, participation |-> 0,
         pool |-> r.pool, rewarded |-> r.rewarded, updated |-> r.updated]
  BY DEF IsRecord
<1>4. RawWeight([r EXCEPT !.participation = 0]) = WeightBy(r.class, r.consensus, 0, r.pool)
  BY <1>3, RawWeightIs
<1>5. /\ RawWeight([r EXCEPT !.participation = 0]) \in Nat
      /\ RawWeight([r EXCEPT !.participation = 0]) <= RawWeight(r)
  <2>1. 0 <= r.participation /\ 0 \in Nat
    BY <1>1
  <2>2. QED
    BY <1>1, <1>4, <2>1, WeightGrows, RawWeightIs
<1>6. WeightOf(r) \in Nat /\ WeightOf(r) < RewardWord
  BY <1>1, <1>2 DEF WeightOf
<1>7. QED
  BY <1>2, <1>5, <1>6

\* Writing some fields of a record.
LEMMA FieldsWritten ==
    ASSUME NEW r, IsRecord(r), NEW p, NEW u
    PROVE  [r EXCEPT !.participation = p, !.updated = u] =
             [addr |-> r.addr, class |-> r.class, consensus |-> r.consensus,
              participation |-> p, pool |-> r.pool, rewarded |-> r.rewarded, updated |-> u]
<1>1. PICK r1 : r1 = [r EXCEPT !.participation = p]
  OBVIOUS
<1>2. r1 = [addr |-> r.addr, class |-> r.class, consensus |-> r.consensus,
            participation |-> p, pool |-> r.pool, rewarded |-> r.rewarded, updated |-> r.updated]
  BY <1>1 DEF IsRecord
<1>3. [r1 EXCEPT !.updated = u] =
        [addr |-> r.addr, class |-> r.class, consensus |-> r.consensus,
         participation |-> p, pool |-> r.pool, rewarded |-> r.rewarded, updated |-> u]
  BY <1>2
<1>4. QED
  BY <1>1, <1>3, Zenon

\* What ResetForEpoch writes.
LEMMA ResetWrites ==
    ASSUME NEW r, IsRecord(r), NEW e, NEW u
    PROVE  ResetForEpoch(r, e, u) =
             [addr |-> r.addr, class |-> r.class, consensus |-> r.consensus,
              participation |-> 0, pool |-> r.pool, rewarded |-> e, updated |-> u]
<1>1. PICK r1 : r1 = [r EXCEPT !.participation = 0]
  OBVIOUS
<1>2. r1 = [addr |-> r.addr, class |-> r.class, consensus |-> r.consensus,
            participation |-> 0, pool |-> r.pool, rewarded |-> r.rewarded, updated |-> r.updated]
  BY <1>1 DEF IsRecord
<1>3. PICK r2 : r2 = [r1 EXCEPT !.rewarded = e]
  OBVIOUS
<1>4. r2 = [addr |-> r.addr, class |-> r.class, consensus |-> r.consensus,
            participation |-> 0, pool |-> r.pool, rewarded |-> e, updated |-> r.updated]
  BY <1>2, <1>3
<1>5. [r2 EXCEPT !.updated = u] =
        [addr |-> r.addr, class |-> r.class, consensus |-> r.consensus,
         participation |-> 0, pool |-> r.pool, rewarded |-> e, updated |-> u]
  BY <1>4
<1>6. QED
  BY <1>1, <1>3, <1>5, Zenon DEF ResetForEpoch

\* The weight a record has without its participation.
BareWeight(r) == WeightOf([r EXCEPT !.participation = 0])

\* A reset record is a record; it weighs what the old one weighs without participation.
LEMMA ResetRecord ==
    ASSUME NEW r, IsRecord(r), NEW e \in Nat, NEW h, NEW z, z = ResetForEpoch(r, e, h)
    PROVE  /\ IsRecord(z) /\ z.addr = r.addr /\ z.rewarded = e
           /\ FullWeight(z) = FullWeight(r) /\ BareWeight(z) = BareWeight(r)
<1>1. z = [addr |-> r.addr, class |-> r.class, consensus |-> r.consensus, participation |-> 0,
           pool |-> r.pool, rewarded |-> e, updated |-> h]
  BY ResetWrites, Zenon
<1>2. /\ z.addr = r.addr /\ z.class = r.class /\ z.consensus = r.consensus
      /\ z.participation = 0 /\ z.pool = r.pool /\ z.rewarded = e /\ z.updated = h
  BY <1>1
<1>3. IsRecord(z)
  BY <1>1, <1>2, RewardsAssumption DEF IsRecord
<1>4. FullWeight(z) = FullWeight(r)
  BY <1>2 DEF FullWeight
<1>5. ASSUME NEW u, IsRecord(u)
      PROVE  RawWeight([u EXCEPT !.participation = 0]) = WeightBy(u.class, u.consensus, 0, u.pool)
  <2>1. [u EXCEPT !.participation = 0] =
          [addr |-> u.addr, class |-> u.class, consensus |-> u.consensus, participation |-> 0,
           pool |-> u.pool, rewarded |-> u.rewarded, updated |-> u.updated]
    BY <1>5 DEF IsRecord
  <2>2. QED
    BY <2>1, RawWeightIs
<1>6. RawWeight([z EXCEPT !.participation = 0]) = RawWeight([r EXCEPT !.participation = 0])
  BY <1>2, <1>3, <1>5
<1>7. QED
  BY <1>2, <1>3, <1>4, <1>6 DEF BareWeight, WeightOf

\* A record with one more participation.
LEMMA ParticipatedRecord ==
    ASSUME NEW r, IsRecord(r), r.participation < MaxParticipation, NEW h, NEW z,
           z = [r EXCEPT !.participation = @ + 1, !.updated = h]
    PROVE  /\ IsRecord(z) /\ z.addr = r.addr /\ z.rewarded = r.rewarded
           /\ FullWeight(z) = FullWeight(r) /\ BareWeight(z) = BareWeight(r)
<1>1. z = [addr |-> r.addr, class |-> r.class, consensus |-> r.consensus,
           participation |-> r.participation + 1,
           pool |-> r.pool, rewarded |-> r.rewarded, updated |-> h]
  BY FieldsWritten, Zenon
<1>2. /\ z.addr = r.addr /\ z.class = r.class /\ z.consensus = r.consensus
      /\ z.participation = r.participation + 1 /\ z.pool = r.pool /\ z.rewarded = r.rewarded
      /\ z.updated = h
  BY <1>1
<1>3. r.participation + 1 \in 0 .. MaxParticipation
  BY RewardsAssumption DEF IsRecord
<1>4. IsRecord(z)
  BY <1>1, <1>2, <1>3 DEF IsRecord
<1>5. FullWeight(z) = FullWeight(r)
  BY <1>2 DEF FullWeight
<1>6. ASSUME NEW u, IsRecord(u)
      PROVE  RawWeight([u EXCEPT !.participation = 0]) = WeightBy(u.class, u.consensus, 0, u.pool)
  <2>1. [u EXCEPT !.participation = 0] =
          [addr |-> u.addr, class |-> u.class, consensus |-> u.consensus, participation |-> 0,
           pool |-> u.pool, rewarded |-> u.rewarded, updated |-> u.updated]
    BY <1>6 DEF IsRecord
  <2>2. QED
    BY <2>1, RawWeightIs
<1>7. RawWeight([z EXCEPT !.participation = 0]) = RawWeight([r EXCEPT !.participation = 0])
  BY <1>2, <1>4, <1>6
<1>8. QED
  BY <1>2, <1>4, <1>5, <1>7 DEF BareWeight, WeightOf

\* The list Apply works on: every record once.
IsListing(list) ==
    /\ DOMAIN list = 1 .. Cardinality(Member)
    /\ \A i \in DOMAIN list : IsRecord(list[i])
    /\ \A i, j \in DOMAIN list : list[i].addr = list[j].addr => i = j

\* SumOf is a sum over the domain.
LEMMA SumOfIs ==
    ASSUME NEW f
    PROVE  SumOf(f) = Sum(f, DOMAIN f)
BY DEF SumOf, Sum

\* The positions of a list and its weights.
LEMMA ListingWeights ==
    ASSUME NEW list, IsListing(list)
    PROVE  LET w == [i \in DOMAIN list |-> WeightOf(list[i])]
           IN  /\ Cardinality(Member) \in Nat
               /\ IsFiniteSet(DOMAIN list)
               /\ HeavyAt(list) \in SUBSET (1 .. Cardinality(Member)) /\ IsFiniteSet(HeavyAt(list))
               /\ \A i \in DOMAIN list : w[i] \in Nat /\ w[i] < RewardWord
               /\ WeightSum(list) = Sum(w, HeavyAt(list))
               /\ WeightSum(list) = Sum(w, DOMAIN list)
               /\ WeightSum(list) \in Nat
               /\ HeavyAt(list) # {} => WeightSum(list) > 0
<1> DEFINE w == [i \in DOMAIN list |-> WeightOf(list[i])]
           H == HeavyAt(list)
<1>1. PICK n \in Nat : n = Cardinality(Member)
  BY RewardsAssumption, FS_CardinalityType
<1>2. DOMAIN list = 1 .. n /\ IsFiniteSet(1 .. n)
  BY <1>1, FS_Interval DEF IsListing
<1>3. \A i \in 1 .. n : WeightOf(list[i]) \in Nat /\ WeightOf(list[i]) < RewardWord
  BY <1>2, RecordWeights DEF IsListing
<1>4. H \in SUBSET (1 .. n) /\ IsFiniteSet(H)
  <2>1. H \in SUBSET (1 .. n)
    BY <1>2 DEF HeavyAt
  <2>2. QED
    BY <1>2, <2>1, FS_Subset
<1>5. DOMAIN w = 1 .. n /\ \A i \in 1 .. n : w[i] = WeightOf(list[i])
  BY <1>2
<1>6. WeightSum(list) = Sum(w, 1 .. n)
  BY <1>5, SumOfIs DEF WeightSum
<1>7. \A i \in (1 .. n) \ H : w[i] = 0
  BY <1>2, <1>3, <1>5 DEF HeavyAt
<1>8. \A i \in 1 .. n : w[i] \in Nat
  BY <1>3, <1>5
<1>9. \A i \in H : w[i] > 0
  BY <1>2, <1>5 DEF HeavyAt
<1> HIDE DEF w, H
<1>10. Sum(w, 1 .. n) = Sum(w, H)
  <2>1. \A i \in 1 .. n : w[i] \in Int
    BY <1>8
  <2>2. QED
    BY <1>2, <1>4, <1>7, <2>1, SumSupport
<1>11. Sum(w, 1 .. n) \in Nat
  BY <1>2, <1>8, SumType
<1>12. ASSUME H # {} PROVE Sum(w, 1 .. n) > 0
  <2>1. PICK i \in 1 .. n : i \in H
    BY <1>4, <1>12
  <2>2. w[i] \in Nat /\ w[i] > 0 /\ w[i] <= Sum(w, 1 .. n)
    BY <1>2, <1>8, <1>9, <2>1, SumBounds
  <2>3. QED
    BY <1>11, <2>2
<1>13. \A i \in 1 .. n : w[i] \in Nat /\ w[i] < RewardWord
  BY <1>3, <1>5
<1>14. QED
  BY <1>1, <1>2, <1>4, <1>6, <1>10, <1>11, <1>12, <1>13 DEF w, H

\* Who is paid, and the addresses of the payouts.
LEMMA ComputePays ==
    ASSUME NEW s, NEW list, IsListing(list)
    PROVE  /\ DOMAIN Compute(s, list) = PaidAt(s, list)
           /\ PaidAt(s, list) \subseteq DOMAIN list
           /\ \A i \in PaidAt(s, list) : Compute(s, list)[i].addr = list[i].addr
<1>1. PaidAt(s, list) \subseteq DOMAIN list
  BY DEF PaidAt, HeavyAt
<1>2. QED
  BY <1>1 DEF Compute

\* The payouts of Compute: no more than the share, all of it where no product wraps, and
\* each within one of its proportion.
AddsUp(s, list) ==
    LET H == HeavyAt(list)
        C == Compute(s, list)
        W == TotalWeight(list)
        q == [i \in H |-> C[i].amount]
        NoneWraps == \A i \in DOMAIN list : s * WeightOf(list[i]) < RewardWord
    IN  /\ PaidAt(s, list) = H /\ DOMAIN C = H
        /\ \A i \in H : q[i] \in Nat
        /\ Sum(q, H) \in Nat /\ Sum(q, H) <= s
        /\ NoneWraps => Sum(q, H) = s
        /\ NoneWraps => \A i \in H : /\ q[i] * W <= s * WeightOf(list[i]) + W
                                     /\ q[i] * W + W > s * WeightOf(list[i])

\* Compute's payouts add up.
LEMMA ComputeAddsUp ==
    ASSUME NEW s \in Nat, s > 0, NEW list, IsListing(list),
           HeavyAt(list) # {}, WeightSum(list) < RewardWord
    PROVE  AddsUp(s, list)
<1> DEFINE H == HeavyAt(list)
           C == Compute(s, list)
           q == [i \in H |-> C[i].amount]
           w == [i \in DOMAIN list |-> WeightOf(list[i])]
           p == [i \in H |-> Portion(s, list[i], TotalWeight(list))]
           NoneWraps == \A i \in DOMAIN list : s * WeightOf(list[i]) < RewardWord
<1>1. PICK n \in Nat : n = Cardinality(Member)
  BY ListingWeights
<1>2. /\ H \in SUBSET (1 .. n) /\ DOMAIN list = 1 .. n
      /\ \A i \in 1 .. n : w[i] \in Nat
      /\ WeightSum(list) = Sum(w, H)
      /\ WeightSum(list) \in Nat /\ WeightSum(list) > 0
  BY <1>1, ListingWeights DEF IsListing
<1>3. PICK W \in Nat \ {0} : W = WeightSum(list) /\ W = TotalWeight(list)
  <2>1. PICK x \in Nat, m \in Nat : x = WeightSum(list) /\ m = RewardWord /\ x < m /\ x > 0
    BY <1>2, RewardsAssumption
  <2>2. x % m = x
    BY <2>1
  <2>3. x \in Nat \ {0} /\ x = TotalWeight(list)
    BY <2>1, <2>2 DEF TotalWeight
  <2>4. QED
    BY <2>1, <2>3
<1>4. PaidAt(s, list) = H
  BY <1>3 DEF PaidAt
<1>5. PICK word \in Nat \ {0} : word = RewardWord
  BY RewardsAssumption
<1>6. Portioned(H, s, w, W, word, p)
  <2>1. \A i \in H : w[i] = WeightOf(list[i])
    BY <1>2
  <2>2. \A i \in H : p[i] = ((s * w[i]) % word) \div W
    BY <1>3, <1>5, <2>1 DEF Portion
  <2>3. \A i \in H : w[i] \in Nat
    BY <1>2
  <2> HIDE DEF w, p, H
  <2>4. QED
    BY <1>2, <1>3, <2>2, <2>3 DEF Portioned
<1> DEFINE r == (s - Sum(p, H)) % word
<1>7. \A i \in H : q[i] = p[i] + (IF PlaceIn(H, i) <= r THEN 1 ELSE 0)
  <2>1. SumOf(p) = Sum(p, H)
    BY SumOfIs
  <2>2. \A i \in H : C[i].amount = p[i] + (IF PlaceIn(H, i) <= r THEN 1 ELSE 0)
    BY <1>4, <1>5, <2>1 DEF Compute, PlaceIn
  <2>3. QED
    BY <2>2
<1>8. DOMAIN C = H
  BY <1>4, ComputePays
<1>9. \A i \in H : s * WeightOf(list[i]) = s * w[i] /\ w[i] > 0
  BY <1>2 DEF HeavyAt
<1> HIDE DEF q, w, p, H
<1>10. PICK rest : rest = r
  OBVIOUS
<1>11. /\ \A i \in H : q[i] \in Nat
       /\ Sum(q, H) \in Nat /\ Sum(q, H) <= s
       /\ s < word /\ (\A i \in H : s * w[i] < word) => Sum(q, H) = s
  <2>1. H # {}
    BY DEF H
  <2>2. rest = (s - Sum(p, H)) % word /\ HandedOut(H, p, rest, q)
    BY <1>7, <1>10 DEF HandedOut
  <2> HIDE DEF r
  <2>3. QED
    BY <1>2, <1>6, <2>1, <2>2, SharesAddUp
<1>12. ASSUME NoneWraps PROVE s < word /\ \A i \in H : s * w[i] < word
  <2>1. \A i \in H : s * w[i] < word
    BY <1>2, <1>5, <1>9, <1>12
  <2>2. PICK i \in H : TRUE
    BY DEF H
  <2>3. PICK x \in Nat : x = w[i] /\ x > 0
    BY <1>2, <1>9
  <2>4. s <= s * x
    <3>1. PICK d \in Nat : x = 1 + d
      <4>1. x - 1 \in Nat /\ x = 1 + (x - 1)
        BY <2>3
      <4>2. QED
        BY <4>1
    <3>2. s * x = s + s * d /\ s * d \in Nat
      BY <3>1
    <3>3. QED
      BY <3>2
  <2>5. s * x < word /\ s * x \in Nat
    BY <2>1, <2>3
  <2>6. QED
    BY <2>1, <2>4, <2>5
<1>13. ASSUME NoneWraps, NEW i \in H
       PROVE  q[i] * W <= s * WeightOf(list[i]) + W /\ q[i] * W + W > s * WeightOf(list[i])
  <2>1. w[i] \in Nat /\ p[i] = ((s * w[i]) % word) \div W
    BY <1>6 DEF Portioned
  <2>2. /\ p[i] \in Nat /\ W * p[i] \in Nat /\ s * w[i] \in Nat
        /\ W * p[i] <= s * w[i] /\ s * w[i] + 1 <= W * p[i] + W
    BY <1>12, <1>13, <2>1, PortionBounds
  <2>3. PICK a \in Nat, o \in {0, 1} : a = p[i] /\ q[i] = a + o
    BY <1>7, <2>2
  <2>4. (a + o) * W = W * a + o * W /\ (o * W = 0 \/ o * W = W)
    BY <2>3
  <2>5. QED
    BY <1>9, <2>2, <2>3, <2>4
<1>14. QED
  BY <1>3, <1>4, <1>8, <1>11, <1>12, <1>13 DEF q, H, AddsUp
-------------------------------------------------------------------------------
\* What a height mints, for Compute.
LEMMA MintedType ==
    ASSUME NEW h \in Nat
    PROVE  EmissionAt(h) \in Nat /\ BlockMintAt(h) \in Nat /\ Minted(h) \in Nat
<1>1. BlockMintAt(h) \in Nat
  <2>1. h \div EmissionInterval \in Nat
    BY EmissionAssumption
  <2>2. Len(EpochMint) \in Nat /\ Len(EpochMint) > 0
    BY EmissionAssumption
  <2>3. \A i \in 1 .. Len(EpochMint) : EpochMint[i] \in Nat
    BY EmissionAssumption
  <2>4. QED
    BY <2>1, <2>2, <2>3 DEF BlockMintAt
<1>2. EmissionAt(h) \in Nat
  <2>1. PICK e \in Nat \ {0} : e = IF EpochBlocks = 0 THEN 1 ELSE h \div EpochBlocks + 1
    <3>1. EpochBlocks # 0 => h \div EpochBlocks \in Nat
      BY RewardsAssumption
    <3>2. QED
      BY <3>1
  <2>2. Len(ScheduleMint) \in Nat /\ Len(ScheduleMint) > 0
    BY RewardsAssumption
  <2>3. \A i \in 1 .. Len(ScheduleMint) : ScheduleMint[i] \in Nat
    BY RewardsAssumption
  <2>4. EmissionAt(h) = ScheduleMint[IF e <= Len(ScheduleMint) THEN e ELSE Len(ScheduleMint)]
    BY <2>1 DEF EmissionAt
  <2>5. QED
    BY <2>1, <2>2, <2>3, <2>4
<1>3. QED
  BY <1>1, <1>2 DEF Minted

\* The shares of a mint, none of which is negative; the network's is zero only for no mint.
LEMMA SharesType ==
    ASSUME NEW t \in Nat
    PROVE  LET s == SplitMint(t)
           IN  /\ s.network \in Nat /\ s.foundation \in Nat /\ s.exchange \in Nat
               /\ s.network = 0 <=> t = 0
<1> DEFINE n == Share(t, 80)
           f == Share(t, 10)
<1>1. n \in Nat /\ f \in Nat /\ n + f + f <= t /\ 10 * f <= t
  BY SMT DEF Share
<1>2. SplitMint(t) = [network |-> n + (IF n + f + f < t THEN t - (n + f + f) ELSE 0),
                      foundation |-> f, exchange |-> f]
  BY DEF SplitMint, Percent
<1> HIDE DEF n, f
<1>3. QED
  BY <1>1, <1>2

\* The fields of a summary.
LEMMA SummaryFields ==
    ASSUME NEW h \in Nat
    PROVE  /\ SummaryAt(h).epoch = CurrentEpoch(h) /\ CurrentEpoch(h) \in Nat
           /\ SummaryAt(h).validators \in Nat
           /\ SummaryAt(h).foundation \in Nat /\ SummaryAt(h).exchange \in Nat
           /\ SummaryAt(h).validators = 0 <=> Minted(h) = 0
<1>1. PICK t \in Nat : t = Minted(h)
  BY MintedType
<1>2. PICK s : /\ s = SplitMint(t) /\ s.network \in Nat /\ s.foundation \in Nat
               /\ s.exchange \in Nat /\ (s.network = 0 <=> t = 0)
  BY SharesType
<1>3. /\ SummaryAt(h).epoch = CurrentEpoch(h) /\ SummaryAt(h).validators = s.network
      /\ SummaryAt(h).foundation = s.foundation /\ SummaryAt(h).exchange = s.exchange
  BY <1>1, <1>2 DEF SummaryAt
<1>4. CurrentEpoch(h) \in Nat
  BY RewardsAssumption DEF CurrentEpoch, EpochOf
<1>5. QED
  BY <1>1, <1>2, <1>3, <1>4

\* Quotients grow with what is divided.
LEMMA QuotientGrows ==
    ASSUME NEW a \in Nat, NEW b \in Nat, a <= b, NEW T \in Nat \ {0}
    PROVE  a \div T <= b \div T
<1>1. PICK x \in Nat, y \in Nat : /\ x = a \div T /\ y = b \div T
                                  /\ T * x <= a /\ b < T * y + T
  BY DivBounds
<1>2. T * (y + 1) = T * y + T /\ T * x \in Nat /\ T * y \in Nat
  BY <1>1
<1>3. T * x < T * (y + 1)
  BY <1>1, <1>2
<1>4. x < y + 1
  BY <1>1, <1>3, Cancel
<1>5. QED
  BY <1>1, <1>4

\* When an epoch has nothing to share at one block it has nothing at a later one.
LEMMA DryStays ==
    ASSUME Decays, NEW h \in Nat, NEW k \in Nat, h <= k, CurrentEpoch(h) = CurrentEpoch(k),
           SummaryAt(h).validators = 0
    PROVE  SummaryAt(k).validators = 0
<1>1. Minted(h) = 0
  BY SummaryFields
<1>2. EmissionAt(k) = EmissionAt(h)
  BY DEF EmissionAt, CurrentEpoch
<1>3. EmissionAt(h) = 0 /\ BlockMintAt(h) = 0
  BY <1>1, MintedType DEF Minted
<1>4. BlockMintAt(k) <= BlockMintAt(h)
  <2>1. PICK l \in Nat : l = Len(EpochMint) /\ l > 0
    BY EmissionAssumption
  <2>2. PICK x \in Nat, y \in Nat : x = h \div EmissionInterval /\ y = k \div EmissionInterval /\ x <= y
    <3>1. h \div EmissionInterval \in Nat /\ k \div EmissionInterval \in Nat
      BY EmissionAssumption
    <3>2. h \div EmissionInterval <= k \div EmissionInterval
      BY EmissionAssumption, QuotientGrows
    <3>3. QED
      BY <3>1, <3>2
  <2>3. PICK i \in 1 .. l, j \in 1 .. l : /\ i = IF x + 1 <= l THEN x + 1 ELSE l
                                          /\ j = IF y + 1 <= l THEN y + 1 ELSE l
                                          /\ i <= j
    <3>1. /\ (IF x + 1 <= l THEN x + 1 ELSE l) \in 1 .. l
          /\ (IF y + 1 <= l THEN y + 1 ELSE l) \in 1 .. l
          /\ (IF x + 1 <= l THEN x + 1 ELSE l) <= (IF y + 1 <= l THEN y + 1 ELSE l)
      BY <2>1, <2>2
    <3>2. QED
      BY <3>1
  <2>4. BlockMintAt(h) = EpochMint[i] /\ BlockMintAt(k) = EpochMint[j]
    BY <2>1, <2>2, <2>3 DEF BlockMintAt
  <2>5. QED
    BY <2>1, <2>3, <2>4 DEF Decays
<1>5. Minted(k) = 0
  BY <1>2, <1>3, <1>4, MintedType DEF Minted
<1>6. QED
  BY <1>5, SummaryFields
-------------------------------------------------------------------------------
\* What is computed and no longer to be stored is stored.
Stored(C, pay, e, P) ==
    /\ DOMAIN pay \subseteq DOMAIN C
    /\ \A i \in DOMAIN pay : pay[i] = C[i]
    /\ \A i \in DOMAIN C \ DOMAIN pay :
         PayoutKey(e, C[i].addr) \in DOMAIN P /\ P[PayoutKey(e, C[i].addr)] = C[i].amount

Listed(list) == {list[i] : i \in DOMAIN list}

\* Where Apply is, at height h.
Applying(a, h) ==
    /\ a = [phase |-> a.phase, list |-> a.list, height |-> h, summary |-> SummaryAt(h),
            pay |-> a.pay, reset |-> a.reset]
    /\ a.phase \in {"summary", "payouts"}
    /\ IsListing(a.list)
    /\ a.reset \in Seq(Listed(a.list))

ApplyInv ==
    apply.phase # "idle" =>
        LET s == SummaryAt(block)
        IN  /\ Applying(apply, block)
            /\ Stored(Compute(s.validators, apply.list), apply.pay, s.epoch, payouts)
            /\ apply.phase = "payouts" => s.epoch \in DOMAIN summaries /\ summaries[s.epoch] = s

\* Each record stands under its address; each summary is that of a block of its epoch.
ScoresInv ==
    /\ DOMAIN scores = Member
    /\ \A v \in Member : IsRecord(scores[v]) /\ scores[v].addr = v

SummariesInv ==
    /\ IsFiniteSet(DOMAIN summaries)
    /\ \A e \in DOMAIN summaries :
         \E h \in 0 .. block : summaries[e] = SummaryAt(h) /\ CurrentEpoch(h) = e

TreasuryInv ==
    /\ treasury = [foundation |-> treasury.foundation, exchange |-> treasury.exchange]
    /\ treasury.foundation \in Nat /\ treasury.exchange \in Nat
    /\ TreasuryCovers

RewardInv == block \in Nat /\ ScoresInv /\ SummariesInv /\ TreasuryInv /\ ApplyInv

\* What is stored stays when one more payout is.
LEMMA StoreOne ==
    ASSUME NEW C, NEW pay, NEW e, NEW P, Stored(C, pay, e, P), NEW i \in DOMAIN pay,
           \A k, j \in DOMAIN C : C[k].addr = C[j].addr => k = j
    PROVE  Stored(C, Restrict(pay, DOMAIN pay \ {i}), e,
                  SetKey(P, PayoutKey(e, pay[i].addr), pay[i].amount))
<1> DEFINE rest == Restrict(pay, DOMAIN pay \ {i})
           key == PayoutKey(e, pay[i].addr)
           Q == SetKey(P, key, pay[i].amount)
<1>1. DOMAIN rest = DOMAIN pay \ {i} /\ \A j \in DOMAIN rest : rest[j] = pay[j]
  BY DEF Restrict
<1>2. /\ DOMAIN Q = DOMAIN P \cup {key} /\ Q[key] = pay[i].amount
      /\ \A k \in DOMAIN P : k # key => Q[k] = P[k]
  BY DEF SetKey
<1>3. pay[i] = C[i] /\ i \in DOMAIN C /\ DOMAIN pay \subseteq DOMAIN C
  BY DEF Stored
<1>4. ASSUME NEW j \in DOMAIN C \ DOMAIN rest
      PROVE  PayoutKey(e, C[j].addr) \in DOMAIN Q /\ Q[PayoutKey(e, C[j].addr)] = C[j].amount
  <2>1. CASE j = i
    BY <1>2, <1>3, <2>1
  <2>2. CASE j # i
    <3>1. j \in DOMAIN C \ DOMAIN pay
      BY <1>1, <2>2
    <3>2. PayoutKey(e, C[j].addr) \in DOMAIN P /\ P[PayoutKey(e, C[j].addr)] = C[j].amount
      BY <3>1 DEF Stored
    <3>3. PayoutKey(e, C[j].addr) # key
      BY <1>3, <2>2 DEF PayoutKey
    <3> HIDE DEF key, Q
    <3>4. QED
      BY <1>2, <3>2, <3>3
  <2>3. QED
    BY <2>1, <2>2
<1>5. \A j \in DOMAIN rest : rest[j] = C[j]
  BY <1>1 DEF Stored
<1>6. QED
  BY <1>1, <1>3, <1>4, <1>5 DEF Stored

\* The first position left is one of those left.
LEMMA FirstLeft ==
    ASSUME NEW n \in Nat, NEW D \in SUBSET (1 .. n), D # {}
    PROVE  Min(D) \in D
<1>1. D \subseteq Nat
  OBVIOUS
<1>2. \E x \in D : \A y \in D : x <= y
  BY <1>1, NatMin
<1>3. QED
  BY <1>2 DEF Min

\* The order of the map's records is one of those ListValidatorScores can return.
LEMMA ListingsList ==
    ASSUME ScoresInv, NEW list \in Listings
    PROVE  /\ IsListing(list) /\ list \in Seq(Listed(list))
           /\ \A i \in DOMAIN list : \E v \in Member : list[i] = scores[v]
<1>1. PICK n \in Nat : n = Cardinality(Member)
  BY RewardsAssumption, FS_CardinalityType
<1>2. PICK s \in SetToSeqs(Member) : list = [i \in 1 .. n |-> scores[s[i]]]
  BY <1>1 DEF Listings
<1>3. s \in [1 .. n -> Member] /\ \A i, j \in 1 .. n : i # j => s[i] # s[j]
  BY <1>1 DEF SetToSeqs
<1>4. DOMAIN list = 1 .. n /\ \A i \in 1 .. n : s[i] \in Member /\ list[i] = scores[s[i]]
  BY <1>2, <1>3
<1>5. \A i \in 1 .. n : IsRecord(list[i]) /\ list[i].addr = s[i]
  BY <1>4 DEF ScoresInv
<1>6. IsListing(list)
  BY <1>1, <1>3, <1>4, <1>5 DEF IsListing
<1>7. list \in [1 .. n -> Listed(list)]
  BY <1>2, <1>4 DEF Listed
<1>8. list \in Seq(Listed(list))
  <2>1. PICK T : T = Listed(list)
    OBVIOUS
  <2>2. list \in [1 .. n -> T]
    BY <1>7, <2>1
  <2>3. list \in Seq(T)
    BY <2>2
  <2>4. QED
    BY <2>1, <2>3
<1>9. QED
  BY <1>4, <1>6, <1>8

\* The addresses of the payouts are those of the list, each once.
LEMMA PayoutsDiffer ==
    ASSUME NEW s, NEW list, IsListing(list)
    PROVE  LET C == Compute(s, list)
           IN  /\ DOMAIN C \in SUBSET (1 .. Cardinality(Member)) /\ Cardinality(Member) \in Nat
               /\ \A k, j \in DOMAIN C : C[k].addr = C[j].addr => k = j
<1>1. PICK C : C = Compute(s, list)
  OBVIOUS
<1>2. DOMAIN C \subseteq DOMAIN list /\ \A i \in DOMAIN C : C[i].addr = list[i].addr
  BY <1>1, ComputePays
<1>3. Cardinality(Member) \in Nat
  BY RewardsAssumption, FS_CardinalityType
<1>4. QED
  BY <1>1, <1>2, <1>3 DEF IsListing

\* When nothing is left to store, the payouts of the epoch are those of Compute.
LEMMA StoredAddUp ==
    ASSUME RewardInv
    PROVE  PayoutsAddUp
<1> SUFFICES ASSUME apply.phase = "payouts", DOMAIN apply.pay = {}, Heavy # {},
                    WeightSum(apply.list) < RewardWord, apply.summary.validators > 0
             PROVE  LET share == apply.summary.validators
                        total == TotalWeight(apply.list)
                        sum == SumOf([v \in Heavy |-> Paid(v)])
                    IN  /\ sum <= share
                        /\ NoWrap => /\ sum = share
                                     /\ \A i \in DOMAIN apply.list :
                                          LET rec == apply.list[i]
                                          IN  rec.addr \in Heavy =>
                                                /\ Paid(rec.addr) * total <= share * WeightOf(rec) + total
                                                /\ Paid(rec.addr) * total + total > share * WeightOf(rec)
  BY DEF PayoutsAddUp
<1>1. PICK a : a = apply
  OBVIOUS
<1>2. PICK h \in Nat : h = block
  BY DEF RewardInv
<1>3. Applying(a, h) /\ Stored(Compute(SummaryAt(h).validators, a.list), a.pay, SummaryAt(h).epoch, payouts)
  BY <1>1, <1>2 DEF RewardInv, ApplyInv
<1>4. a.summary = SummaryAt(h) /\ IsListing(a.list)
  BY <1>3 DEF Applying
<1>5. PICK list, s, e, P : list = a.list /\ s = SummaryAt(h).validators /\ e = SummaryAt(h).epoch /\ P = payouts
  OBVIOUS
<1>6. s \in Nat /\ s > 0
  BY <1>1, <1>2, <1>4, <1>5, SummaryFields
<1> DEFINE H == HeavyAt(list)
           C == Compute(s, list)
           W == TotalWeight(list)
           q == [i \in H |-> C[i].amount]
           p == [i \in H |-> list[i].addr]
           g == [v \in Heavy |-> Paid(v)]
           NoneWraps == \A i \in DOMAIN list : s * WeightOf(list[i]) < RewardWord
<1>7. Heavy = {p[i] : i \in H} /\ H # {} /\ WeightSum(list) < RewardWord
  BY <1>1, <1>5 DEF Heavy
<1>8. /\ PaidAt(s, list) = H /\ DOMAIN C = H
      /\ \A i \in H : q[i] \in Nat
      /\ Sum(q, H) \in Nat /\ Sum(q, H) <= s
      /\ NoneWraps => Sum(q, H) = s
      /\ NoneWraps => \A i \in H : /\ q[i] * W <= s * WeightOf(list[i]) + W
                                   /\ q[i] * W + W > s * WeightOf(list[i])
  <2>1. IsListing(list) /\ HeavyAt(list) # {} /\ WeightSum(list) < RewardWord
    BY <1>4, <1>5, <1>7
  <2>2. AddsUp(s, list)
    BY <1>6, <2>1, ComputeAddsUp
  <2>3. QED
    BY <2>2 DEF AddsUp
<1>9. \A i \in H : P[PayoutKey(e, list[i].addr)] = C[i].amount
  <2>1. \A i \in H : C[i].addr = list[i].addr
    BY <1>4, <1>5, <1>8, ComputePays
  <2>2. DOMAIN a.pay = {} /\ Stored(C, a.pay, e, P)
    BY <1>1, <1>3, <1>5
  <2>3. QED
    BY <1>8, <2>1, <2>2 DEF Stored
<1>10. \A v : Paid(v) = P[PayoutKey(e, v)]
  BY <1>1, <1>4, <1>5 DEF Paid
<1>11. \A i \in H : Paid(list[i].addr) = q[i] /\ g[p[i]] = q[i]
  <2>1. \A i \in H : Paid(list[i].addr) = q[i]
    BY <1>9, <1>10
  <2>2. \A i \in H : p[i] \in Heavy /\ p[i] = list[i].addr
    BY <1>7
  <2>3. QED
    BY <2>1, <2>2
<1>12. IsFiniteSet(H) /\ H \subseteq DOMAIN list
  BY <1>4, <1>5, ListingWeights DEF HeavyAt
<1>13. \A x, y \in H : p[x] = p[y] => x = y
  BY <1>4, <1>5, <1>12 DEF IsListing
<1>14. DOMAIN g = Heavy
  OBVIOUS
<1>15. (NoWrap <=> NoneWraps) /\ apply.summary.validators = s /\ TotalWeight(apply.list) = W
  BY <1>1, <1>4, <1>5 DEF NoWrap
<1>16. SumOf(g) = Sum(q, H)
  <2>1. SumOf(g) = Sum(g, Heavy)
    BY <1>14, SumOfIs
  <2>2. \A i \in H : q[i] \in Int /\ g[p[i]] = q[i]
    BY <1>8, <1>11
  <2> HIDE DEF g, p, q, H, C, W
  <2>3. Sum(g, {p[i] : i \in H}) = Sum(q, H)
    BY <1>12, <1>13, <2>2, SumImage
  <2>4. QED
    BY <1>7, <2>1, <2>3
<1>17. ASSUME NoWrap, NEW i \in DOMAIN list, list[i].addr \in Heavy
       PROVE  /\ Paid(list[i].addr) * W <= s * WeightOf(list[i]) + W
              /\ Paid(list[i].addr) * W + W > s * WeightOf(list[i])
  <2>1. PICK j \in H : list[i].addr = list[j].addr
    BY <1>7, <1>17
  <2>2. i = j
    BY <1>4, <1>5, <1>12, <2>1 DEF IsListing
  <2>3. QED
    BY <1>8, <1>11, <1>15, <1>17, <2>2
<1> HIDE DEF q, p, g, H, C, W
<1>18. QED
  BY <1>1, <1>5, <1>8, <1>15, <1>16, <1>17 DEF g

\* Storing one value adds no more than that value to a sum.
LEMMA SumStored ==
    ASSUME NEW D, IsFiniteSet(D), NEW f, DOMAIN f = D, \A x \in D : f[x] \in Nat, NEW e,
           NEW g, DOMAIN g = D \cup {e}, g[e] \in Nat, \A x \in D : x # e => g[x] = f[x]
    PROVE  SumOf(g) <= SumOf(f) + g[e]
<1>1. SumOf(g) = Sum(g, D \cup {e}) /\ SumOf(f) = Sum(f, D)
  BY SumOfIs
<1>2. Sum(f, D) \in Nat
  BY SumType
<1>3. CASE e \in D
  <2>1. D \cup {e} = D
    BY <1>3
  <2>2. Sum(g, D) = Sum(f, D) + g[e] - f[e]
    <3>1. \A x \in D : f[x] \in Int /\ g[x] \in Int
      OBVIOUS
    <3>2. \A x \in D \ {e} : g[x] = f[x]
      OBVIOUS
    <3>3. QED
      BY <1>3, <3>1, <3>2, SumUpdate
  <2>3. f[e] \in Nat
    BY <1>3
  <2>4. SumOf(g) = Sum(f, D) + g[e] - f[e]
    BY <1>1, <2>1, <2>2, Zenon
  <2>5. PICK m \in Nat, k \in Nat, o \in Nat : m = Sum(f, D) /\ k = g[e] /\ o = f[e]
    BY <1>2, <2>3
  <2>6. QED
    BY <1>1, <2>4, <2>5
<1>4. CASE e \notin D
  <2>1. \A x \in D \cup {e} : g[x] \in Int
    OBVIOUS
  <2>2. Sum(g, D \cup {e}) = g[e] + Sum(g, D)
    BY <1>4, <2>1, SumAdd
  <2>3. Sum(g, D) = Sum(f, D)
    <3>1. \A x \in D : g[x] = f[x]
      BY <1>4
    <3>2. QED
      BY <3>1, SumEqual
  <2>4. QED
    BY <1>1, <1>2, <2>2, <2>3
<1>5. QED
  BY <1>3, <1>4

\* PersistEpochSummary credits the treasury with what the summary says.
LEMMA TreasuryStep ==
    ASSUME RewardInv, PersistEpochSummary
    PROVE  SummariesInv' /\ TreasuryInv'
<1>1. PICK h \in Nat : h = block
  BY DEF RewardInv
<1>2. PICK s : s = SummaryAt(h)
  OBVIOUS
<1>3. apply.summary = s
  BY <1>1, <1>2 DEF PersistEpochSummary, RewardInv, ApplyInv, Applying
<1>4. s.epoch = CurrentEpoch(h) /\ s.foundation \in Nat /\ s.exchange \in Nat
  BY <1>2, SummaryFields
<1>5. PICK S : S = summaries
  OBVIOUS
<1>6. PICK S2 : S2 = summaries'
  OBVIOUS
<1>7. /\ S2 = SetKey(S, s.epoch, s)
      /\ treasury' = [foundation |-> treasury.foundation + s.foundation,
                      exchange |-> treasury.exchange + s.exchange]
      /\ block' = block
  BY <1>3, <1>5, <1>6 DEF PersistEpochSummary
<1>8. /\ DOMAIN S2 = DOMAIN S \cup {s.epoch} /\ S2[s.epoch] = s
      /\ \A e \in DOMAIN S : e # s.epoch => S2[e] = S[e]
  BY <1>7 DEF SetKey
<1>9. /\ IsFiniteSet(DOMAIN S)
      /\ \A e \in DOMAIN S : \E k \in 0 .. h : S[e] = SummaryAt(k) /\ CurrentEpoch(k) = e
  BY <1>1, <1>5 DEF RewardInv, SummariesInv
<1>10. SummariesInv'
  <2>1. IsFiniteSet(DOMAIN S2)
    BY <1>8, <1>9, FS_AddElement
  <2>2. \A e \in DOMAIN S2 : \E k \in 0 .. h : S2[e] = SummaryAt(k) /\ CurrentEpoch(k) = e
    <3> TAKE e \in DOMAIN S2
    <3>1. CASE e = s.epoch
      <4>1. h \in 0 .. h
        OBVIOUS
      <4>2. QED
        BY <1>2, <1>4, <1>8, <3>1, <4>1
    <3>2. CASE e # s.epoch
      BY <1>8, <1>9, <3>2
    <3>3. QED
      BY <3>1, <3>2
  <2>3. QED
    BY <1>1, <1>6, <1>7, <2>1, <2>2 DEF SummariesInv
<1>11. \A e \in DOMAIN S : S[e].foundation \in Nat /\ S[e].exchange \in Nat
  <2> TAKE e \in DOMAIN S
  <2>1. PICK k \in 0 .. h : S[e] = SummaryAt(k)
    BY <1>9
  <2>2. k \in Nat
    OBVIOUS
  <2>3. QED
    BY <2>1, <2>2, SummaryFields
<1>12. PICK tf \in Nat, tx \in Nat : tf = treasury.foundation /\ tx = treasury.exchange
  BY DEF RewardInv, TreasuryInv
<1> DEFINE f == [e \in DOMAIN S |-> S[e].foundation]
           x == [e \in DOMAIN S |-> S[e].exchange]
           f2 == [e \in DOMAIN S2 |-> S2[e].foundation]
           x2 == [e \in DOMAIN S2 |-> S2[e].exchange]
<1>13. SumOf(f) <= tf /\ SumOf(x) <= tx
  BY <1>5, <1>12 DEF RewardInv, TreasuryInv, TreasuryCovers
<1>14. SumOf(f2) <= SumOf(f) + s.foundation
  <2>1. /\ DOMAIN f = DOMAIN S /\ \A e \in DOMAIN S : f[e] \in Nat
        /\ DOMAIN f2 = DOMAIN S \cup {s.epoch} /\ f2[s.epoch] = s.foundation
        /\ \A e \in DOMAIN S : e # s.epoch => f2[e] = f[e]
    BY <1>8, <1>11
  <2>2. f2[s.epoch] \in Nat
    BY <1>4, <2>1
  <2>3. PICK D : D = DOMAIN S
    OBVIOUS
  <2> HIDE DEF f, f2
  <2>4. SumOf(f2) <= SumOf(f) + f2[s.epoch]
    BY <1>9, <2>1, <2>2, <2>3, SumStored
  <2>5. QED
    BY <2>1, <2>4
<1>15. SumOf(x2) <= SumOf(x) + s.exchange
  <2>1. /\ DOMAIN x = DOMAIN S /\ \A e \in DOMAIN S : x[e] \in Nat
        /\ DOMAIN x2 = DOMAIN S \cup {s.epoch} /\ x2[s.epoch] = s.exchange
        /\ \A e \in DOMAIN S : e # s.epoch => x2[e] = x[e]
    BY <1>8, <1>11
  <2>2. x2[s.epoch] \in Nat
    BY <1>4, <2>1
  <2> HIDE DEF x, x2
  <2>3. SumOf(x2) <= SumOf(x) + x2[s.epoch]
    BY <1>9, <2>1, <2>2, SumStored
  <2>4. QED
    BY <2>1, <2>3
<1>16. SumOf(f) \in Nat /\ SumOf(x) \in Nat /\ SumOf(f2) \in Int /\ SumOf(x2) \in Int
  <2>1. DOMAIN f = DOMAIN S /\ DOMAIN x = DOMAIN S /\ DOMAIN f2 = DOMAIN S2 /\ DOMAIN x2 = DOMAIN S2
    OBVIOUS
  <2>2. \A e \in DOMAIN S : f[e] \in Nat /\ x[e] \in Nat
    BY <1>11
  <2>3. \A e \in DOMAIN S2 : f2[e] \in Int /\ x2[e] \in Int
    BY <1>4, <1>8, <1>11
  <2>4. IsFiniteSet(DOMAIN S2)
    BY <1>8, <1>9, FS_AddElement
  <2> HIDE DEF f, x, f2, x2
  <2>5. Sum(f, DOMAIN S) \in Nat /\ Sum(x, DOMAIN S) \in Nat
    BY <1>9, <2>2, SumType
  <2>6. Sum(f2, DOMAIN S2) \in Int /\ Sum(x2, DOMAIN S2) \in Int
    BY <2>3, <2>4, SumType
  <2>7. QED
    BY <2>1, <2>5, <2>6, SumOfIs
<1>17. treasury'.foundation = tf + s.foundation /\ treasury'.exchange = tx + s.exchange
  BY <1>7, <1>12
<1>18. TreasuryCovers'
  <2>1. SumOf(f2) <= treasury'.foundation /\ SumOf(x2) <= treasury'.exchange
    <3> HIDE DEF f, x, f2, x2
    <3>1. QED
      BY <1>4, <1>12, <1>13, <1>14, <1>15, <1>16, <1>17
  <2>2. /\ f2 = [e \in DOMAIN summaries |-> summaries[e].foundation]'
        /\ x2 = [e \in DOMAIN summaries |-> summaries[e].exchange]'
    BY <1>6
  <2>3. /\ treasury.foundation' \in Int /\ treasury.exchange' \in Int
    BY <1>4, <1>12, <1>17
  <2>4. QED
    BY <1>16, <2>1, <2>2, <2>3 DEF TreasuryCovers
<1>19. QED
  BY <1>4, <1>7, <1>10, <1>12, <1>17, <1>18 DEF TreasuryInv
-------------------------------------------------------------------------------
\* The invariant holds at the start.
LEMMA RewardStart ==
    ASSUME RewardInit
    PROVE  RewardInv
<1>1. ScoresInv
  <2>1. scores \in [Member -> Score] /\ \A v \in Member : scores[v].addr = v
    BY RewardsAssumption DEF RewardInit
  <2>2. QED
    BY <2>1, ScoreIsRecord DEF ScoresInv
<1>2. block \in Nat
  BY RewardsAssumption DEF RewardInit
<1>3. SummariesInv
  BY FS_EmptySet DEF RewardInit, SummariesInv
<1>4. TreasuryInv
  <2>1. ASSUME NEW f, DOMAIN f = {} PROVE SumOf(f) = 0
    BY <2>1, SumOfIs, SumEmpty
  <2>2. /\ SumOf([e \in DOMAIN summaries |-> summaries[e].foundation]) = 0
        /\ SumOf([e \in DOMAIN summaries |-> summaries[e].exchange]) = 0
    BY <2>1 DEF RewardInit
  <2>3. QED
    BY <2>2 DEF RewardInit, TreasuryInv, TreasuryCovers
<1>5. ApplyInv
  BY DEF RewardInit, Idle, ApplyInv
<1>6. QED
  BY <1>1, <1>2, <1>3, <1>4, <1>5 DEF RewardInv

\* Writing a field of Apply's position.
LEMMA ApplyingWrites ==
    ASSUME NEW a, NEW h, Applying(a, h)
    PROVE  /\ [a EXCEPT !.phase = "payouts"] =
                [phase |-> "payouts", list |-> a.list, height |-> h, summary |-> SummaryAt(h),
                 pay |-> a.pay, reset |-> a.reset]
           /\ \A p : [a EXCEPT !.pay = p] =
                [phase |-> a.phase, list |-> a.list, height |-> h, summary |-> SummaryAt(h),
                 pay |-> p, reset |-> a.reset]
           /\ \A r : [a EXCEPT !.reset = r] =
                [phase |-> a.phase, list |-> a.list, height |-> h, summary |-> SummaryAt(h),
                 pay |-> a.pay, reset |-> r]
<1>1. PICK s : s = SummaryAt(h)
  OBVIOUS
<1>2. a = [phase |-> a.phase, list |-> a.list, height |-> h, summary |-> s,
           pay |-> a.pay, reset |-> a.reset]
  BY <1>1 DEF Applying
<1>3. [a EXCEPT !.phase = "payouts"] =
        [phase |-> "payouts", list |-> a.list, height |-> h, summary |-> s,
         pay |-> a.pay, reset |-> a.reset]
  BY <1>2
<1>4. ASSUME NEW p
      PROVE  [a EXCEPT !.pay = p] =
               [phase |-> a.phase, list |-> a.list, height |-> h, summary |-> s,
                pay |-> p, reset |-> a.reset]
  BY <1>2
<1>5. ASSUME NEW r
      PROVE  [a EXCEPT !.reset = r] =
               [phase |-> a.phase, list |-> a.list, height |-> h, summary |-> s,
                pay |-> a.pay, reset |-> r]
  BY <1>2
<1>6. QED
  BY <1>1, <1>3, <1>4, <1>5, Zenon

\* Everything computed is still to be stored when Apply begins.
LEMMA BeginStep ==
    ASSUME RewardInv, Begin
    PROVE  ApplyInv'
<1>1. PICK list \in Listings :
        apply' = [phase |-> "summary", list |-> list, height |-> block,
                  summary |-> SummaryAt(block),
                  pay |-> Compute(SummaryAt(block).validators, list), reset |-> list]
  BY DEF Begin
<1>2. IsListing(list) /\ list \in Seq(Listed(list))
  BY <1>1, ListingsList DEF RewardInv
<1>3. PICK s, C, h : s = SummaryAt(block) /\ C = Compute(s.validators, list) /\ h = block
  OBVIOUS
<1>4. PICK a : a = apply'
  OBVIOUS
<1>5. a = [phase |-> "summary", list |-> list, height |-> h, summary |-> s, pay |-> C, reset |-> list]
  BY <1>1, <1>3, <1>4
<1>6. /\ a.phase = "summary" /\ a.list = list /\ a.height = h /\ a.summary = s
      /\ a.pay = C /\ a.reset = list
  BY <1>5
<1>7. Stored(C, C, s.epoch, payouts)
  BY DEF Stored
<1>8. Applying(a, h)
  BY <1>2, <1>3, <1>5, <1>6 DEF Applying
<1>9. block' = h /\ payouts' = payouts
  BY <1>3 DEF Begin
<1>10. SummaryAt(h) = s
  BY <1>3
<1>11. QED
  BY <1>3, <1>4, <1>6, <1>7, <1>8, <1>9, <1>10 DEF ApplyInv

\* PersistEpochSummary stores the summary of the block.
LEMMA SummaryStep ==
    ASSUME RewardInv, PersistEpochSummary
    PROVE  ApplyInv'
<1>1. PICK a, h : a = apply /\ h = block
  OBVIOUS
<1>2. PICK s, C : s = SummaryAt(h) /\ C = Compute(s.validators, a.list)
  OBVIOUS
<1>3. Applying(a, h) /\ Stored(C, a.pay, s.epoch, payouts)
  BY <1>1, <1>2 DEF RewardInv, ApplyInv, PersistEpochSummary
<1>4. PICK b : b = apply'
  OBVIOUS
<1>5. b = [phase |-> "payouts", list |-> a.list, height |-> h, summary |-> s,
           pay |-> a.pay, reset |-> a.reset]
  BY <1>1, <1>2, <1>3, <1>4, ApplyingWrites DEF PersistEpochSummary
<1>6. /\ b.phase = "payouts" /\ b.list = a.list /\ b.pay = a.pay /\ b.reset = a.reset
  BY <1>5
<1>7. Applying(b, h)
  BY <1>2, <1>3, <1>5, <1>6 DEF Applying
<1>8. a.summary = s
  BY <1>2, <1>3 DEF Applying
<1>9. /\ block' = h /\ payouts' = payouts /\ summaries' = SetKey(summaries, s.epoch, s)
  BY <1>1, <1>8 DEF PersistEpochSummary
<1>10. s.epoch \in DOMAIN summaries' /\ summaries'[s.epoch] = s
  BY <1>9 DEF SetKey
<1>11. QED
  BY <1>2, <1>3, <1>4, <1>6, <1>7, <1>9, <1>10 DEF ApplyInv

\* PersistValidatorPayout stores the first payout left.
LEMMA PayoutStep ==
    ASSUME RewardInv, PersistValidatorPayout
    PROVE  ApplyInv'
<1>1. PICK a, h, P : a = apply /\ h = block /\ P = payouts
  OBVIOUS
<1>2. PICK s, C : s = SummaryAt(h) /\ C = Compute(s.validators, a.list)
  OBVIOUS
<1>3. /\ Applying(a, h) /\ Stored(C, a.pay, s.epoch, P) /\ a.phase = "payouts"
      /\ s.epoch \in DOMAIN summaries /\ summaries[s.epoch] = s
  BY <1>1, <1>2 DEF RewardInv, ApplyInv, PersistValidatorPayout
<1>4. PICK pay, i : pay = a.pay /\ i = Min(DOMAIN pay)
  OBVIOUS
<1>5. a.summary = s /\ IsListing(a.list)
  BY <1>2, <1>3 DEF Applying
<1>6. /\ DOMAIN C \in SUBSET (1 .. Cardinality(Member)) /\ Cardinality(Member) \in Nat
      /\ \A k, j \in DOMAIN C : C[k].addr = C[j].addr => k = j
  BY <1>2, <1>5, PayoutsDiffer
<1>7. i \in DOMAIN pay
  <2>1. DOMAIN pay # {}
    BY <1>1, <1>4 DEF PersistValidatorPayout
  <2>2. DOMAIN pay \in SUBSET (1 .. Cardinality(Member))
    BY <1>3, <1>4, <1>6 DEF Stored
  <2>3. QED
    BY <1>4, <1>6, <2>1, <2>2, FirstLeft
<1>8. PICK rest : rest = Restrict(pay, DOMAIN pay \ {i})
  OBVIOUS
<1>9. PICK Q : Q = SetKey(P, PayoutKey(s.epoch, pay[i].addr), pay[i].amount)
  OBVIOUS
<1>10. Stored(C, rest, s.epoch, Q)
  BY <1>3, <1>4, <1>6, <1>7, <1>8, <1>9, StoreOne
<1>11. /\ apply' = [a EXCEPT !.pay = rest] /\ payouts' = Q
       /\ block' = h /\ summaries' = summaries
  BY <1>1, <1>4, <1>5, <1>8, <1>9 DEF PersistValidatorPayout
<1>12. PICK b : b = apply'
  OBVIOUS
<1>13. b = [phase |-> "payouts", list |-> a.list, height |-> h, summary |-> s,
            pay |-> rest, reset |-> a.reset]
  BY <1>2, <1>3, <1>11, <1>12, ApplyingWrites
<1>14. /\ b.phase = "payouts" /\ b.list = a.list /\ b.pay = rest /\ b.reset = a.reset
  BY <1>13
<1>15. Applying(b, h)
  BY <1>2, <1>3, <1>13, <1>14 DEF Applying
<1>16. QED
  BY <1>2, <1>3, <1>10, <1>11, <1>12, <1>14, <1>15 DEF ApplyInv

\* PutValidatorScore stores the first record left, reset.
LEMMA ScoreStep ==
    ASSUME RewardInv, PutValidatorScore
    PROVE  ApplyInv' /\ ScoresInv'
<1>1. PICK a, h : a = apply /\ h = block
  OBVIOUS
<1>2. PICK s, C : s = SummaryAt(h) /\ C = Compute(s.validators, a.list)
  OBVIOUS
<1>3. /\ Applying(a, h) /\ Stored(C, a.pay, s.epoch, payouts) /\ a.phase = "payouts"
      /\ s.epoch \in DOMAIN summaries /\ summaries[s.epoch] = s
  BY <1>1, <1>2 DEF RewardInv, ApplyInv, PutValidatorScore
<1>4. PICK T, reset : T = Listed(a.list) /\ reset = a.reset
  OBVIOUS
<1>5. reset \in Seq(T) /\ reset # <<>>
  BY <1>1, <1>3, <1>4 DEF Applying, PutValidatorScore
<1>6. Head(reset) \in T /\ Tail(reset) \in Seq(T)
  BY <1>5
<1>7. PICK r : r = Head(reset)
  OBVIOUS
<1>8. IsRecord(r) /\ a.summary = s /\ a.height = h
  BY <1>2, <1>3, <1>4, <1>6, <1>7 DEF Applying, IsListing, Listed
<1>9. s.epoch \in Nat
  BY <1>1, <1>2, SummaryFields DEF RewardInv
<1>10. PICK z : z = ResetForEpoch(r, s.epoch, h)
  OBVIOUS
<1>11. IsRecord(z) /\ z.addr = r.addr
  BY <1>8, <1>9, <1>10, ResetRecord
<1>12. /\ scores' = SetKey(scores, r.addr, z) /\ apply' = [a EXCEPT !.reset = Tail(reset)]
       /\ block' = h /\ summaries' = summaries /\ payouts' = payouts
  BY <1>1, <1>4, <1>7, <1>8, <1>10 DEF PutValidatorScore
<1>13. ScoresInv'
  <2>1. r.addr \in Member
    BY <1>8 DEF IsRecord
  <2>2. DOMAIN scores = Member /\ \A v \in Member : IsRecord(scores[v]) /\ scores[v].addr = v
    BY DEF RewardInv, ScoresInv
  <2>3. DOMAIN scores' = Member /\ scores'[r.addr] = z /\ \A v \in Member : v # r.addr => scores'[v] = scores[v]
    BY <1>12, <2>1, <2>2 DEF SetKey
  <2>4. QED
    BY <1>11, <2>2, <2>3 DEF ScoresInv
<1>14. PICK b : b = apply'
  OBVIOUS
<1>15. b = [phase |-> "payouts", list |-> a.list, height |-> h, summary |-> s,
            pay |-> a.pay, reset |-> Tail(reset)]
  BY <1>2, <1>3, <1>12, <1>14, ApplyingWrites
<1>16. /\ b.phase = "payouts" /\ b.list = a.list /\ b.pay = a.pay /\ b.reset = Tail(reset)
  BY <1>15
<1>17. Applying(b, h)
  BY <1>2, <1>3, <1>4, <1>6, <1>15, <1>16 DEF Applying
<1>18. ApplyInv'
  BY <1>2, <1>3, <1>12, <1>14, <1>16, <1>17 DEF ApplyInv
<1>19. QED
  BY <1>13, <1>18

\* Participate writes two fields of one record.
LEMMA ParticipateWrites ==
    ASSUME NEW v \in Member, Participate(v)
    PROVE  scores' = [scores EXCEPT ![v] =
                        [scores[v] EXCEPT !.participation = @ + 1, !.updated = block]]
<1>1. scores' = [scores EXCEPT ![v].participation = @ + 1, ![v].updated = block]
  BY DEF Participate
<1>2. QED
  BY <1>1

\* The invariant is kept by every step.
LEMMA RewardStep ==
    ASSUME RewardInv, [RewardNext]_rewardVars
    PROVE  RewardInv'
<1> USE DEF RewardInv
<1>1. CASE Begin
  <2>1. ApplyInv'
    BY <1>1, BeginStep
  <2>2. block' = block /\ scores' = scores /\ summaries' = summaries /\ treasury' = treasury
    BY <1>1 DEF Begin
  <2>3. ScoresInv' /\ SummariesInv' /\ TreasuryInv'
    BY <2>2 DEF ScoresInv, SummariesInv, TreasuryInv, TreasuryCovers
  <2>4. QED
    BY <2>1, <2>2, <2>3
<1>2. CASE PersistEpochSummary
  <2>1. ApplyInv' /\ SummariesInv' /\ TreasuryInv'
    BY <1>2, SummaryStep, TreasuryStep
  <2>2. block' = block /\ scores' = scores
    BY <1>2 DEF PersistEpochSummary
  <2>3. ScoresInv'
    BY <2>2 DEF ScoresInv
  <2>4. QED
    BY <2>1, <2>2, <2>3
<1>3. CASE PersistValidatorPayout
  <2>1. ApplyInv'
    BY <1>3, PayoutStep
  <2>2. block' = block /\ scores' = scores /\ summaries' = summaries /\ treasury' = treasury
    BY <1>3 DEF PersistValidatorPayout
  <2>3. ScoresInv' /\ SummariesInv' /\ TreasuryInv'
    BY <2>2 DEF ScoresInv, SummariesInv, TreasuryInv, TreasuryCovers
  <2>4. QED
    BY <2>1, <2>2, <2>3
<1>4. CASE PutValidatorScore
  <2>1. ApplyInv' /\ ScoresInv'
    BY <1>4, ScoreStep
  <2>2. block' = block /\ summaries' = summaries /\ treasury' = treasury
    BY <1>4 DEF PutValidatorScore
  <2>3. SummariesInv' /\ TreasuryInv'
    BY <2>2 DEF SummariesInv, TreasuryInv, TreasuryCovers
  <2>4. QED
    BY <2>1, <2>2, <2>3
<1>5. CASE Return
  <2>1. /\ apply' = Idle /\ block' = block + 1
        /\ scores' = scores /\ summaries' = summaries /\ treasury' = treasury
    BY <1>5 DEF Return
  <2>2. ScoresInv' /\ TreasuryInv'
    BY <2>1 DEF ScoresInv, TreasuryInv, TreasuryCovers
  <2>3. SummariesInv'
    <3>1. 0 .. block \subseteq 0 .. block'
      BY <2>1
    <3>2. QED
      BY <2>1, <3>1 DEF SummariesInv
  <2>4. ApplyInv'
    BY <2>1 DEF ApplyInv, Idle
  <2>5. QED
    BY <2>1, <2>2, <2>3, <2>4
<1>6. CASE Fail
  <2>1. /\ apply' = Idle /\ block' = block
        /\ scores' = scores /\ summaries' = summaries /\ treasury' = treasury
    BY <1>6 DEF Fail
  <2>2. ScoresInv' /\ SummariesInv' /\ TreasuryInv'
    BY <2>1 DEF ScoresInv, SummariesInv, TreasuryInv, TreasuryCovers
  <2>3. ApplyInv'
    BY <2>1 DEF ApplyInv, Idle
  <2>4. QED
    BY <2>1, <2>2, <2>3
<1>7. ASSUME NEW v \in Member, Participate(v) PROVE RewardInv'
  <2>1. /\ apply' = apply /\ apply.phase = "idle" /\ block' = block
        /\ summaries' = summaries /\ treasury' = treasury
    BY <1>7 DEF Participate
  <2>2. SummariesInv' /\ TreasuryInv'
    BY <2>1 DEF SummariesInv, TreasuryInv, TreasuryCovers
  <2>3. ApplyInv'
    BY <2>1 DEF ApplyInv
  <2>4. ScoresInv'
    <3>1. PICK z : z = [scores[v] EXCEPT !.participation = @ + 1, !.updated = block]
      OBVIOUS
    <3>2. scores' = [scores EXCEPT ![v] = z]
      BY <1>7, <3>1, ParticipateWrites
    <3>3. IsRecord(z) /\ z.addr = v
      <4>1. PICK r, h : r = scores[v] /\ h = block
        OBVIOUS
      <4>2. IsRecord(r) /\ r.addr = v /\ r.participation < MaxParticipation
        BY <1>7, <4>1 DEF ScoresInv, Participate
      <4>3. z = [r EXCEPT !.participation = @ + 1, !.updated = h]
        BY <3>1, <4>1, Zenon
      <4>4. QED
        BY <4>2, <4>3, ParticipatedRecord
    <3>4. QED
      BY <3>2, <3>3 DEF ScoresInv
  <2>5. QED
    BY <2>1, <2>2, <2>3, <2>4
<1>8. CASE UNCHANGED rewardVars
  BY <1>8 DEF rewardVars, ScoresInv, SummariesInv, TreasuryInv, TreasuryCovers, ApplyInv
<1>9. QED
  BY <1>1, <1>2, <1>3, <1>4, <1>5, <1>6, <1>7, <1>8 DEF RewardNext

\* What Apply stores adds up, whatever the weights: the payouts of the epoch are the
\* validators' share of its summary, and the treasury covers every summary.
THEOREM PayoutsDoAddUp == RewardSpec => [](PayoutsAddUp /\ TreasuryCovers)
<1>1. RewardInit => RewardInv
  BY RewardStart
<1>2. RewardInv /\ [RewardNext]_rewardVars => RewardInv'
  BY RewardStep
<1>3. RewardInv => PayoutsAddUp /\ TreasuryCovers
  BY StoredAddUp DEF RewardInv, TreasuryInv
<1>4. QED
  BY <1>1, <1>2, <1>3, PTL DEF RewardSpec
-------------------------------------------------------------------------------
\* The largest weight of a record, once for each member, fits a word.
Fits(r) == FullWeight(r) * Cardinality(Member) < RewardWord

\* A record that says it was rewarded has a payout, or there was nothing to share, or it
\* weighs nothing without its participation.
Settled(r, P, S) ==
    r.rewarded > 0 =>
        /\ r.rewarded \in DOMAIN S
        /\ \/ PayoutKey(r.rewarded, r.addr) \in DOMAIN P
           \/ S[r.rewarded].validators = 0
           \/ BareWeight(r) = 0

SettledInv ==
    /\ \A v \in Member : Fits(scores[v]) /\ Settled(scores[v], payouts, summaries)
    /\ apply.phase # "idle" => \A i \in DOMAIN apply.list : Fits(apply.list[i])

\* Weights that fit are not cut, and their sum is not either.
LEMMA FittingWeights ==
    ASSUME NEW list, IsListing(list), \A i \in DOMAIN list : Fits(list[i])
    PROVE  /\ \A i \in DOMAIN list : WeightOf(list[i]) = RawWeight(list[i])
           /\ WeightSum(list) < RewardWord
<1>1. PICK n \in Nat : n = Cardinality(Member)
  BY RewardsAssumption, FS_CardinalityType
<1>2. PICK m \in Nat : m = RewardWord /\ m > 100
  BY RewardsAssumption
<1> DEFINE w == [i \in DOMAIN list |-> WeightOf(list[i])]
<1>3. /\ DOMAIN list = 1 .. n /\ IsFiniteSet(1 .. n)
      /\ WeightSum(list) = Sum(w, 1 .. n) /\ WeightSum(list) \in Nat
  BY <1>1, ListingWeights DEF IsListing
<1>4. ASSUME NEW i \in 1 .. n
      PROVE  /\ WeightOf(list[i]) = RawWeight(list[i])
             /\ w[i] \in Nat /\ n * w[i] \in Int /\ n * w[i] <= m - 1
  <2>1. IsRecord(list[i]) /\ FullWeight(list[i]) * n < m
    BY <1>1, <1>2, <1>3 DEF IsListing, Fits
  <2>2. PICK x \in Nat, y \in Nat : x = RawWeight(list[i]) /\ y = FullWeight(list[i]) /\ x <= y
    BY <2>1, RecordWeights
  <2>3. x * n <= y * n /\ y <= y * n /\ y * n \in Nat
    <3>1. PICK d \in Nat : y = x + d
      <4>1. y - x \in Nat /\ y = x + (y - x)
        BY <2>2
      <4>2. QED
        BY <4>1
    <3>2. PICK k \in Nat : n = 1 + k
      <4>1. n - 1 \in Nat /\ n = 1 + (n - 1)
        OBVIOUS
      <4>2. QED
        BY <4>1
    <3>3. y * n = x * n + d * n /\ d * n \in Nat /\ x * n \in Nat
      BY <3>1
    <3>4. y * n = y + y * k /\ y * k \in Nat
      BY <3>2
    <3>5. QED
      BY <3>3, <3>4
  <2>4. y * n < m
    BY <2>1, <2>2
  <2>5. x < m /\ x * n < m /\ x * n \in Nat
    <3>1. x * n \in Nat
      OBVIOUS
    <3>2. QED
      BY <2>2, <2>3, <2>4, <3>1
  <2>6. x % m = x
    BY <1>2, <2>5
  <2>7. WeightOf(list[i]) = x
    BY <1>2, <2>2, <2>6 DEF WeightOf
  <2>8. w[i] = x
    BY <1>3, <2>7
  <2>9. n * w[i] = x * n
    BY <2>8
  <2> HIDE DEF w
  <2>10. QED
    BY <1>2, <2>2, <2>5, <2>7, <2>8, <2>9
<1>5. ASSUME n > 0 PROVE Sum(w, 1 .. n) <= m - 1
  <2>1. PICK D : D = 1 .. n /\ IsFiniteSet(D) /\ Cardinality(D) = n
    BY <1>3, FS_Interval
  <2> HIDE DEF w
  <2>2. D # {} /\ m - 1 \in Int /\ \A i \in D : w[i] \in Int /\ Cardinality(D) * w[i] <= m - 1
    <3>1. D # {} /\ m - 1 \in Int
      BY <1>5, <2>1
    <3>2. ASSUME NEW i \in D PROVE w[i] \in Int /\ Cardinality(D) * w[i] <= m - 1
      <4>1. i \in 1 .. n
        BY <2>1
      <4>2. w[i] \in Nat /\ n * w[i] <= m - 1
        BY <1>4, <4>1
      <4>3. QED
        BY <2>1, <4>2
    <3>3. QED
      BY <3>1, <3>2
  <2>3. Sum(w, D) <= m - 1
    BY <2>1, <2>2, SumAtMost
  <2>4. QED
    BY <2>1, <2>3
<1>6. ASSUME n = 0 PROVE Sum(w, 1 .. n) = 0
  <2>1. 1 .. n = {}
    BY <1>6
  <2> HIDE DEF w
  <2>2. QED
    BY <2>1, SumEmpty
<1>7. WeightSum(list) < m
  <2> HIDE DEF w
  <2>1. QED
    BY <1>2, <1>3, <1>5, <1>6
<1>8. QED
  BY <1>2, <1>3, <1>4, <1>7

\* A listed record whose payouts are stored is settled once it is reset.
LEMMA ResetSettles ==
    ASSUME NEW list, IsListing(list), \A j \in DOMAIN list : Fits(list[j]),
           NEW s \in Nat, NEW e \in Nat, NEW P, NEW pay,
           Stored(Compute(s, list), pay, e, P), DOMAIN pay = {},
           NEW i \in DOMAIN list
    PROVE  \/ PayoutKey(e, list[i].addr) \in DOMAIN P
           \/ s = 0
           \/ BareWeight(list[i]) = 0
<1>1. IsRecord(list[i])
  BY DEF IsListing
<1>2. WeightOf(list[i]) = RawWeight(list[i]) /\ WeightSum(list) < RewardWord
  BY FittingWeights
<1>3. CASE WeightOf(list[i]) = 0
  <2>1. PICK x \in Nat : x = RawWeight([list[i] EXCEPT !.participation = 0]) /\ x <= RawWeight(list[i])
    BY <1>1, RecordWeights
  <2>2. x = 0
    BY <1>2, <1>3, <2>1
  <2>3. 0 % RewardWord = 0
    BY RewardsAssumption
  <2>4. QED
    BY <2>1, <2>2, <2>3 DEF BareWeight, WeightOf
<1>4. CASE WeightOf(list[i]) # 0 /\ s # 0
  <2>1. i \in HeavyAt(list)
    <3>1. WeightOf(list[i]) \in Nat
      BY <1>1, RecordWeights
    <3>2. QED
      BY <1>4, <3>1 DEF HeavyAt
  <2>2. PICK x \in Nat, m \in Nat : x = WeightSum(list) /\ x > 0 /\ m = RewardWord /\ x < m
    BY <1>2, <2>1, ListingWeights, RewardsAssumption
  <2>3. x % m = x
    BY <2>2
  <2>4. TotalWeight(list) # 0
    BY <2>2, <2>3 DEF TotalWeight
  <2>5. i \in PaidAt(s, list)
    BY <1>4, <2>1, <2>4 DEF PaidAt
  <2>6. i \in DOMAIN Compute(s, list) /\ Compute(s, list)[i].addr = list[i].addr
    BY <2>5, ComputePays
  <2>7. QED
    BY <2>6 DEF Stored
<1>5. QED
  BY <1>3, <1>4

\* Every record is settled at the start: none was rewarded.
LEMMA SettledStart ==
    ASSUME WeightsFit, RewardInit
    PROVE  SettledInv
<1>1. scores \in FirstScores /\ apply = Idle
  BY DEF RewardInit
<1>2. \A v \in Member : scores[v].rewarded = 0
  BY <1>1, RewardsAssumption
<1>3. \A v \in Member : Fits(scores[v])
  BY <1>1 DEF WeightsFit, Fits
<1>4. \A v \in Member : Settled(scores[v], payouts, summaries)
  BY <1>2 DEF Settled
<1>5. QED
  BY <1>1, <1>3, <1>4 DEF SettledInv, Idle

\* A record stays settled when a payout is stored.
LEMMA StaySettled ==
    ASSUME NEW r, NEW P, NEW S, Settled(r, P, S), NEW k, NEW x
    PROVE  Settled(r, SetKey(P, k, x), S)
BY DEF Settled, SetKey

\* So it does when the summary of the block takes the place of an earlier one of its epoch.
LEMMA SummarySettles ==
    ASSUME Decays, RewardInv, NEW h \in Nat, h = block, NEW S, S = summaries,
           NEW r, NEW P, Settled(r, P, S)
    PROVE  Settled(r, P, SetKey(S, CurrentEpoch(h), SummaryAt(h)))
<1>1. PICK e, s, T : e = CurrentEpoch(h) /\ s = SummaryAt(h) /\ T = SetKey(S, e, s)
  OBVIOUS
<1>2. DOMAIN T = DOMAIN S \cup {e} /\ T[e] = s /\ \A x \in DOMAIN S : x # e => T[x] = S[x]
  BY <1>1 DEF SetKey
<1>3. ASSUME e \in DOMAIN S, S[e].validators = 0 PROVE s.validators = 0
  <2>1. PICK k \in 0 .. h : S[e] = SummaryAt(k) /\ CurrentEpoch(k) = e
    BY <1>3 DEF RewardInv, SummariesInv
  <2>2. k \in Nat /\ k <= h
    OBVIOUS
  <2>3. SummaryAt(k).validators = 0
    BY <1>3, <2>1
  <2>4. QED
    BY <1>1, <2>1, <2>2, <2>3, DryStays
<1>4. Settled(r, P, T)
  <2>1. CASE r.rewarded = e
    BY <1>2, <1>3, <2>1 DEF Settled
  <2>2. CASE r.rewarded # e
    BY <1>2, <2>2 DEF Settled
  <2>3. QED
    BY <2>1, <2>2
<1>5. QED
  BY <1>1, <1>4

\* PutValidatorScore stores a record that is settled.
LEMMA ScoreSettles ==
    ASSUME RewardInv, SettledInv, PutValidatorScore
    PROVE  SettledInv'
<1>1. PICK a, h : a = apply /\ h = block
  OBVIOUS
<1>2. PICK s : s = SummaryAt(h)
  OBVIOUS
<1>3. /\ Applying(a, h) /\ Stored(Compute(s.validators, a.list), a.pay, s.epoch, payouts)
      /\ s.epoch \in DOMAIN summaries /\ summaries[s.epoch] = s
      /\ \A i \in DOMAIN a.list : Fits(a.list[i])
  BY <1>1, <1>2 DEF RewardInv, ApplyInv, SettledInv, PutValidatorScore
<1>4. PICK list : list = a.list
  OBVIOUS
<1>5. IsListing(list) /\ a.reset \in Seq(Listed(list)) /\ a.summary = s /\ a.height = h
  BY <1>2, <1>3, <1>4 DEF Applying
<1>6. PICK i \in DOMAIN list : Head(a.reset) = list[i]
  <2>1. PICK T : T = Listed(list)
    OBVIOUS
  <2>2. a.reset \in Seq(T) /\ a.reset # <<>>
    BY <1>1, <1>5, <2>1 DEF PutValidatorScore
  <2>3. Head(a.reset) \in T
    BY <2>2
  <2>4. QED
    BY <2>1, <2>3 DEF Listed
<1>7. PICK e \in Nat, n \in Nat : e = s.epoch /\ n = s.validators
  BY <1>1, <1>2, SummaryFields DEF RewardInv
<1>8. PICK r, z : r = list[i] /\ z = ResetForEpoch(r, e, h)
  OBVIOUS
<1>9. IsRecord(r)
  BY <1>5, <1>8 DEF IsListing
<1>10. z.addr = r.addr /\ z.rewarded = e /\ FullWeight(z) = FullWeight(r) /\ BareWeight(z) = BareWeight(r)
  BY <1>8, <1>9, ResetRecord
<1>11. PICK P, S : P = payouts /\ S = summaries
  OBVIOUS
<1>12. PayoutKey(e, r.addr) \in DOMAIN P \/ n = 0 \/ BareWeight(r) = 0
  <2>1. PICK pay : pay = a.pay /\ DOMAIN pay = {}
    BY <1>1 DEF PutValidatorScore
  <2>2. Stored(Compute(n, list), pay, e, P) /\ \A j \in DOMAIN list : Fits(list[j])
    BY <1>3, <1>4, <1>7, <1>11, <2>1
  <2>3. QED
    BY <1>5, <1>8, <2>1, <2>2, ResetSettles
<1>13. Settled(z, P, S)
  BY <1>3, <1>7, <1>10, <1>11, <1>12 DEF Settled
<1>14. Fits(z)
  BY <1>3, <1>4, <1>8, <1>10 DEF Fits
<1>15. PICK F, F2 : F = scores /\ F2 = scores'
  OBVIOUS
<1>16. F2 = SetKey(F, r.addr, z) /\ payouts' = P /\ summaries' = S
  BY <1>1, <1>5, <1>6, <1>7, <1>8, <1>11, <1>15 DEF PutValidatorScore
<1>17. \A v \in Member : Fits(F2[v]) /\ Settled(F2[v], P, S)
  <2>1. DOMAIN F = Member /\ r.addr \in Member
    BY <1>9, <1>15 DEF RewardInv, ScoresInv, IsRecord
  <2>2. F2[r.addr] = z /\ \A v \in Member : v # r.addr => F2[v] = F[v]
    BY <1>16, <2>1 DEF SetKey
  <2>3. \A v \in Member : Fits(F[v]) /\ Settled(F[v], P, S)
    BY <1>11, <1>15 DEF SettledInv
  <2>4. QED
    BY <1>13, <1>14, <2>2, <2>3
<1>18. apply'.list = list
  <2>1. apply' = [a EXCEPT !.reset = Tail(a.reset)]
    BY <1>1 DEF PutValidatorScore
  <2>2. QED
    BY <1>3, <1>4, <2>1 DEF Applying
<1>19. QED
  BY <1>3, <1>4, <1>15, <1>16, <1>17, <1>18 DEF SettledInv

\* The records stay settled.
LEMMA SettledStep ==
    ASSUME Decays, RewardInv, SettledInv, [RewardNext]_rewardVars
    PROVE  SettledInv'
<1>1. CASE Begin
  <2>1. PICK list \in Listings : apply'.list = list
    BY <1>1 DEF Begin
  <2>2. \A i \in DOMAIN list : \E v \in Member : list[i] = scores[v]
    BY ListingsList DEF RewardInv
  <2>3. \A i \in DOMAIN list : Fits(list[i])
    BY <2>2 DEF SettledInv
  <2>4. scores' = scores /\ payouts' = payouts /\ summaries' = summaries
    BY <1>1 DEF Begin
  <2>5. QED
    BY <2>1, <2>3, <2>4 DEF SettledInv
<1>2. CASE PersistEpochSummary
  <2>1. PICK h, S, a : h = block /\ S = summaries /\ a = apply
    OBVIOUS
  <2>2. Applying(a, h) /\ h \in Nat /\ a.phase # "idle"
    BY <1>2, <2>1 DEF RewardInv, ApplyInv, PersistEpochSummary
  <2>3. a.summary = SummaryAt(h) /\ a.summary.epoch = CurrentEpoch(h)
    BY <2>2, SummaryFields DEF Applying
  <2>4. /\ summaries' = SetKey(S, CurrentEpoch(h), SummaryAt(h))
        /\ scores' = scores /\ payouts' = payouts /\ apply' = [a EXCEPT !.phase = "payouts"]
    BY <1>2, <2>1, <2>3 DEF PersistEpochSummary
  <2>5. PICK F, P : F = scores /\ P = payouts
    OBVIOUS
  <2>6. \A v \in Member : Settled(F[v], P, S)
    BY <2>1, <2>5 DEF SettledInv
  <2>7. \A v \in Member : Settled(F[v], P, SetKey(S, CurrentEpoch(h), SummaryAt(h)))
    BY <2>1, <2>2, <2>6, SummarySettles
  <2>8. apply'.list = a.list
    BY <2>2, <2>4 DEF Applying
  <2>9. QED
    BY <2>1, <2>2, <2>4, <2>5, <2>7, <2>8 DEF SettledInv
<1>3. CASE PersistValidatorPayout
  <2>1. PICK h, a : h = block /\ a = apply
    OBVIOUS
  <2>2. Applying(a, h) /\ a.phase # "idle"
    BY <1>3, <2>1 DEF RewardInv, ApplyInv, PersistValidatorPayout
  <2>3. PICK F, P, S : F = scores /\ P = payouts /\ S = summaries
    OBVIOUS
  <2>4. PICK k, x, rest : /\ payouts' = SetKey(P, k, x) /\ apply' = [a EXCEPT !.pay = rest]
                          /\ scores' = scores /\ summaries' = summaries
    BY <1>3, <2>1, <2>3 DEF PersistValidatorPayout
  <2>5. \A v \in Member : Settled(F[v], SetKey(P, k, x), S)
    BY <2>3, StaySettled DEF SettledInv
  <2>6. apply'.list = a.list
    BY <2>2, <2>4 DEF Applying
  <2>7. QED
    BY <2>1, <2>2, <2>3, <2>4, <2>5, <2>6 DEF SettledInv
<1>4. CASE PutValidatorScore
  BY <1>4, ScoreSettles
<1>5. CASE Return \/ Fail
  <2>1. apply' = Idle /\ scores' = scores /\ payouts' = payouts /\ summaries' = summaries
    BY <1>5 DEF Return, Fail
  <2>2. QED
    BY <2>1 DEF SettledInv, Idle
<1>6. ASSUME NEW v \in Member, Participate(v) PROVE SettledInv'
  <2>1. PICK r, h, z : /\ r = scores[v] /\ h = block
                       /\ z = [r EXCEPT !.participation = @ + 1, !.updated = h]
    OBVIOUS
  <2>2. scores' = [scores EXCEPT ![v] = z]
    BY <1>6, <2>1, ParticipateWrites, Zenon
  <2>3. IsRecord(r) /\ r.participation < MaxParticipation
    BY <1>6, <2>1 DEF RewardInv, ScoresInv, Participate
  <2>4. z.addr = r.addr /\ z.rewarded = r.rewarded /\ FullWeight(z) = FullWeight(r) /\ BareWeight(z) = BareWeight(r)
    <3>1. z = [r EXCEPT !.participation = @ + 1, !.updated = h]
      BY <2>1, Zenon
    <3>2. QED
      BY <2>3, <3>1, ParticipatedRecord
  <2>5. PICK P, S : P = payouts /\ S = summaries
    OBVIOUS
  <2>6. Fits(r) /\ Settled(r, P, S)
    BY <2>1, <2>5 DEF SettledInv
  <2>7. Fits(z) /\ Settled(z, P, S)
    BY <2>4, <2>6 DEF Fits, Settled
  <2>8. payouts' = P /\ summaries' = S /\ apply' = apply
    BY <1>6, <2>5 DEF Participate
  <2>9. DOMAIN scores = Member
    BY DEF RewardInv, ScoresInv
  <2>10. \A u \in Member : Fits(scores'[u]) /\ Settled(scores'[u], P, S)
    BY <2>2, <2>5, <2>7, <2>9 DEF SettledInv
  <2>11. QED
    BY <2>8, <2>10 DEF SettledInv
<1>7. CASE UNCHANGED rewardVars
  BY <1>7 DEF rewardVars, SettledInv
<1>8. QED
  BY <1>1, <1>2, <1>3, <1>4, <1>5, <1>6, <1>7 DEF RewardNext

\* Settled records are what RewardedArePaid asks for.
LEMMA SettledArePaid ==
    ASSUME RewardInv, SettledInv
    PROVE  RewardedArePaid
<1>1. \A v \in Member : scores[v].addr = v /\ Settled(scores[v], payouts, summaries)
  BY DEF RewardInv, ScoresInv, SettledInv
<1>2. QED
  BY <1>1 DEF RewardedArePaid, Settled, BareWeight

\* Rewards add up for every set of records, schedule, order of the list and sequence of
\* failed calls, when the block mint never rises and the weights fit a word.
THEOREM RewardsDoAddUp ==
    ASSUME Decays, WeightsFit
    PROVE  RewardSpec => []RewardsAddUp
<1>1. RewardInit => RewardInv /\ SettledInv
  BY RewardStart, SettledStart
<1>2. RewardInv /\ SettledInv /\ [RewardNext]_rewardVars => RewardInv' /\ SettledInv'
  BY RewardStep, SettledStep
<1>3. RewardInv /\ SettledInv => RewardsAddUp
  BY StoredAddUp, SettledArePaid DEF RewardsAddUp, RewardInv, TreasuryInv
<1>4. QED
  BY <1>1, <1>2, <1>3, PTL DEF RewardSpec
===============================================================================
