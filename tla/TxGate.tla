-------------------------------- MODULE TxGate --------------------------------
(***************************************************************************)
(* The handlers a POST /tx goes through before and after the engine        *)
(* (internal/rpc/router.go): txPrecheckWith, jsonizeSigErrors, precheckSig,*)
(* precheckFromBindingWith, precheckCommit and txPostHandler, in the order *)
(* `root` chains them.                                                     *)
(*                                                                         *)
(* One request is followed from its arrival to its reply.  Amounts and     *)
(* fees arrive as int64 and become uint64.  A signature is the pair of the *)
(* key that made it and what it signs; Ed25519 verification succeeds       *)
(* exactly when that is the key in X-PubKey and calcCommit of the request. *)
(***************************************************************************)
EXTENDS Integers, Fees

CONSTANTS
    HalfWord,    \* 2^63
    FeeBps,      \* THOMAS_FEE_BPS
    Malformed,   \* addresses without the prefix "tho1"
    Bound,       \* data/from_pubkeys.json: a function from addresses to keys
    NoKey,       \* no X-PubKey header
    BadKey,      \* an X-PubKey that is not 32 bytes of base64
    Req,         \* the requests
    Env          \* the settings: [verifySig, requireKey, requireCommit : BOOLEAN]

Word == 2 * HalfWord

ASSUME TxGateAssumption ==
    /\ HalfWord \in Nat /\ HalfWord > 10000
    /\ FeeBps \in Nat
    /\ Env \subseteq [verifySig : BOOLEAN, requireKey : BOOLEAN, requireCommit : BOOLEAN]
    /\ {NoKey, BadKey} \cap {Bound[a] : a \in DOMAIN Bound} = {}
    /\ \A r \in Req : /\ r.json \in BOOLEAN      \* the body parses
                      /\ r.amount \in -HalfWord .. HalfWord - 1
                      /\ r.fee \in -HalfWord .. HalfWord - 1

VARIABLES
    req,       \* the request: its body and headers
    env,       \* the settings the node was started with
    height,    \* eng.CurrentHeight
    stage,     \* the handler that has the request
    engine,    \* what the request did to the engine: "untouched", "changed", "receipt"
    reply      \* status and reason of the reply; "none" before

vars == <<req, env, height, stage, engine, reply>>

NoReply == [status |-> 0, reason |-> "none"]
Reply(code, why) == [status |-> code, reason |-> why]

\* handing the request on, and answering it
Pass(next) == stage' = next /\ UNCHANGED <<req, env, height, engine, reply>>
Answer(code, why) ==
    /\ stage' = "jsonize"
    /\ reply' = Reply(code, why)
    /\ UNCHANGED <<req, env, height, engine>>
-------------------------------------------------------------------------------
Init ==
    /\ req \in Req
    /\ env \in Env
    /\ height \in {r.expiry : r \in Req}
    /\ stage = "precheck"
    /\ engine = "untouched"
    /\ reply = NoReply

\* the fee the precheck asks for
ExpectedFee == MinFeeMas(IF req.amount > 0 THEN req.amount ELSE 1, FeeBps, Word)

PrecheckErrors ==
    {e \in {"bad_chain_id", "amount_le_0", "fee_below_min", "addr_format", "expired_height"} :
        \/ e = "bad_chain_id" /\ req.chain \notin {"", "ours"}
        \/ e = "amount_le_0" /\ req.amount <= 0
        \/ e = "fee_below_min" /\ req.fee < ExpectedFee
        \/ e = "addr_format" /\ {req.from, req.to} \cap Malformed # {}
        \/ e = "expired_height" /\ req.expiry > 0 /\ req.expiry <= height}

\* txPrecheckWith: its own replies do not go through jsonizeSigErrors.
Precheck ==
    /\ stage = "precheck"
    /\ \/ req.json /\ PrecheckErrors = {} /\ Pass("sig")
       \/ /\ ~req.json \/ PrecheckErrors # {}
          /\ stage' = "done"
          /\ reply' = Reply(400, IF req.json THEN "tx_precheck_failed" ELSE "malformed_json")
          /\ UNCHANGED <<req, env, height, engine>>

\* precheckSig: without a key or a signature the check is skipped, unless required.
PrecheckSig ==
    /\ stage = "sig"
    /\ IF NoKey \in {req.key, req.sig.by}
       THEN \/ env.verifySig /\ Answer(400, "signature_required")
            \/ ~env.verifySig /\ Pass("binding")
       ELSE \/ /\ BadKey \in {req.key, req.sig.by}
               /\ Answer(400, "bad_signature_encoding")
            \/ /\ BadKey \notin {req.key, req.sig.by}
               /\ req.sig # [by |-> req.key, over |-> "this"]
               /\ Answer(400, "bad_signature")
            \/ req.sig = [by |-> req.key, over |-> "this"] /\ Pass("binding")

\* Engine.VerifyFromBinding: an address without a binding owns no key.
VerifyFromBinding(addr, key) == addr \in DOMAIN Bound /\ Bound[addr] = key

\* Mutant: an address without a binding owns every key.
PrecheckFromBindingOpen ==
    /\ stage = "binding"
    /\ \/ req.key = NoKey /\ env.requireKey /\ Answer(400, "from_pubkey_required")
       \/ req.key = NoKey /\ ~env.requireKey /\ Pass("commit")
       \/ /\ req.key # NoKey
          /\ (req.from \notin DOMAIN Bound \/ VerifyFromBinding(req.from, req.key))
          /\ Pass("commit")

\* precheckFromBindingWith
PrecheckFromBinding ==
    /\ stage = "binding"
    /\ \/ req.key = NoKey /\ env.requireKey /\ Answer(400, "from_pubkey_required")
       \/ req.key = NoKey /\ ~env.requireKey /\ Pass("commit")
       \/ req.key = BadKey /\ Answer(400, "bad_pubkey_encoding")
       \/ /\ req.key \notin {NoKey, BadKey} /\ ~VerifyFromBinding(req.from, req.key)
          /\ Answer(400, "from_pubkey_mismatch")
       \/ VerifyFromBinding(req.from, req.key) /\ Pass("commit")

\* precheckCommit: a commitment is compared only where one is required.
PrecheckCommit ==
    /\ stage = "commit"
    /\ \/ env.requireCommit /\ req.commit = "" /\ Answer(400, "commitment_required")
       \/ env.requireCommit /\ req.commit \notin {"", "this"} /\ Answer(400, "bad_commitment")
       \/ (~env.requireCommit \/ req.commit = "this") /\ Pass("post")

\* txPostHandler: the outcomes of Engine.ApplyTransfer (module Engine), which may
\* change the accounts and then fail to save them; every one leaves a receipt.
TxPost ==
    /\ stage = "post"
    /\ stage' = "jsonize"
    /\ \/ engine' = "changed" /\ reply' = Reply(200, "applied")
       \/ engine' = "changed" /\ reply' = Reply(400, "apply:io_error")
       \/ /\ engine' = "receipt"
          /\ reply' \in {Reply(400, "apply:bad_nonce"), Reply(400, "apply:insufficient_funds")}
    /\ UNCHANGED <<req, env, height>>

SigReasons ==
    {"bad_signature", "bad_signature_encoding", "signature_required", "verify:bad_signature"}

\* Mutant: every 400 is rewritten, whatever its reason.
JsonizeEveryError ==
    /\ stage = "jsonize"
    /\ stage' = "done"
    /\ reply' = IF reply.status = 400 THEN Reply(200, "verify:bad_signature") ELSE reply
    /\ UNCHANGED <<req, env, height, engine>>

\* jsonizeSigErrors: a refused signature becomes 200 {"ok":true,"applied":false}.
JsonizeSigErrors ==
    /\ stage = "jsonize"
    /\ stage' = "done"
    /\ reply' = IF reply.status = 400 /\ reply.reason \in SigReasons
                THEN Reply(200, "verify:bad_signature") ELSE reply
    /\ UNCHANGED <<req, env, height, engine>>

Next == Precheck \/ PrecheckSig \/ PrecheckFromBinding \/ PrecheckCommit \/ TxPost
          \/ JsonizeSigErrors

Spec == Init /\ [][Next]_vars
-------------------------------------------------------------------------------
Admitted == stage = "post" \/ engine # "untouched"

\* The integers of an admitted transfer survive the conversion from int64: both are
\* positive, and amount + fee does not wrap in DB.ApplyTransfer; and the fee covers
\* its share of the amount, rounded up, as far as the product fits a word.
AdmittedFits ==
    Admitted => /\ req.amount > 0 /\ req.fee > 0
                /\ req.amount + req.fee < Word
                /\ req.amount * FeeBps + 9999 < Word =>
                     req.fee * 10000 >= req.amount * FeeBps

\* With both settings on, only the holder of the key bound to the sender's address
\* gets a transfer to the engine, and it is the transfer that was signed; a key
\* that is sent is checked whatever the settings are.
AdmittedAuthorised ==
    Admitted =>
      /\ env.requireKey \/ req.key # NoKey => VerifyFromBinding(req.from, req.key)
      /\ env.requireKey /\ env.verifySig =>
           req.sig = [by |-> Bound[req.from], over |-> "this"]

\* What the reply says of the engine: a request a gate refuses leaves neither a
\* change nor a receipt, although refusals of a signature are answered with 200,
\* and "applied" is said only of a transfer that was.
RepliesTruthful ==
    stage = "done" =>
      /\ reply.reason = "applied" <=> (engine = "changed" /\ reply.status = 200)
      /\ reply.status = 200 /\ reply.reason # "applied" => engine = "untouched"
      /\ engine = "untouched" <=>
           reply.reason \in {"malformed_json", "tx_precheck_failed", "verify:bad_signature",
                             "from_pubkey_required", "bad_pubkey_encoding",
                             "from_pubkey_mismatch", "commitment_required",
                             "bad_commitment"}
===============================================================================
