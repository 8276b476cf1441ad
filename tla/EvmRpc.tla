------------------------------- MODULE EvmRpc -------------------------------
(***************************************************************************)
(* The EVM JSON-RPC endpoint of the gateway (apps/gateway/src/evm_rpc.rs): *)
(* signed transfers become events of a bucket, after a cached look at the  *)
(* dashboard's switch for the bucket and a nonce check against some node.  *)
(*                                                                         *)
(* A behaviour of this module has requests with keys or wallet requests,   *)
(* not both: the two kinds share nothing but the clock.  A transaction is  *)
(* its own hash; decoding, signature recovery and wei scaling happen to    *)
(* it before it gets here.  A node's part is the set of transfers it has.  *)
(***************************************************************************)
EXTENDS Gateway, Sequences

CONSTANTS
  Txs,             \* [from, to, value, nonce, chain]
  Addresses, Deposit,
  Chain,           \* chain_id_for_bucket of the bucket
  EvmTtl,          \* EVM_STATE_CACHE_TTL
  MeshMayBeEmpty   \* no node has been discovered yet

ASSUME EvmAssumption ==
  /\ \A t \in Txs : /\ {t.from, t.to} \subseteq Addresses
                    /\ t.value \in Nat \ {0} /\ t.nonce \in Nat
  /\ Deposit \in [Addresses -> Nat] /\ EvmTtl \in Nat /\ MeshMayBeEmpty \in BOOLEAN

VARIABLES
  traffic,   \* which kind of requests this behaviour has
  evmRow,    \* the dashboard's switches of the bucket
  evmCache,  \* AppState.evm_state: the switches and refreshed_at
  evmReq,    \* the wallet requests under way
  evmSent,
  transfers, \* the transfers each node has
  evmTxs,    \* AppState.evm_txs
  closedAt,  \* history: when the dashboard last closed the bucket for transfers
  evmLate,   \* history: the longest a transfer was let in after that
  receipts   \* history: transfers a wallet was told to have happened

evmVars == <<evmRow, evmCache, evmReq, evmSent, transfers, evmTxs, closedAt, evmLate, receipts>>
vars == <<gwVars, traffic, evmVars>>

Switches == [enabled : BOOLEAN, paused : BOOLEAN]
disabled == [enabled |-> FALSE, paused |-> FALSE]
Open(s) == s.enabled /\ ~s.paused

\* The sum of transfers into and out of an account at a node, and its nonce there.
Balance(n, a) ==
  Deposit[a] + MapThenSumSet(LAMBDA t : t.value, {t \in transfers[n] : t.to = a})
             - MapThenSumSet(LAMBDA t : t.value, {t \in transfers[n] : t.from = a})
get_nonce(n, a) == Cardinality({t \in transfers[n] : t.from = a})

\* A transfer at a node: known hashes are answered from what is there, the funds must be there.
NodeTransfer(n, t) == t \in transfers[n] \/ Balance(n, t.from) >= t.value

\* Faulty variant: a hit keeps the entry alive.
is_stale_since_last_hit(entry) == FALSE

is_stale(entry) == clock - entry.at > EvmTtl

EvmInit ==
  /\ Init /\ traffic \in {"keys", "wallet"} /\ (traffic = "keys" \/ auth)
  /\ evmRow = [enabled |-> TRUE, paused |-> FALSE]
  /\ evmCache = [state |-> disabled, at |-> Never]
  /\ evmReq = [r \in Requests |-> Idle] /\ evmSent = 0
  /\ transfers = [n \in Nodes |-> {}]
  /\ evmTxs = {} /\ receipts = {} /\ closedAt = Never /\ evmLate = 0

\* ensure_evm_ready said yes: how long after the bucket was closed.
LetIn(r, t) ==
  /\ evmReq' = [evmReq EXCEPT ![r] = [st |-> "nonce", tx |-> t]]
  /\ evmLate' = IF closedAt = Never THEN evmLate ELSE Max({evmLate, clock - closedAt})

\* evm_rpc_handler, eth_sendRawTransaction: a fresh entry decides, else the dashboard is asked.
SendReceived(r, t) ==
  /\ evmReq[r] = Idle /\ evmSent < MaxRequests /\ evmSent' = evmSent + 1
  /\ IF evmCache.at # Never /\ ~is_stale(evmCache)
     THEN Open(evmCache.state) /\ LetIn(r, t)
     ELSE /\ evmReq' = [evmReq EXCEPT ![r] = [st |-> "fetch", tx |-> t, since |-> clock]]
          /\ UNCHANGED evmLate
  /\ UNCHANGED <<evmRow, evmCache, transfers, evmTxs, closedAt, receipts>>

\* evm_check on the dashboard reads the registry.
EvmChecked(r) ==
  /\ evmReq[r].st = "fetch"
  /\ evmReq' = [evmReq EXCEPT ![r] = [st |-> "fetched", tx |-> evmReq[r].tx,
                                       since |-> evmReq[r].since, state |-> evmRow]]
  /\ UNCHANGED <<evmRow, evmCache, evmSent, transfers, evmTxs, closedAt, evmLate, receipts>>

\* fetch_evm_state returns; an error counts as disabled and is cached like an answer.
EvmFetched(r) ==
  /\ evmReq[r].st \in {"fetch", "fetched"}
  /\ \E s \in Switches :
       /\ \/ s = disabled
          \/ /\ evmReq[r].st = "fetched" /\ clock - evmReq[r].since <= HttpTimeout
             /\ s = evmReq[r].state
       /\ evmCache' = [state |-> s, at |-> clock]
       /\ IF Open(s) THEN LetIn(r, evmReq[r].tx)
          ELSE evmReq' = [evmReq EXCEPT ![r] = Idle] /\ UNCHANGED evmLate
  /\ UNCHANGED <<evmRow, evmSent, transfers, evmTxs, closedAt, receipts>>

\* eth_send_raw_transaction up to the nonce: the events of some node, none if no node answers.
CheckNonce(r) ==
  /\ evmReq[r].st = "nonce"
  /\ \E current \in {0} \cup {get_nonce(n, evmReq[r].tx.from) : n \in Nodes} :
       evmReq' = [evmReq EXCEPT ![r] =
         IF evmReq[r].tx.chain = Chain /\ evmReq[r].tx.nonce = current
         THEN [@ EXCEPT !.st = "write"] ELSE Idle]
  /\ UNCHANGED <<evmRow, evmCache, evmSent, transfers, evmTxs, closedAt, evmLate, receipts>>

\* Faulty variant: the last error is forgotten, the wallet is told the hash in any case.
HashReturnedAlways(S, answered) == TRUE

\* The hash is returned when a node answered, and when there was no node to ask.
HashReturned(S, answered) == answered \in S \/ (S = {} /\ MeshMayBeEmpty)

\* The fan-out: the nodes of S take the transfer, one of them answers or none does.
FanOut(r) ==
  /\ evmReq[r].st = "write"
  /\ LET t == evmReq[r].tx IN
       \E S \in SUBSET {n \in Nodes : NodeTransfer(n, t)} : \E answered \in S \cup {NoValue} :
         /\ transfers' = [n \in Nodes |-> IF n \in S THEN transfers[n] \cup {t} ELSE transfers[n]]
         /\ evmTxs' = IF HashReturned(S, answered) THEN evmTxs \cup {t} ELSE evmTxs
         /\ receipts' = IF HashReturned(S, answered) THEN receipts \cup {t} ELSE receipts
  /\ evmReq' = [evmReq EXCEPT ![r] = Idle]
  /\ UNCHANGED <<evmRow, evmCache, evmSent, closedAt, evmLate>>

\* eth_getTransactionByHash and eth_getTransactionReceipt: the local copy, else a node's events.
eth_get_transaction_receipt(t) ==
  /\ t \in evmTxs \/ \E n \in Nodes : t \in transfers[n]
  /\ receipts' = receipts \cup {t}
  /\ UNCHANGED <<evmRow, evmCache, evmReq, evmSent, transfers, evmTxs, closedAt, evmLate>>

EvmReplicate(n, m) ==
  /\ \E t \in transfers[n] \ transfers[m] : transfers' = [transfers EXCEPT ![m] = @ \cup {t}]
  /\ UNCHANGED <<evmRow, evmCache, evmReq, evmSent, evmTxs, closedAt, evmLate, receipts>>

\* The dashboard switches the bucket: enable, pause, resume, disable.
SwitchEvm(s) ==
  /\ s # evmRow /\ evmRow' = s
  /\ closedAt' = IF Open(s) THEN Never ELSE IF Open(evmRow) THEN clock ELSE closedAt
  /\ UNCHANGED <<evmCache, evmReq, evmSent, transfers, evmTxs, evmLate, receipts>>

WalletStep ==
  \/ \E r \in Requests : \E t \in Txs : SendReceived(r, t)
  \/ \E r \in Requests : EvmChecked(r) \/ EvmFetched(r) \/ CheckNonce(r) \/ FanOut(r)
  \/ \E t \in Txs : eth_get_transaction_receipt(t)
  \/ \E n, m \in Nodes : EvmReplicate(n, m)

EvmNext ==
  \/ traffic = "keys" /\ Next /\ UNCHANGED <<traffic, evmVars>>
  \/ traffic = "wallet" /\ WalletStep /\ UNCHANGED <<traffic, gwVars>>
  \/ /\ traffic = "wallet" /\ Spend /\ \E s \in Switches : SwitchEvm(s)
     /\ UNCHANGED <<traffic, auth, clock, dashVars, cache, req, sent, meshVars, late, access>>
  \/ /\ traffic = "wallet" /\ Tick /\ UNCHANGED <<traffic, evmVars>>

EvmSpec == EvmInit /\ [][EvmNext]_vars

\* Closing a bucket for transfers takes hold: none is let in later than the cache's lifetime
\* plus one HTTP timeout after the dashboard closed it; both count, because refreshed_at is
\* taken when the answer is there (ensure_evm_ready, fetch_evm_state).
TransfersEnd == evmLate <= EvmTtl + HttpTimeout

\* A hash or a receipt with status 1 is given for transfers some node has, also when nodes
\* answered late, failed, or held different balances (eth_send_raw_transaction, evm_txs).
ReceiptMeansStored == \A t \in receipts : \E n \in Nodes : t \in transfers[n]
=============================================================================
