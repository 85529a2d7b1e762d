------------------------------ MODULE SwapFlow ------------------------------
(***************************************************************************)
(* A swap against the pool: the form and the quote computed from it, the   *)
(* request frozen for the confirmation, its dispatch, and the receipt that *)
(* is settled from the activity rows.                                      *)
(* cc-wallet-app: controller/swap.rs, state.rs; cc-wallet-domain: swap.rs; *)
(* cc-wallet-chain: wallet_service.rs (prepare_swap, build_swap_transfer); *)
(* cc-wallet-tycho: ccdex.rs.                                              *)
(*                                                                         *)
(* LateAnswers models which answers to a pool request are used; here a     *)
(* pool may be loaded at any time.  External: the pool pays out, or        *)
(* bounces, some time after the swap's own row.                            *)
(***************************************************************************)
EXTENDS Naturals, FiniteSets

CONSTANTS
    Coin,      \* the native coin
    Tokens,      \* the other assets the wallet knows
    Pools,       \* pool snapshots: reserves, fee, paused
    SwapAmounts,     \* amounts the user may type, 0 for no amount
    Slippages,   \* tolerances the user may choose
    Denom,       \* FEE_DENOM
    Gas,         \* SWAP_NATIVE_CUSHION
    Balance,     \* balance of every asset
    MaxSwaps,    \* bound: swaps dispatched
    MaxSwapRows      \* bound: activity rows

NoSwap == "-"
SwapAssets == {Coin} \cup Tokens

\* Tolerances are capped (MAX_SLIPPAGE_BPS) well below the denominator; a pool
\* may report any fee.
ASSUME SwapAssumptions ==
    /\ Tokens # {} /\ Slippages # {} /\ 0 \in SwapAmounts
    /\ Denom \in Nat \ {0} /\ Slippages \subseteq 0..Denom /\ SwapAmounts \subseteq Nat
    /\ Pools \subseteq [reserves : [SwapAssets -> Nat], fee : Nat, paused : BOOLEAN]
    /\ Gas \in Nat /\ Balance \in Nat /\ MaxSwaps \in Nat /\ MaxSwapRows \in Nat

-----------------------------------------------------------------------------
(* Pure functions                                                          *)

NoPool == [reserves |-> [a \in SwapAssets |-> 0], fee |-> 0, paused |-> TRUE]
NoQuote == [in |-> 0, out |-> 0, min |-> 0, ok |-> FALSE]

\* expected_out: the constant product with the fee taken off the input, every
\* division rounded down.
ExpectedOut(reserveIn, reserveOut, dx, fee) ==
    LET net == (dx * (Denom - fee)) \div Denom IN
    IF reserveIn = 0 \/ net = 0 THEN 0 ELSE (reserveOut * net) \div (reserveIn + net)

MinOut(out, slippage) == (out * (Denom - slippage)) \div Denom

\* quote_swap; no quote without a pool, an amount, or with an absurd fee.
QuoteOf(p, f) ==
    IF p = NoPool \/ f.amount = 0 THEN NoQuote
    ELSE IF p.fee >= Denom THEN NoQuote
    ELSE LET out == ExpectedOut(p.reserves[f.from], p.reserves[f.to], f.amount, p.fee)
         IN  [in |-> f.amount, out |-> out, min |-> MinOut(out, f.slippage), ok |-> TRUE]

-----------------------------------------------------------------------------
VARIABLES
    form,      \* SwapForm; amount 0 is no amount
    typedOk,   \* the tolerance as typed can be read
    pool,      \* swap.pool
    quote,     \* swap.quote
    pending,   \* pending_swap, with the figures of swap.confirm
    intent,    \* swap_in_flight
    flying,    \* requests handed to the network layer, not answered
    swapping,  \* swap.swapping
    receipt,   \* swap.receipt
    rows,      \* activity rows, each of one swap, numbered by logical time
    count      \* swaps dispatched

swapVars == <<form, typedOk, pool, quote, pending, intent, flying, swapping, receipt, rows, count>>

NoRequest == [n |-> 0, from |-> NoSwap, to |-> NoSwap, amount |-> 0, min |-> 0,
              slippage |-> 0, shown |-> 0]
NoReceipt == [n |-> 0, from |-> NoSwap, to |-> NoSwap, settledBy |-> 0]

\* Types; a request or a receipt numbered 0 stands for none.
SwapTypeOK ==
    /\ form \in [from : SwapAssets, to : SwapAssets, amount : SwapAmounts, slippage : Slippages]
    /\ typedOk \in BOOLEAN /\ pool \in Pools \cup {NoPool} /\ quote.ok \in BOOLEAN
    /\ pending.from \in SwapAssets \cup {NoSwap} /\ intent.n \in 0..MaxSwaps
    /\ Cardinality(flying) <= 1 /\ swapping \in BOOLEAN
    /\ receipt.n \in 0..MaxSwaps /\ receipt.settledBy \in 0..MaxSwapRows
    /\ Cardinality(rows) <= MaxSwapRows /\ count \in 0..MaxSwaps

SwapInit ==
    /\ form = [from |-> Coin, to |-> CHOOSE t \in Tokens : TRUE, amount |-> 0,
               slippage |-> CHOOSE s \in Slippages : TRUE]
    /\ typedOk = TRUE /\ pool = NoPool /\ quote = NoQuote
    /\ pending = NoRequest /\ intent = NoRequest /\ flying = {} /\ swapping = FALSE
    /\ receipt = NoReceipt /\ rows = {} /\ count = 0

-----------------------------------------------------------------------------
(* The form                                                                *)

\* recompute_swap_quote, with the form and the pool of after the change.
Recomputed(p, f) == form' = f /\ pool' = p /\ quote' = QuoteOf(p, f)

Supported(p) == {a \in SwapAssets : p.reserves[a] > 0}

\* align_swap_form_with_pool.  (Which of the other assets comes first is the
\* order of all_supported_assets.)
Aligned(p, f) ==
    IF Supported(p) = {} THEN f
    ELSE LET from == IF f.from \in Supported(p) THEN f.from ELSE CHOOSE a \in Supported(p) : TRUE
             others == Supported(p) \ {from}
             to == IF (f.to \notin Supported(p) \/ f.to = from) /\ others # {}
                   THEN CHOOSE a \in others : TRUE ELSE f.to
         IN  [f EXCEPT !.from = from, !.to = to]

\* A plausible bug: a new pool state leaves the quote as it was.
MutPoolKeepsQuote(p) ==
    /\ form' = Aligned(p, form) /\ pool' = p
    /\ UNCHANGED <<quote, typedOk, pending, intent, flying, swapping, receipt, rows, count>>

PoolLoaded(p) ==
    /\ Recomputed(p, Aligned(p, form))
    /\ UNCHANGED <<typedOk, pending, intent, flying, swapping, receipt, rows, count>>

PoolFailed ==
    /\ pool' = NoPool /\ quote' = NoQuote
    /\ UNCHANGED <<form, typedOk, pending, intent, flying, swapping, receipt, rows, count>>

EditForm(f) ==
    /\ Recomputed(pool, f)
    /\ UNCHANGED <<typedOk, pending, intent, flying, swapping, receipt, rows, count>>

\* set_swap_from_token, set_swap_to_token: the flip that should keep the sides
\* apart exchanges two equal ones.
SetFromToken(a) == EditForm([form EXCEPT !.from = a])
SetToToken(a) == EditForm([form EXCEPT !.to = a])
FlipSwap == EditForm([form EXCEPT !.from = form.to, !.to = form.from])
SetAmount(x) == EditForm([form EXCEPT !.amount = x])

\* set_swap_slippage, step_swap_slippage; edit_swap_slippage with a text that
\* can be read.
SetSlippage(s) ==
    /\ typedOk' = TRUE /\ Recomputed(pool, [form EXCEPT !.slippage = s])
    /\ UNCHANGED <<pending, intent, flying, swapping, receipt, rows, count>>

\* edit_swap_slippage with one that cannot.
TypeNonsense ==
    /\ typedOk' = FALSE
    /\ UNCHANGED <<form, pool, quote, pending, intent, flying, swapping, receipt, rows, count>>

-----------------------------------------------------------------------------
(* The swap                                                                *)

\* swap_button_enabled, SwapRequest::new and can_afford_swap.
SwapReady ==
    /\ pending = NoRequest /\ ~swapping /\ typedOk
    /\ pool # NoPool /\ form.from # form.to /\ form.amount > 0
    /\ ~pool.paused
    /\ form.amount <= Balance
    /\ (IF form.from = Coin THEN form.amount ELSE 0) + Gas <= Balance

\* request_swap freezes the request and the figures the dialog shows.
RequestSwap ==
    /\ SwapReady
    /\ pending' = [n |-> 0, from |-> form.from, to |-> form.to, amount |-> form.amount,
                   min |-> quote.min, slippage |-> form.slippage, shown |-> quote.out]
    /\ UNCHANGED <<form, typedOk, pool, quote, intent, flying, swapping, receipt, rows, count>>

\* cancel_auth
Cancel ==
    /\ pending # NoRequest
    /\ pending' = NoRequest
    /\ UNCHANGED <<form, typedOk, pool, quote, intent, flying, swapping, receipt, rows, count>>

Signed(r) == [r EXCEPT !.n = count + 1]

\* dispatch_authorized_swap; the receipt will quote what is expected now.
DispatchAuthorizedSwap ==
    /\ pending # NoRequest /\ count < MaxSwaps
    /\ count' = count + 1
    /\ intent' = [Signed(pending) EXCEPT !.shown = quote.out]
    /\ flying' = flying \cup {Signed(pending)} /\ swapping' = TRUE /\ pending' = NoRequest
    /\ UNCHANGED <<form, typedOk, pool, quote, receipt, rows>>

-----------------------------------------------------------------------------
(* The receipt                                                             *)

SentRow(rs, n) == {r \in rs : r.kind = "out" /\ r.n = n}
Later(r, sent) == r.lt > sent.lt

\* reconcile_swap_receipt: rows from the pool, later than the swap's own row,
\* that carry the asset the swap pays out, or, bounced, the one it took.
Paying(rc, rs) ==
    {r \in rs : /\ r.kind = "in"
                /\ \E sent \in SentRow(rs, rc.n) : Later(r, sent)
                /\ r.asset = IF r.bounced THEN rc.from ELSE rc.to}

Reconciled(rc, rs) ==
    IF rc = NoReceipt \/ rc.settledBy # 0 \/ Paying(rc, rs) = {} THEN rc
    ELSE [rc EXCEPT !.settledBy = CHOOSE lt \in {r.lt : r \in Paying(rc, rs)} :
                                     \A r \in Paying(rc, rs) : lt <= r.lt]

\* apply_swap_finished: the message reached a node.
Finished(r) ==
    /\ r \in flying
    /\ flying' = flying \ {r} /\ swapping' = FALSE /\ intent' = NoRequest
    /\ receipt' = IF intent = NoRequest THEN NoReceipt
                  ELSE Reconciled([n |-> r.n, from |-> intent.from, to |-> intent.to,
                                   settledBy |-> 0], rows)
    /\ form' = [form EXCEPT !.amount = 0] /\ quote' = NoQuote
    /\ UNCHANGED <<typedOk, pool, pending, rows, count>>

\* It did not, or could not be prepared.
NotSent(r) ==
    /\ r \in flying
    /\ flying' = flying \ {r} /\ swapping' = FALSE /\ intent' = NoRequest
    /\ UNCHANGED <<form, typedOk, pool, quote, pending, receipt, rows, count>>

\* activate_seed: reset_swap_for_new_identity.
NewIdentity ==
    /\ pending' = NoRequest /\ intent' = NoRequest /\ receipt' = NoReceipt
    /\ form' = [form EXCEPT !.amount = 0] /\ quote' = NoQuote
    /\ rows' = {}
    /\ UNCHANGED <<typedOk, pool, flying, swapping, count>>

\* A row is merged into the activity and the receipt reconciled.
Merge(r) ==
    /\ Cardinality(rows) < MaxSwapRows
    /\ rows' = rows \cup {r} /\ receipt' = Reconciled(receipt, rows \cup {r})
    /\ UNCHANGED <<form, typedOk, pool, quote, pending, intent, flying, swapping, count>>

\* The wallet's own row, once the swap has been sent.
OwnRow ==
    /\ receipt.n # 0 /\ SentRow(rows, receipt.n) = {}
    /\ Merge([lt |-> Cardinality(rows) + 1, kind |-> "out", n |-> receipt.n,
              asset |-> receipt.from, to |-> receipt.to, bounced |-> FALSE])

\* External: the pool answers a swap that reached the chain, once.
PoolAnswers(sent, bounced) ==
    /\ sent \in rows /\ sent.kind = "out"
    /\ ~\E r \in rows : r.kind = "in" /\ r.n = sent.n
    /\ Merge([lt |-> Cardinality(rows) + 1, kind |-> "in", n |-> sent.n,
              asset |-> IF bounced THEN sent.asset ELSE sent.to,
              to |-> NoSwap, bounced |-> bounced])

SwapNext ==
    \/ \E p \in Pools : PoolLoaded(p)
    \/ PoolFailed \/ FlipSwap \/ TypeNonsense
    \/ \E a \in SwapAssets : SetFromToken(a) \/ SetToToken(a)
    \/ \E x \in SwapAmounts : SetAmount(x)
    \/ \E s \in Slippages : SetSlippage(s)
    \/ RequestSwap \/ Cancel \/ DispatchAuthorizedSwap \/ NewIdentity \/ OwnRow
    \/ \E r \in flying : Finished(r) \/ NotSent(r)
    \/ \E r \in rows, bounced \in BOOLEAN : PoolAnswers(r, bounced)

SwapSpec == SwapInit /\ [][SwapNext]_swapVars

-----------------------------------------------------------------------------
\* The quote on the page is the quote of the form and the pool on the page,
\* whichever of them changed last: no setter leaves an older one standing.
QuoteIsCurrent == quote = NoQuote \/ quote = QuoteOf(pool, form)

\* The limit a swap is signed with is the one that follows from the figures the
\* user confirmed, whatever the pool did while the dialog was open.
SignedAsConfirmed == \A r \in flying : r.min = MinOut(r.shown, r.slippage)

\* What the wallet promises never exceeds what the pool pays by the constant
\* product, and the signed limit never exceeds what is promised.
QuoteIsSafe ==
    quote.ok => /\ quote.min <= quote.out
                /\ (pool.reserves[form.from] + quote.in) * (pool.reserves[form.to] - quote.out)
                     >= pool.reserves[form.from] * pool.reserves[form.to]

\* A receipt is settled by its own swap's answer, as long as every earlier swap
\* had been answered before this one was sent.  (Two swaps under way at once:
\* the answer to the first settles the receipt of the second.)
ReceiptIsOwn ==
    \A sent \in SentRow(rows, receipt.n), r \in rows :
        /\ receipt.settledBy = r.lt
        /\ \A q \in rows : (q.kind = "in" /\ q.n # receipt.n) => q.lt < sent.lt
        => r.n = receipt.n

\* A swap is signed with the figures that were confirmed, from a quote of the
\* pool and the form on screen that the pool can pay, and its receipt is settled
\* by a payout that came after it (swap.rs).
SwapAsConfirmed == SwapTypeOK /\ QuoteIsCurrent /\ SignedAsConfirmed /\ QuoteIsSafe /\ ReceiptIsOwn
=============================================================================
