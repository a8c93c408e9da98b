------------------------------- MODULE Ledger -------------------------------
(* The settlement ledger: what a finalized block does to balances, sequence    *)
(* numbers, rejections and shielded outputs (crates/mini-execution/src/state.rs *)
(* and shielded.rs), the pool from which a proposer takes its claims            *)
(* (admission.rs), and what a wallet is told about a claim                      *)
(* (crates/mini-settlement/src/reconcile.rs).                                   *)
(*                                                                              *)
(* A claim is its own digest. Signatures, the shielded proof system and the     *)
(* vesting arithmetic are external: a claim says whether it is sound, a spend   *)
(* what its proof lets through, an epoch how much it releases. Maps are         *)
(* functions whose domain is the set of rows, because a row of zero is not the  *)
(* same as no row to the snapshot format.                                       *)
EXTENDS Integers, FiniteSets, FiniteSetsExt, SequencesExt, TLC

CONSTANTS
    Accounts,       \* account keys, numbers: a candidate body is sorted by them
    Claims,         \* the payment claims in circulation
    Spends,         \* the shielded claims
    Allocation,     \* transparent genesis: account -> amount
    Funding,        \* shielded genesis: output -> amount
    MaxPool,        \* AdmissionPolicy::max_claims, and MAX_CLAIMS_PER_BLOCK
    MaxPerPayer,    \* AdmissionPolicy::max_claims_per_payer
    MaxBody,        \* bound: claims, and spends, in a body
    MaxHeight,      \* bound: blocks
    MaxIssued,      \* bound: what epochs release
    EndOfTime       \* bound: the device clock

Flaws == {"none", "signature", "network", "payee"}
Amounts(f) == MapThenSumSet(LAMBDA k : f[k], DOMAIN f)
Insert(f, k, v) == (k :> v) @@ f
Without(f, k) == [x \in DOMAIN f \ {k} |-> f[x]]

LedgerAssumption ==
    /\ Accounts \subseteq Nat
    /\ \A c \in Claims : /\ {c.payer, c.payee} \subseteq Accounts
                         /\ {c.amount, c.sequence, c.until} \subseteq Nat
                         /\ c.flaw \in Flaws
    \* with_network_and_genesis_balances refuses an allocation of zero.
    /\ \A a \in DOMAIN Allocation : a \in Accounts /\ Allocation[a] > 0

VARIABLES
    ledger,     \* LedgerState
    height,     \* LedgerChain::height
    pool,       \* PaymentAdmissionPool::claims
    reserved,   \* payer_reserved_micro
    now,        \* the device clock
    won,        \* history: the claims that executed, in order
    fresh       \* history: no block since the pool was last revalidated

ledgerVars == <<ledger, height, pool, reserved, now, won, fresh>>

-----------------------------------------------------------------------------
(* Genesis: all transparent, or all shielded; there is no constructor for both. *)
Genesis(balances, outputs) ==
    [finalized |-> <<>>, rejected |-> <<>>, nullifiers |-> <<>>,
     balances |-> balances, allocated |-> Amounts(balances), unallocated |-> 0,
     funding |-> outputs, outputs |-> DOMAIN outputs, applied |-> <<>>, shielded |-> Amounts(outputs),
     circulating |-> Amounts(balances) + Amounts(outputs)]

Transparent == Genesis(Allocation, <<>>)
Shielded == Genesis(<<>>, Funding)

balance(s, a) == IF a \in DOMAIN s.balances THEN s.balances[a] ELSE 0
Passed(s, c) == c.payer \in DOMAIN s.finalized /\ s.finalized[c.payer].sequence >= c.sequence

(* verify_claim_signature: a zero amount is refused here, and nowhere else.     *)
Verified(c) == c.flaw # "signature" /\ c.amount > 0

-----------------------------------------------------------------------------
(* One claim of a body. A claim that does not verify leaves no trace; the others *)
(* leave a rejection or take effect. Mutant: a claim at the mark runs again.     *)
RefusalBelowMark(s, c) ==
    IF c.flaw = "network" THEN "WrongNetwork"
    ELSE IF c.flaw = "payee" THEN "UnsupportedPayee"
    ELSE IF Passed(s, [c EXCEPT !.sequence = @ + 1]) THEN "StaleSequence"
    ELSE IF balance(s, c.payer) < c.amount THEN "InsufficientFunds"
    ELSE "none"
Refusal(s, c) ==
    IF c.flaw = "network" THEN "WrongNetwork"
    ELSE IF c.flaw = "payee" THEN "UnsupportedPayee"
    ELSE IF Passed(s, c) THEN "StaleSequence"
    ELSE IF balance(s, c.payer) < c.amount THEN "InsufficientFunds"
    ELSE "none"

(* The payer's row goes when it is spent; the payee's is always written.         *)
Transfer(s, c) ==
    LET left == balance(s, c.payer) - c.amount
        debited == IF left = 0 THEN Without(s.balances, c.payer)
                               ELSE Insert(s.balances, c.payer, left)
    IN  IF c.payer = c.payee THEN s.balances
        ELSE Insert(debited, c.payee, balance(s, c.payee) + c.amount)

apply_one_claim(s, c) ==
    CASE ~Verified(c) -> s
      [] Verified(c) /\ Refusal(s, c) # "none" ->
            [s EXCEPT !.rejected = Insert(@, c, Refusal(s, c))]
      [] OTHER -> [s EXCEPT !.balances = Transfer(s, c),
                            !.rejected = Without(@, c),
                            !.finalized = Insert(@, c.payer, c)]

Wins(s, c) == Verified(c) /\ Refusal(s, c) = "none"

(* A body's claims in order, and the ones of them that win.                      *)
RunClaims(s, claims) ==
    FoldLeft(LAMBDA acc, c : [state |-> apply_one_claim(acc.state, c),
                              won |-> IF Wins(acc.state, c) THEN Append(acc.won, c) ELSE acc.won],
             [state |-> s, won |-> <<>>], claims)

-----------------------------------------------------------------------------
(* Shielded spends. One whose images another claim holds is passed over; any     *)
(* other defect fails the whole body, so the fold carries ok. Mutant: one free   *)
(* image is enough.                                                              *)
Held(s, x, k) == k \in DOMAIN s.nullifiers /\ s.nullifiers[k] # x
TakeableInPart(s, x) == \E k \in x.images : ~Held(s, x, k)
Takeable(s, x) == \A k \in x.images : ~Held(s, x, k)

Applies(s, x) == /\ x.ring # {} /\ x.ring \subseteq s.outputs
                 /\ x.outputs # {} /\ x.outputs \cap s.outputs = {}
                 /\ s.shielded >= x.fee

(* ShieldedLedger::apply. A repeat of an applied claim has no effect and no fee. *)
apply(s, x) ==
    IF x \in Range(s.applied) THEN s
    ELSE [s EXCEPT !.outputs = @ \cup x.outputs, !.applied = Append(@, x),
                   !.shielded = @ - x.fee, !.unallocated = @ + x.fee]

apply_nullifiers(s, spends) ==
    FoldLeft(LAMBDA acc, x :
                LET t == acc.state IN
                CASE ~acc.ok \/ ~x.valid -> [acc EXCEPT !.ok = FALSE]
                  [] acc.ok /\ x.valid /\ ~Takeable(t, x) -> acc
                  [] OTHER ->
                     [ok |-> x \in Range(t.applied) \/ Applies(t, x),
                      state |-> [apply(t, x) EXCEPT
                                   !.nullifiers = [k \in x.images |-> x] @@ @]],
             [state |-> s, ok |-> TRUE], spends)

(* The block's epoch releases supply to nobody in particular.                    *)
Issue(s, released) == [s EXCEPT !.circulating = @ + released, !.unallocated = @ + released]

SupplyConserved(s) == s.allocated + s.unallocated + s.shielded = s.circulating

(* apply_block_with_verifier, at the height after this one; a body that fails    *)
(* there gets no honest vote and is no block.                                    *)
Block(claims, spends, released) ==
    LET ran == RunClaims(ledger, claims)
        spent == apply_nullifiers(ran.state, spends)
        next == Issue(spent.state, released)
    IN  /\ height < MaxHeight
        /\ next.circulating <= ledger.allocated + Amounts(ledger.funding) + MaxIssued
        /\ spent.ok /\ SupplyConserved(next)
        /\ ledger' = next
        /\ height' = height + 1
        /\ won' = won \o ran.won
        /\ fresh' = FALSE
        /\ UNCHANGED <<pool, reserved, now>>

-----------------------------------------------------------------------------
(* The admission pool. A rejection for want of funds may be retried.             *)
validate_claim(s, c) ==
    /\ Verified(c) /\ c.flaw = "none" /\ now < c.until
    /\ c \in DOMAIN s.rejected => s.rejected[c] = "InsufficientFunds"
    /\ ~Passed(s, c)

Of(claims, a) == {c \in claims : c.payer = a}
Total(claims) == MapThenSumSet(LAMBDA c : c.amount, claims)

Admit(c) ==
    /\ validate_claim(ledger, c)
    /\ c \notin pool /\ \A d \in Of(pool, c.payer) : d.sequence # c.sequence
    /\ Cardinality(pool) < MaxPool /\ Cardinality(Of(pool, c.payer)) < MaxPerPayer
    /\ reserved[c.payer] + c.amount <= balance(ledger, c.payer)
    /\ pool' = pool \cup {c}
    /\ reserved' = [reserved EXCEPT ![c.payer] = @ + c.amount]
    /\ UNCHANGED <<ledger, height, now, won, fresh>>

(* By payer, then by sequence, cut at the limit.                                 *)
candidates(limit) ==
    LET Before(c, d) == c.payer < d.payer \/ (c.payer = d.payer /\ c.sequence < d.sequence)
        ordered == SetToSortSeq(pool, Before)
    IN  SubSeq(ordered, 1, IF limit < Len(ordered) THEN limit ELSE Len(ordered))

(* In candidate order, the claims that are still valid and still covered.        *)
(* Mutant: each is held against the balance on its own.                          *)
KeptAlone == {c \in pool : validate_claim(ledger, c) /\ c.amount <= balance(ledger, c.payer)}
Kept ==
    FoldLeft(LAMBDA kept, c :
                IF validate_claim(ledger, c)
                   /\ Total(Of(kept, c.payer)) + c.amount <= balance(ledger, c.payer)
                THEN kept \cup {c} ELSE kept,
             {}, candidates(Cardinality(pool)))

(* remove() gives back what each removed claim had reserved, and never goes      *)
(* below zero.                                                                   *)
Release(removed) ==
    [a \in Accounts |-> LET left == reserved[a] - Total(Of(removed, a))
                        IN IF left < 0 THEN 0 ELSE left]

revalidate ==
    /\ pool' = Kept
    /\ reserved' = Release(pool \ Kept)
    /\ fresh' = TRUE
    /\ UNCHANGED <<ledger, height, now, won>>

Tick == /\ now < EndOfTime
        /\ now' = now + 1
        /\ UNCHANGED <<ledger, height, pool, reserved, won, fresh>>

-----------------------------------------------------------------------------
(* What a wallet is told of a claim.                                             *)
reconcile(s, c) ==
    LET at == IF c.payer \in DOMAIN s.finalized THEN s.finalized[c.payer].sequence ELSE -1
        outcome == IF at < c.sequence THEN "PendingCanonical"
                   ELSE IF s.finalized[c.payer] = c THEN "Finalized"
                   ELSE "RejectedConflict"
    IN  IF ~Verified(c) THEN "Err"
        ELSE IF c \in DOMAIN s.rejected THEN "RejectedCanonical"
        ELSE IF outcome = "PendingCanonical" /\ now >= c.until THEN "Expired"
        ELSE outcome

-----------------------------------------------------------------------------
(* What a snapshot of the state must pass to be restored: from_snapshot_bytes,   *)
(* then the replay of the shielded history and the audits of                     *)
(* from_finalized_snapshot.                                                      *)
verify_replay(s) ==
    LET group(x) == {k \in DOMAIN s.nullifiers : s.nullifiers[k] = x}
        replay == FoldLeft(LAMBDA acc, x :
                              [ok |-> acc.ok /\ x.valid /\ group(x) = x.images /\ Applies(acc.state, x),
                               state |-> apply(acc.state, x)],
                           [state |-> Genesis(<<>>, s.funding), ok |-> TRUE], s.applied)
    IN  /\ replay.ok
        /\ Range(s.nullifiers) \subseteq Range(s.applied)
        /\ replay.state.outputs = s.outputs /\ replay.state.shielded = s.shielded

Restores(s) ==
    /\ \A a \in DOMAIN s.balances : s.balances[a] # 0
    /\ SupplyConserved(s)
    /\ Amounts(s.balances) = s.allocated
    /\ verify_replay(s)

LedgerInit ==
    /\ ledger \in {Transparent, Shielded}
    /\ height = 0 /\ now = 0
    /\ pool = {} /\ reserved = [a \in Accounts |-> 0]
    /\ won = <<>> /\ fresh = TRUE

(* The proposers know the claims in sent, and put into a body what they like. On  *)
(* a transparent ledger no spend applies: its ring is unknown.                    *)
Blocks(sent) ==
    \E claims \in BoundedSeq(sent, MaxBody), released \in 0..1,
       spends \in BoundedSeq(IF ledger.funding = <<>> THEN {} ELSE Spends, MaxBody) :
        IsInjective(spends) /\ Block(claims, spends, released)

Pool(sent) == revalidate \/ \E c \in sent : Admit(c)

-----------------------------------------------------------------------------
(* Every balance is the genesis allocation less what the account's winning claims *)
(* paid plus what winning claims paid to it, and no payer ever won twice with one *)
(* sequence number: however often, in whatever order and beside whichever         *)
(* conflicting claim a claim is included, money moves once (apply_one_claim).     *)
MoneyFollowsWinners ==
    LET Sum(Field(_), a) ==
            MapThenSumSet(LAMBDA i : IF Field(won[i]) = a THEN won[i].amount ELSE 0, DOMAIN won)
        start == IF ledger.funding = <<>> THEN Transparent ELSE Shielded
    IN  /\ \A a \in Accounts : balance(ledger, a) = balance(start, a)
                - Sum(LAMBDA c : c.payer, a) + Sum(LAMBDA c : c.payee, a)
        /\ \A i, j \in DOMAIN won :
               i # j => <<won[i].payer, won[i].sequence>> # <<won[j].payer, won[j].sequence>>

(* A state that blocks can produce is one that a snapshot can bring back: no      *)
(* balance row of zero, totals that add up, and a shielded history that replays   *)
(* to the same outputs, images and pool (apply_block against from_snapshot_bytes  *)
(* and verify_replay).                                                            *)
EveryStateRestores == Restores(ledger)

(* Right after a revalidation, and however many claims are admitted since, every  *)
(* prefix of the candidates executes in full: no claim of an honest proposer's    *)
(* body is wasted on a stale number or on money another of its claims spends      *)
(* (admit, revalidate and remove against apply_one_claim).                        *)
PoolExecutes ==
    fresh => \A limit \in 0..Cardinality(pool) :
                RunClaims(ledger, candidates(limit)).won = candidates(limit)

=============================================================================
