----------------------------- MODULE Settlement -----------------------------
(* Two clients of the ledger. A treasury pays one airdrop allocation through a   *)
(* journal that survives crashes (crates/mini-airdrop-treasury/src/               *)
(* payout_journal.rs), and an escrowed engagement asks what became of its claim   *)
(* (crates/mini-engagement). Whoever signs for the treasury may hand the journal  *)
(* another claim for the same allocation at any time; a dispatch may be lost.     *)
EXTENDS Ledger

CONSTANTS
    Payouts,    \* the claims that pay the allocation: payer, payee and amount agree
    Escrow,     \* the engagement's escrow claim
    Deadline,   \* the engagement's deadline_ms
    NoClaim,
    MaxCrashes  \* bound

SettlementAssumption ==
    /\ Payouts \subseteq Claims /\ Escrow \in Claims /\ NoClaim \notin Claims
    /\ \A c, d \in Payouts : <<c.payer, c.payee, c.amount>> = <<d.payer, d.payee, d.amount>>

VARIABLES
    client,     \* which client this behaviour has
    journal,    \* the payout file: phase and claim
    open,       \* a process holds the journal's lock
    outgoing,   \* the claim that submit() is about to dispatch
    sent,       \* the claims that reached the proposers
    crashes,
    work        \* the engagement: state and amount released

clientVars == <<client, journal, open, outgoing, sent, crashes, work>>
vars == <<ledgerVars, clientVars>>

-----------------------------------------------------------------------------
(* The journal. Every write is one atomic_replace, so a crash in it leaves the   *)
(* old file or the new one.                                                      *)
Write(phase, claim) == journal' = [phase |-> phase, claim |-> claim]

Idle == open /\ outgoing = NoClaim

Open == /\ client = "payout" /\ ~open
        /\ open' = TRUE
        /\ IF journal.phase = "absent" THEN Write("Pending", NoClaim) ELSE UNCHANGED journal
        /\ UNCHANGED <<client, outgoing, sent, crashes, work>>

authorize == /\ Idle
             /\ IF journal.phase = "Pending" THEN Write("Authorized", NoClaim)
                                             ELSE UNCHANGED journal
             /\ UNCHANGED <<client, open, outgoing, sent, crashes, work>>

(* The claim is on disk before it is dispatched; another one is refused. Mutant: *)
(* the newest claim replaces the one before.                                     *)
submit_latest(c) ==
    /\ Idle /\ Verified(c) /\ c.flaw # "network"
    /\ journal.phase \in {"Authorized", "Submitted"}
    /\ Write("Submitted", c)
    /\ outgoing' = c
    /\ UNCHANGED <<client, open, sent, crashes, work>>
submit(c) ==
    /\ Idle /\ Verified(c) /\ c.flaw # "network"
    /\ journal.phase \in {"Authorized", "Submitted"}
    /\ journal.claim \in {NoClaim, c}
    /\ Write("Submitted", c)
    /\ outgoing' = c
    /\ UNCHANGED <<client, open, sent, crashes, work>>

dispatch == /\ outgoing # NoClaim
            /\ sent' \in {sent, sent \cup {outgoing}}
            /\ outgoing' = NoClaim
            /\ UNCHANGED <<client, journal, open, crashes, work>>

(* PayoutJournal::reconcile: only the exact claim at the payer's mark is proof.  *)
settle == /\ Idle /\ journal.claim # NoClaim
          /\ journal.claim.payer \in DOMAIN ledger.finalized
          /\ ledger.finalized[journal.claim.payer] = journal.claim
          /\ Write("Finalized", journal.claim)
          /\ UNCHANGED <<client, open, outgoing, sent, crashes, work>>

Crash == /\ open /\ crashes < MaxCrashes
         /\ open' = FALSE /\ outgoing' = NoClaim
         /\ crashes' = crashes + 1
         /\ UNCHANGED <<client, journal, sent, work>>

-----------------------------------------------------------------------------
(* The engagement.                                                               *)
Move(from, to) == /\ client = "engagement" /\ work.state \in from
                  /\ work' = [work EXCEPT !.state = to]
                  /\ UNCHANGED <<client, journal, open, outgoing, sent, crashes>>

Live == {"Accepted", "Milestone"}
accept == Move({"Offered"}, "Accepted")
complete == Move(Live, "Completed")
dispute == Move(Live, "Disputed")
timeout == now >= Deadline /\ Move(Live \cup {"Offered", "Disputed"}, "TimedOut")

release_milestone(amount) ==
    /\ client = "engagement" /\ work.state \in Live
    /\ work.released + amount <= Escrow.amount
    /\ work' = [state |-> "Milestone", released |-> work.released + amount]
    /\ UNCHANGED <<client, journal, open, outgoing, sent, crashes>>

canonical_completion_status ==
    LET truth == reconcile(ledger, Escrow)
    IN  IF truth = "Finalized"
        THEN IF work.state = "Completed" THEN "CanonicallyCompleted"
                                         ELSE "FinalizedWithoutLocalCompletion"
        ELSE IF truth = "PendingCanonical" THEN "Pending" ELSE truth

-----------------------------------------------------------------------------
Init == /\ LedgerInit
        /\ client \in {"payout", "engagement", "proposer", "none"}
        /\ (client = "none") <=> (ledger = Shielded)
        /\ journal = [phase |-> "absent", claim |-> NoClaim]
        /\ open = FALSE /\ outgoing = NoClaim /\ crashes = 0
        /\ sent = CASE client = "payout" -> Claims \ Payouts
                    [] client = "none" -> Payouts
                    [] OTHER -> Claims
        /\ work = [state |-> "Offered", released |-> 0]

Journal == \/ Open \/ authorize \/ dispatch \/ settle \/ Crash
           \/ \E c \in Payouts : submit(c)

Engagement == \/ accept \/ complete \/ dispute \/ timeout
              \/ \E amount \in 1..Escrow.amount : release_milestone(amount)

(* A proposer's pool, a treasury's journal and an engagement meet only in the     *)
(* ledger, so a behaviour has one of them.                                        *)
Next == \/ (Blocks(sent) \/ Tick) /\ UNCHANGED clientVars
        \/ client = "proposer" /\ Pool(sent) /\ UNCHANGED clientVars
        \/ (Journal \/ Engagement) /\ UNCHANGED ledgerVars

Spec == Init /\ [][Next]_vars

-----------------------------------------------------------------------------
(* An allocation is paid at most once, whatever claims the signer offers and      *)
(* wherever the journal's process stops, and a journal that says Finalized is     *)
(* about the claim that paid it (submit writes before it dispatches and refuses   *)
(* another claim; the ledger runs a claim once).                                  *)
PaidOnce ==
    LET paid == {i \in DOMAIN won : won[i] \in Payouts}
    IN  client = "payout" =>
            /\ Cardinality(paid) <= 1
            /\ journal.phase = "Finalized" => \E i \in paid : won[i] = journal.claim

(* An engagement whose status is RejectedConflict never had its escrow paid, as   *)
(* the status documents (canonical_completion_status; the ledger keeps the        *)
(* latest claim of a payer only).                                                 *)
RejectedMeansUnpaid ==
    client = "engagement" /\ canonical_completion_status = "RejectedConflict"
        => Escrow \notin Range(won)

=============================================================================
