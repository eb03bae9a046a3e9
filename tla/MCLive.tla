-------------------------------- MODULE MCLive --------------------------------
(***************************************************************************)
(* Instances for TLC of the liveness properties.  The parts share neither  *)
(* rows nor steps, so one run checks them one at a time: cron says which   *)
(* of them moves, and the others are left alone.                            *)
(***************************************************************************)
EXTENDS Governance

CONSTANTS a1, a2, p1, p2

VARIABLES cron,
          c1, c2, c3, c4, c5, c6, c7,
          s1, s2, s3, s4, s5, s6, s7, s8,
          b1, b2, b3, b4, b5, b6, b7, b8,
          d1, d2, d3, d4, d5, d6, d7

back == <<c1, c2, c3, c4, c5, c6, c7>>
boot == <<s1, s2, s3, s4, s5, s6, s7, s8>>
bal == <<b1, b2, b3, b4, b5, b6, b7, b8>>
dep == <<d1, d2, d3, d4, d5, d6, d7>>
all == <<cron, back, boot, vars, bal, dep>>

Back == INSTANCE BackwardCheck WITH
          StartHeight <- 1, MaxHeight <- 3, InitTip <- 2, Threshold <- 1, MaxRequeues <- 0,
          MaxMissing <- 1, tip <- c1, blocks <- c2, wanted <- c3, check <- c4,
          initial <- c5, due <- c6, skipped <- c7

Boot == INSTANCE Bootstrap WITH
          Processes <- {p1, p2}, Scheduler <- p1, MaxHeight <- 1, Window <- 1,
          MaxStops <- 2, tip <- s1, pc <- s2, client <- s3, chainId <- s4, paused <- s5,
          queued <- s6, unnamed <- s7, stops <- s8

Bal == INSTANCE Ballots WITH
          MaxProposals <- 1, MaxVoters <- 1, MaxCast <- 3, OpenFor <- {"voting"},
          Passes <- {p1, p2}, MaxFailures <- 2, status <- b1, cast <- b2, row <- b3,
          pc <- b4, todo <- b5, read <- b6, found <- b7, failures <- b8

\* Two depositors, of whom the second has more.
TwoOwners == <<a1, a2>>
Amounts == <<1, 2>>

Dep == INSTANCE MillionsDepositors WITH
          MaxDeposit <- 2, Addresses <- {a1, a2}, Owner <- TwoOwners,
          Amount <- Amounts, Passes <- {p1, p2}, Failing <- {p2}, deposit <- d1,
          table <- d2, pc <- d3, page <- d4, read <- d5, known <- d6, shared <- d7

ASSUME Boot!BootstrapAssumption
ASSUME GovernanceAssumption
ASSUME Bal!BallotsAssumption
ASSUME Dep!MillionsDepositorsAssumption

\* The rows of the checks vary only where they are looked at.
LiveInit ==
    /\ cron \in {"checks", "bootstrap", "governance", "ballots", "depositors"}
    /\ Back!Init /\ Boot!Init /\ Init /\ Bal!Init /\ Dep!Init
    /\ cron # "checks" => c2 = 1..2

LiveNext ==
    /\ UNCHANGED cron
    /\ \/ cron = "checks" /\ Back!Next /\ UNCHANGED <<boot, vars, bal, dep>>
       \/ cron = "bootstrap" /\ Boot!Next /\ UNCHANGED <<back, vars, bal, dep>>
       \/ cron = "governance" /\ Next /\ UNCHANGED <<back, boot, bal, dep>>
       \/ cron = "ballots" /\ Bal!Next /\ UNCHANGED <<back, boot, vars, dep>>
       \/ cron = "depositors" /\ Dep!Next /\ UNCHANGED <<back, boot, vars, bal>>

\* The consumers run the checks that are queued.
FairChecks == \A c \in Back!Check : WF_back(cron = "checks" /\ Back!Run(c))

\* The scheduler is started again, and a start goes on.
FairStarts == WF_boot(cron = "bootstrap" /\ Boot!Starting(p1))

\* The passes of p1 go on, and the gateway delivers if it is asked again and again;
\* p2 may stop or fail anywhere.
FairPasses ==
    /\ WF_vars(cron = "governance" /\ Step(p1))
    /\ \A k \in Remote : SF_vars(cron = "governance" /\ at[p1] = k /\ Content(p1))
    /\ WF_bal(cron = "ballots" /\ Bal!Step(p1))
    /\ WF_dep(cron = "depositors" /\ Dep!Pass(p1))

LiveSpec == LiveInit /\ [][LiveNext]_all /\ FairChecks /\ FairStarts /\ FairPasses

ChecksDrain == cron = "checks" => Back!ChecksDrain
QueueIsResumed == cron = "bootstrap" => Boot!QueueIsResumed
KeptDepositIsRanked == cron = "depositors" => Dep!KeptDepositIsRanked
===============================================================================
