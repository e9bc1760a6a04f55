-------------------------------- MODULE MCParts --------------------------------
(* Parts that never meet, checked side by side: a behaviour runs one of them and  *)
(* leaves the others where they start.                                            *)
EXTENDS RoomTabs, BearerNotes, FiniteSetsExt, TLC

CONSTANTS alice, bob, u1, u2, e1, e2, r1, r2

VARIABLES
    part,                                                         \* the part that runs
    wallet, stored, prop, net, fresh, astray, severed, twice, rdvBudget, \* Rendezvous
    kind, pc, open, makingOffer, young, doing, pairWire, budget,  \* MeshPair
    size, cut, got,                                               \* Overlay
    group, voted, graphMoves                                      \* Governance

Usd(n) == [currency |-> "USD", denomination |-> n]
Eur(n) == [currency |-> "EUR", denomination |-> n]
CurrencyOf == u1 :> "USD" @@ u2 :> "USD" @@ e1 :> "EUR" @@ e2 :> "EUR"
PursesOf == alice :> {{u1, u2}} @@ bob :> {{e1}, {e2}}
SpecsOf == {Usd(1), Usd(2), Eur(1)}

Rdv == INSTANCE Rendezvous WITH cut <- severed, budget <- rdvBudget
Mesh == INSTANCE MeshPair WITH
    MaxPcs <- 6, MaxRosters <- 1, MaxMedia <- 1, MaxFaults <- 1, wire <- pairWire
Flood == INSTANCE Overlay WITH Rooms <- {5, 6, 7}, MaxCut <- 1

People == {"a", "b", "c", "d"}
Rated(r, m) == <<r, m>> \in {<<"a", "b">>, <<"b", "c">>}
Gov == INSTANCE Governance WITH
    Ids <- People, Enrolled <- <<"c", "b", "a">>, Founder <- "a",
    Webs <- {[r \in People |-> [m \in People |-> 0]],
             [r \in People |-> [m \in People |-> IF Rated(r, m) THEN 4 ELSE 0]]},
    TrustMax <- 5, Ratings <- {4}, MaxMoves <- 3, moves <- graphMoves

\* One tab: with more envelopes than fit the ring, and with a reload.
OneTab == INSTANCE RoomTabs WITH MaxFrames <- 4, MaxReloads <- 0
Reloaded == INSTANCE RoomTabs WITH MaxFrames <- 3, MaxReloads <- 1

\* The other tab is opened once.  Without a reload the page never reads what that one saved:
\* only a duplicate, which signs in its name, matters there.
OpenedOnce == OpenTab => other = None /\ (twin' \/ part = "reload")

rdvVars == <<wallet, stored, prop, net, fresh, astray, severed, twice, rdvBudget>>
meshVars == <<kind, pc, open, makingOffer, young, doing, pairWire, budget>>
floodVars == <<size, cut, got>>
govVars == <<group, voted, graphMoves>>
partVars == <<part, vars, rdvVars, meshVars, floodVars, govVars>>

PartsInit ==
    /\ part \in {"tabs", "one tab", "reload", "rendezvous", "mesh", "flood", "governance"}
    /\ Init /\ (part # "tabs" => tabs.shown = r1)
    /\ Rdv!Init
    /\ Mesh!Init /\ (part # "mesh" => kind = [p \in {"a", "b"} |-> "node"])
    /\ Flood!Init /\ (part # "flood" => size = 5 /\ cut = {})
    /\ Gov!Init /\ (part # "governance" => group.trust["a"]["b"] = 0)

PartsNext ==
    \/ /\ part = "tabs" /\ Next
       /\ OpenedOnce
       /\ UNCHANGED <<part, rdvVars, meshVars, floodVars, govVars>>
    \/ /\ \/ part = "one tab" /\ OneTab!Next
          \/ part = "reload" /\ Reloaded!Next
       /\ tabs'.shown = r1 /\ tabs'.open = Rooms /\ wire'[r2] = {} /\ OpenedOnce
       /\ UNCHANGED <<part, rdvVars, meshVars, floodVars, govVars>>
    \/ /\ part = "rendezvous" /\ Rdv!Next
       /\ UNCHANGED <<part, vars, meshVars, floodVars, govVars>>
    \/ /\ part = "mesh" /\ Mesh!Next
       /\ UNCHANGED <<part, vars, rdvVars, floodVars, govVars>>
    \/ /\ part = "flood" /\ Flood!Next
       /\ UNCHANGED <<part, vars, rdvVars, meshVars, govVars>>
    \/ /\ part = "governance" /\ Gov!Next
       /\ UNCHANGED <<part, vars, rdvVars, meshVars, floodVars>>

PartsSpec ==
    /\ PartsInit /\ [][PartsNext]_partVars
    /\ Mesh!Fairness

-----------------------------------------------------------------------------
\* The variables of the part that runs have their types.
PartsTypeOK ==
    /\ TypeOK
    /\ part = "rendezvous" => Rdv!TypeOK
    /\ part = "mesh" => Mesh!TypeOK
    /\ part = "flood" => Flood!TypeOK
    /\ part = "governance" => Gov!TypeOK

\* What the parts promise, stated in their modules.
SwapIsWhole == part = "rendezvous" => Rdv!SwapIsWhole
LocksBackPromises == part = "rendezvous" => Rdv!LocksBackPromises
NobodyPaysAlone == [][part = "rendezvous" => Rdv!PaysWhole]_rdvVars
TrustIsEarned == part = "governance" => Gov!TrustIsEarned
VotesLand == part = "governance" => Gov!VotesLand
RecoveryKeepsStanding == part = "governance" => Gov!RecoveryKeepsStanding
Links == Mesh!Links
KeepsWhatWorks == Mesh!KeepsWhatWorks
FloodReaches == part = "flood" => Flood!FloodReaches

================================================================================
