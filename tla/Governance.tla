----------------------------- MODULE Governance -----------------------------
(***************************************************************************)
(* A group's governance: packages/browser/src/gov.ts, and the /gov         *)
(* commands and handlers of app.ts that change what it computes from.      *)
(* Every peer reproduces weights and levels from the signed graph it       *)
(* holds; the model is one such copy, and an issue with its poll.          *)
(* scripts/qos-cli/gov.mjs repeats the trust levels.                       *)
(***************************************************************************)
EXTENDS Integers, SequencesExt, FiniteSetsExt

CONSTANTS
    Ids,      \* peerIds
    Enrolled, \* the members at first, in the order of the record that holds them
    Founder,  \* the creator
    Webs,     \* what they may have rated each other by then
    TrustMax, \* TRUST_MAX
    Ratings,  \* the ratings given
    MaxMoves  \* bound of the model: changes of the graph

VARIABLES
    group, \* the Group
    voted, \* who has a ballot in the issue's poll
    moves  \* what is left of the bound

vars == <<group, voted, moves>>

\* order: the members, as their record lists them.  trust[r][m]: what r rates m, or 0.
\* censured: <<censurer, target>>.  delegate: standing delegations, and those for the issue.
Nobody == "nobody"
Scope == {"standing", "issue"}
Group == [order: Seq(Ids), admins: SUBSET Ids, creator: Ids,
          trust: [Ids -> [Ids -> 0..TrustMax]], censured: SUBSET (Ids \X Ids),
          delegate: [Scope -> [Ids -> Ids \cup {Nobody}]]]

TypeOK ==
    /\ group \in Group /\ IsInjective(group.order)
    /\ voted \subseteq Ids
    /\ moves \in 0..MaxMoves

Members(g) == Range(g.order)
IsAdmin(g, m) == m = g.creator \/ m \in Members(g) \cap g.admins

-----------------------------------------------------------------------------
(* Trust levels *)

Least(i, j) == IF i < j THEN i ELSE j
Most(i, j) == IF i > j THEN i ELSE j

\* Faulty: a rating confers the rater's own level.
ConferredInFull(g, level, r, m) == IF m = r THEN 0 ELSE Least(g.trust[r][m], level[r])

Conferred(g, level, r, m) == IF m = r THEN 0 ELSE Least(g.trust[r][m], level[r] - 1)

\* One rater's row; one round, from the i-th rater on; and rounds until nothing changes.
Confer(g, level, r) ==
    LET raised == {m \in Members(g) : Conferred(g, level, r, m) > level[m]}
    IN  [m \in raised |-> Conferred(g, level, r, m)] @@ level
RECURSIVE Round(_, _, _), Settle(_, _, _)
Round(g, level, i) ==
    IF i > Len(g.order) THEN level ELSE Round(g, Confer(g, level, g.order[i]), i + 1)
Settle(g, level, rounds) ==
    LET next == Round(g, level, 1)
    IN  IF rounds = 0 \/ next = level THEN level ELSE Settle(g, next, rounds - 1)
Positive(g) ==
    Settle(g, [m \in Members(g) |-> IF IsAdmin(g, m) THEN TrustMax ELSE 0],
           Len(g.order) * (TrustMax + 1) + 1)

\* Two thirds of those who stand at least as high, and never less than two.
Discredited(g, level, t) ==
    LET eligible == {c \in Members(g) \ {t} : level[c] >= level[t]}
        quorum == Most(2, (2 * Cardinality(eligible) + 2) \div 3)
    IN  level[t] > 0 /\ Cardinality({c \in eligible : <<c, t>> \in g.censured}) >= quorum

\* t falls to nothing, and who vouched for it by what it staked.
Slash(g, positive, level, t) ==
    LET vouchers == {m \in Members(g) : g.trust[m][t] > 0}
        left(m) == Most(0, level[m] - Least(g.trust[m][t], positive[m]))
    IN  t :> 0 @@ [m \in vouchers |-> left(m)] @@ level
RECURSIVE SlashAll(_, _, _, _), Account(_, _, _, _)
SlashAll(g, positive, level, fallen) ==
    IF fallen = <<>> THEN level
    ELSE SlashAll(g, positive, Slash(g, positive, level, Head(fallen)), Tail(fallen))
Account(g, positive, level, rounds) ==
    LET fallen == SelectSeq(g.order, LAMBDA t : Discredited(g, level, t))
    IN  IF rounds = 0 \/ fallen = <<>> THEN level
        ELSE Account(g, positive, SlashAll(g, positive, level, fallen), rounds - 1)

TrustLevels(g) ==
    LET positive == Positive(g) IN Account(g, positive, positive, Len(g.order) + 2)

\* trustWeightsFor
HasRatings(g) == \E r, m \in Ids : g.trust[r][m] > 0
TrustWeights(g) ==
    LET level == TrustLevels(g)
    IN  [m \in Members(g) |-> IF HasRatings(g) THEN 1 + level[m] ELSE 1]

-----------------------------------------------------------------------------
(* Weights *)

\* delegationMapFor
DelegateOf(g, m) ==
    LET topic == g.delegate["issue"][m]
    IN  IF topic # Nobody THEN topic ELSE g.delegate["standing"][m]
Direct(g, ballots) == ballots \cap Members(g)

\* Faulty: a delegate's delegation is not followed.
OneHop(g, ballots, m, seen) ==
    LET direct == Direct(g, ballots)
    IN  IF m \in direct THEN m
        ELSE IF DelegateOf(g, m) \in direct THEN DelegateOf(g, m) ELSE Nobody

RECURSIVE FirstVoter(_, _, _, _)
FirstVoter(g, ballots, m, seen) ==
    IF m \in Direct(g, ballots) THEN m
    ELSE IF m \in seen \/ DelegateOf(g, m) \notin Members(g) THEN Nobody
    ELSE FirstVoter(g, ballots, DelegateOf(g, m), seen \cup {m})

\* resolveWeights: each member's weight lands with a voter, or with nobody.
Resolved(g, ballots) ==
    LET weight == TrustWeights(g)
        from(d) == {m \in Members(g) : FirstVoter(g, ballots, m, {}) = d}
    IN  [d \in Direct(g, ballots) \cup {Nobody} |-> MapThenSumSet(LAMBDA m : weight[m], from(d))]

-----------------------------------------------------------------------------
(* What changes the graph *)

Init ==
    /\ \E web \in Webs :
           group = [order |-> Enrolled, admins |-> {Founder}, creator |-> Founder,
                    trust |-> web, censured |-> {},
                    delegate |-> [s \in Scope |-> [m \in Ids |-> Nobody]]]
    /\ voted = {}
    /\ moves = MaxMoves

Change(g) ==
    /\ moves > 0 /\ moves' = moves - 1
    /\ group' = g
    /\ UNCHANGED voted

\* An admin adds m, or gives it a role.
SetMember(m, role) ==
    Change([group EXCEPT !.order = IF m \in Members(group) THEN @ ELSE Append(@, m),
                         !.admins = IF role = "admin" THEN @ \cup {m} ELSE @ \ {m}])

\* What m rated, censured and delegated for an issue stays.
RemoveMember(m) ==
    /\ m \in Members(group)
    /\ Change([group EXCEPT !.order = Remove(@, m), !.admins = @ \ {m},
                            !.delegate["standing"][m] = Nobody])

SetDelegate(m, to, scope) ==
    /\ m \in Members(group) /\ to \in (Members(group) \ {m}) \cup {Nobody}
    /\ Change([group EXCEPT !.delegate[scope][m] = to])

SetTrust(r, m, rating) ==
    /\ {r, m} \subseteq Members(group) /\ r # m
    /\ Change([group EXCEPT !.trust[r][m] = rating])

SetCensure(c, t, on) ==
    /\ {c, t} \subseteq Members(group) /\ c # t
    /\ Change([group EXCEPT !.censured = IF on THEN @ \cup {<<c, t>>} ELSE @ \ {<<c, t>>}])

\* Anybody in the room may vote in the poll; members' ballots count.
Vote(m) ==
    /\ m \notin voted
    /\ voted' = voted \cup {m}
    /\ moves > 0 /\ moves' = moves - 1
    /\ UNCHANGED group

\* Faulty: what a member said of others moves with it, what they said of it does not.
RekeyedKeys(g, from, to) ==
    LET remap(m) == IF m = from THEN to ELSE m
        old(m) == IF m = to THEN from ELSE IF m = from THEN to ELSE m
    IN  [order |-> Append(Remove(g.order, from), to),
         admins |-> {remap(m) : m \in g.admins}, creator |-> remap(g.creator),
         trust |-> [r \in Ids |-> g.trust[old(r)]],
         censured |-> {<<remap(pair[1]), pair[2]>> : pair \in g.censured},
         delegate |-> [s \in Scope |-> [m \in Ids |-> g.delegate[s][old(m)]]]]

\* rekeyMember
Rekeyed(g, from, to) ==
    LET remap(m) == IF m = from THEN to ELSE m
        old(m) == IF m = to THEN from ELSE IF m = from THEN to ELSE m
    IN  [order |-> Append(Remove(g.order, from), to),
         admins |-> {remap(m) : m \in g.admins}, creator |-> remap(g.creator),
         trust |-> [r \in Ids |-> [m \in Ids |-> g.trust[old(r)][old(m)]]],
         censured |-> {<<remap(pair[1]), remap(pair[2])>> : pair \in g.censured},
         delegate |-> [s \in Scope |-> [m \in Ids |-> remap(g.delegate[s][old(m)])]]]

\* A peerId that nothing in the group refers to.
Unheard(m) ==
    /\ m \notin Members(group) \cup voted \cup {group.creator}
    /\ \A r \in Ids :
           /\ group.trust[r][m] = 0 /\ group.trust[m][r] = 0
           /\ {<<r, m>>, <<m, r>>} \cap group.censured = {}
           /\ \A s \in Scope : group.delegate[s][r] # m /\ group.delegate[s][m] = Nobody

\* reconcileGroups: a member is back with its anchor under another peerId.
Recover(from, to) ==
    /\ from \in Members(group) /\ Unheard(to)
    /\ Change(Rekeyed(group, from, to))

Next ==
    \E m \in Ids :
        \/ \E role \in {"admin", "member"} : SetMember(m, role)
        \/ RemoveMember(m)
        \/ \E scope \in Scope, to \in Ids \cup {Nobody} : SetDelegate(m, to, scope)
        \/ Vote(m)
        \/ \E other \in Ids :
               \/ \E rating \in Ratings \cup {0} : SetTrust(m, other, rating)
               \/ \E on \in BOOLEAN : SetCensure(m, other, on)
               \/ Recover(m, other)

Spec == Init /\ [][Next]_vars

-----------------------------------------------------------------------------
(* Properties *)

\* The members at level n and above, for n = TrustMax, TrustMax - 1, ..., 1: admins, and whom
\* somebody above level n rates at least n.
RECURSIVE AtLeast(_, _)
AtLeast(g, n) ==
    IF n = TrustMax THEN {m \in Members(g) : IsAdmin(g, m)}
    ELSE LET above == AtLeast(g, n + 1)
         IN  above \cup {m \in Members(g) : \E r \in above \ {m} : g.trust[r][m] >= n}
Earned(g) ==
    [m \in Members(g) |-> Cardinality({n \in 1..TrustMax : m \in AtLeast(g, n)})]

\* Rounds of accountability that take everybody who falls at once.
RECURSIVE Judged(_, _, _)
Judged(g, earned, level) ==
    LET fallen == {t \in Members(g) : Discredited(g, level, t)}
        staked(m) == MapThenSumSet(LAMBDA t : Least(g.trust[m][t], earned[m]), fallen)
    IN  IF fallen = {} THEN level
        ELSE Judged(g, earned, [m \in fallen |-> 0]
                               @@ [m \in Members(g) |-> Most(0, level[m] - staked(m))])

\* gov.ts:243-247 and 289-293: however the record happens to be ordered, the bounded rounds
\* end at the levels that trust handed down from an admin, one less at each hop, comes to,
\* and at those a quorum leaves.
TrustIsEarned ==
    LET earned == Earned(group)
    IN  TrustLevels(group) = Judged(group, earned, earned)

\* gov.ts:193-196: a vote that is delegated goes where the delegate's own goes, voting takes
\* it back, and the weights of voters and abstentions add up to everybody's.
VotesLand ==
    LET lands(m) == FirstVoter(group, voted, m, {})
        carried == Resolved(group, voted)
        weight == TrustWeights(group)
    IN  /\ \A m \in Members(group) :
               lands(m) = IF m \in Direct(group, voted) THEN m
                          ELSE IF DelegateOf(group, m) \in Members(group)
                          THEN lands(DelegateOf(group, m))
                          ELSE Nobody
        /\ MapThenSumSet(LAMBDA d : carried[d], DOMAIN carried)
           = MapThenSumSet(LAMBDA m : weight[m], Members(group))

\* gov.ts:136-139: a member that comes back with another peerId has its standing, and so
\* have the others; votes land where they did, unless it had voted.
RecoveryKeepsStanding ==
    \A from \in Members(group), to \in Ids :
        LET remap(m) == IF m = from THEN to ELSE m
            level == TrustLevels(group)
            rekeyed == Rekeyed(group, from, to)
            after == TrustLevels(rekeyed)
        IN  Unheard(to) =>
                \A m \in Members(group) :
                    /\ after[remap(m)] = level[m]
                    /\ from \notin voted =>
                           FirstVoter(rekeyed, voted, remap(m), {})
                           = remap(FirstVoter(group, voted, m, {}))

=============================================================================
