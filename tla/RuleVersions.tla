---------------------------- MODULE RuleVersions ----------------------------
(* The rules of trading (contract terms, commissions, margins, sessions,        *)
(* capabilities of a counter) as infrastructure/rule_store.py keeps them: the   *)
(* versions of one kind and scope.  A version takes effect during an interval,  *)
(* is known from some time on, never changes, and may name the version that it  *)
(* replaces.  A query is asked for a time (or for none: sessions) and answers   *)
(* what was known at another.                                                   *)
EXTENDS Integers, FiniteSets

CONSTANTS
    Ids,            \* sources and versions that name a rule: 1..n
    MaxTime         \* times are 1..MaxTime

VARIABLE
    versions        \* rule_versions: the content of each version registered

NoRule == 0             \* replaces_id is NULL
Always == 0             \* a query that asks for no time
Open == MaxTime + 1     \* effective_to is NULL
Times == 1..MaxTime

Registered == DOMAIN versions
Contents ==
    {c \in [from : Times, to : 2..Open, available : Times, replaces : Ids \union {NoRule}] :
        c.from < c.to}

RulesInit == versions = [i \in {} |-> {}]

\* A version is registered once.  What it replaces is registered, and is known by then.
MayRegister(id, content) ==
    /\ content.replaces # id
    /\ id \notin Registered
    /\ content.replaces # NoRule =>
        content.replaces \in Registered /\ versions[content.replaces].available <= content.available

Register(id, content) ==
    /\ MayRegister(id, content)
    /\ versions' = [i \in Registered \union {id} |-> IF i = id THEN content ELSE versions[i]]

\* Publishing a version again, the same or another under its name, changes nothing.
RegisterAgain(id) == id \in Registered /\ UNCHANGED versions

\* Names are interchangeable: the model registers them in order.
RulesNext ==
    \E id \in Ids :
        \/ (\A i \in Ids : i < id => i \in Registered) /\ \E content \in Contents : Register(id, content)
        \/ RegisterAgain(id)

-----------------------------------------------------------------------------
\* What was known, of what is in effect.
Candidates(at, known) ==
    {i \in Registered :
        /\ versions[i].available <= known
        /\ at = Always \/ (versions[i].from <= at /\ at < versions[i].to)}

\* A plausible slip: only the version that is named is replaced.
ReplacedNext == [i \in Registered |-> {versions[i].replaces} \ {NoRule}]

\* The versions that a version replaces: its own, and those that one replaced.
Replaced ==
    LET before[i \in Registered] ==
            LET parent == versions[i].replaces
            IN  IF parent = NoRule THEN {} ELSE {parent} \union before[parent]
    IN  before

Matches(at, known) ==
    LET found == Candidates(at, known)
    IN  found \ UNION {Replaced[i] : i \in found}

\* The one that matches; "missing" (or None, for a capability); "ambiguous".
Find(at, known) ==
    LET matches == Matches(at, known)
    IN  CASE matches = {} -> [status |-> "missing"]
          [] Cardinality(matches) = 1 -> [status |-> "found", id |-> CHOOSE i \in matches : TRUE]
          [] OTHER -> [status |-> "ambiguous"]

-----------------------------------------------------------------------------
\* History as a set of steps, and whether one version comes from another, by the steps.
Steps == {<<i, versions[i].replaces>> : i \in {j \in Registered : versions[j].replaces # NoRule}}
ComesFrom(i, j) ==
    \E path \in SUBSET Registered :
        /\ i \in path /\ j \in path /\ i # j
        /\ \A k \in path : k # j => \E l \in path : <<k, l>> \in Steps
        /\ \A k \in path : k # i => \E l \in path : <<l, k>> \in Steps
Successors(i) == {j \in Registered : versions[j].replaces = i}
Linear == Cardinality({i \in Registered : versions[i].replaces = NoRule}) <= 1
          /\ \A i \in Registered : Cardinality(Successors(i)) <= 1

Queries == ({Always} \union Times) \X Times

\* An answer is known when it is asked for and rests on nothing that was learnt
\* later, and every other version in effect is one that it came to replace, if
\* through versions that are not in effect themselves.
AnswersStand ==
    \A q \in Queries :
        LET answer == Find(q[1], q[2])
        IN  answer.status = "found" =>
                /\ answer.id \in Candidates(q[1], q[2])
                /\ \A j \in Registered : ComesFrom(answer.id, j) => versions[j].available <= q[2]
                /\ \A j \in Candidates(q[1], q[2]) \ {answer.id} : ComesFrom(answer.id, j)

\* A rule is missing only where none is in effect, and a history without
\* branches never leaves a choice.
NothingIsGuessed ==
    \A q \in Queries :
        LET answer == Find(q[1], q[2])
        IN  /\ (answer.status = "missing") = (Candidates(q[1], q[2]) = {})
            /\ Linear => answer.status # "ambiguous"

\* A version that gave way to another does not come back for having learnt more:
\* at a time for which a replacement is in effect, it never answers again.
NothingComesBack ==
    \A q \in Queries, later \in Times :
        LET before == Find(q[1], q[2])
            after == Find(q[1], later)
        IN  q[2] < later /\ before.status = "found" /\ after.status = "found" =>
                after.id = before.id \/ ~ComesFrom(before.id, after.id)

\* Rules are found by what was known: neither guessed, nor revived, nor foreseen
\* (RuleStore._register and _find).
RulesAreFound == AnswersStand /\ NothingIsGuessed /\ NothingComesBack
=============================================================================
