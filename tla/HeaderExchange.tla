---------------------------- MODULE HeaderExchange ----------------------------
(***************************************************************************)
(* One node asks another for headers: the locator it builds                *)
(* (build_get_headers) and the answer to it (respond_to_getheaders), both  *)
(* in chainman/mod.rs.  The two chains agree up to some header and differ  *)
(* above it.  A chain is given by its height; a header by its number and   *)
(* the chain it is on.  The node that asks adopts the other chain when it  *)
(* is sent as much of it as its own has, and asks again (headersync.rs).   *)
(***************************************************************************)
EXTENDS Integers, Sequences, SequencesExt, FiniteSets, FiniteSetsExt

CONSTANTS
    Dense,          \* entries of a locator before the steps double: 10
    MostHeaders,    \* headers in one answer: 2000
    MaxNumber       \* bound on the height of the chains

ASSUME ExchangeAssumption == Dense \in Nat \ {0} /\ MostHeaders \in Nat \ {0}

VARIABLES
    mine,           \* height of the chain of the node that asks
    theirs,         \* height of the chain of the node that answers
    shared,         \* height up to which they agree
    answer,         \* numbers of the headers in the last answer
    askedAt         \* the heights when that answer was asked for

exchangeVars == <<mine, theirs, shared, answer, askedAt>>

NoAnswer == <<>>

\* A round of the loop of build_get_headers that finds i hashes in the locator.
Round(was, i) ==
    LET doubled == IF i >= Dense THEN 2 * was.step ELSE was.step
        capped == IF doubled > was.number THEN was.number ELSE doubled
    IN  [number |-> was.number - capped, step |-> capped]

\* `current` and `step` after each round; every round goes back by one at least.
Rounds(top) ==
    LET at[i \in 0 .. top] ==
          IF i = 0 THEN [number |-> top, step |-> 1] ELSE Round(at[i - 1], i)
    IN  at

\* The numbers of the locator, from the top to genesis.
build_get_headers(top) ==
    LET rounds == Rounds(top)
        last == Min({i \in 0 .. top : rounds[i].number = 0})
    IN  [i \in 1 .. last + 1 |-> rounds[i - 1].number]

Matched_Last(locator) ==
    locator[Max({i \in DOMAIN locator : locator[i] <= shared /\ locator[i] <= theirs})]

\* The first entry of the locator that is on the chain of the one who answers.
Matched(locator) ==
    locator[Min({i \in DOMAIN locator : locator[i] <= shared /\ locator[i] <= theirs})]

\* respond_to_getheaders without a stop hash: from the matched header on,
\* itself included and the top not.
respond_to_getheaders(locator) ==
    LET matched == Matched(locator)
        ahead == theirs - matched
    IN  [i \in 1 .. Min({ahead, MostHeaders}) |-> matched + i - 1]

ExchangeInit ==
    /\ mine = 0 /\ theirs = 0 /\ shared = 0
    /\ answer = NoAnswer
    /\ askedAt = [mine |-> 0, theirs |-> 0, shared |-> 0]

\* Either chain grows by a header the other node does not have.
MineGrows ==
    /\ mine < MaxNumber
    /\ mine' = mine + 1
    /\ UNCHANGED <<theirs, shared, answer, askedAt>>

TheirsGrows ==
    /\ theirs < MaxNumber
    /\ theirs' = theirs + 1
    /\ UNCHANGED <<mine, shared, answer, askedAt>>

\* The answer is applied header by header; a chain as high wins.
Exchange ==
    LET headers == respond_to_getheaders(build_get_headers(mine))
        top == IF headers = <<>> THEN 0 ELSE Last(headers)
    IN  /\ answer' = headers
        /\ askedAt' = [mine |-> mine, theirs |-> theirs, shared |-> shared]
        /\ mine' = IF top >= mine THEN top ELSE mine
        /\ shared' = IF top >= mine THEN top ELSE shared
        /\ UNCHANGED theirs

ExchangeNext == MineGrows \/ TheirsGrows \/ Exchange

ExchangeSpec == ExchangeInit /\ [][ExchangeNext]_exchangeVars

(***************************************************************************)
(* Properties.                                                             *)
(***************************************************************************)
\* Wherever the two chains part, an answer is a run of consecutive headers
\* whose first one both nodes have, so that each header of it finds its parent;
\* the last header of the other chain is never sent.  When the part of the
\* node's own chain that the other does not have is less than half of what an
\* answer holds, and the other chain is longer by two, every exchange brings
\* headers above the node's top, although the locator thins out by doubling
\* steps.
HeadersLink ==
    /\ answer # NoAnswer =>
          /\ \A i \in 1 .. Len(answer) - 1 : answer[i + 1] = answer[i] + 1
          /\ answer[1] <= askedAt.shared
          /\ Last(answer) < askedAt.theirs
    /\ /\ 2 * (askedAt.mine - askedAt.shared) < MostHeaders - 1
       /\ askedAt.theirs > askedAt.mine + 1
       => answer # NoAnswer /\ Last(answer) > askedAt.mine
=============================================================================
