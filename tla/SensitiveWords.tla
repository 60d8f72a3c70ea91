--------------------------- MODULE SensitiveWords ----------------------------
(***************************************************************************)
(* The dictionary of one tenant: rows and their version in the database    *)
(* (sensitive/repository.py), the requests that change them                *)
(* (api/sensitive_admin.py), and the scanner that SensitiveStore publishes *)
(* after each change.  A request commits its change, reads words and       *)
(* version back in two statements and publishes what it has read: between  *)
(* any two of these steps others may do theirs.                            *)
(*                                                                         *)
(* Levels, categories and audit data are left out, and so is a database    *)
(* that stays locked.                                                      *)
(***************************************************************************)
EXTENDS Matcher

CONSTANTS
    Inputs,         \* what users enter: words, as sequences of characters,
                    \* enabled or not
    FileWords,      \* the dictionary in the file, for tenants without their own
    Texts,          \* transcripts that are scanned
    Fold,           \* the characters that NFKC and casefold() make of each
                    \* character; none of a blank
    MaxLength,      \* normalize_word: the longest normalized word
    Requests,       \* requests being served at a time
    PageSize,       \* limit of list_words
    MaxVersion,     \* bound: changes of the dictionary; a user lists it once
    MaxRestarts     \* bound: restarts of the backend

ASSUME InputsAssumption == Inputs \subseteq [word : Seq(DOMAIN Fold), enabled : BOOLEAN]
ASSUME TextAssumption ==
    Texts \subseteq Seq(DOMAIN Fold) /\ FileWords \subseteq Seq(DOMAIN Fold)
ASSUME PageAssumption == PageSize \in Nat \ {0} /\ MaxLength \in Nat
ASSUME BoundAssumption == MaxVersion \in Nat /\ MaxRestarts \in Nat

VARIABLES
    rows,           \* sensitive_words; `at` is updated_at
    clock, issued,  \* the latest updated_at, and the identifiers, given so far
    version,        \* sensitive_tenant_versions; 0 if there is no row
    pc, seen,       \* of each request, with the entries and version it has read
    published,      \* the tenant's scanner: its version, entries and automaton
    cursor, listed, \* a user paging through list_words: the last row, all rows
    restarts,
    since,          \* history: entries and versions that the database has had
                    \* since each request committed its change
    alone,          \* history: requests that no other one has overlapped
    lagging,        \* history: requests overlapped, or the process restarted,
                    \* since the last request that was alone
    present         \* history: the rows there since the user's first page

database == <<rows, clock, issued, version>>
listing == <<cursor, listed, present>>
serving == <<pc, seen, since, alone>>
vars == <<database, serving, published, listing, restarts, lagging>>

NoCursor == [at |-> -1, id |-> -1]
Entries == {[word |-> r.word, enabled |-> r.enabled] : r \in rows}
Enabled(entries) == {e.word : e \in {x \in entries : x.enabled /\ x.word # <<>>}}

(* replace_tenant and reload: the scanner is built, then put in place.     *)
Scanner(v, entries) ==
    [version |-> v, entries |-> entries, automaton |-> Automaton(Enabled(entries))]

FromFile == Scanner(-1, {[word |-> w, enabled |-> TRUE] : w \in FileWords})

Init ==
    /\ rows = {} /\ clock = 0 /\ issued = {} /\ version = 0
    /\ pc = [r \in Requests |-> "idle"]
    /\ seen = [r \in Requests |-> [entries |-> {}, version |-> -1]]
    /\ since = [r \in Requests |-> {}] /\ alone = {}
    /\ published = FromFile
    /\ cursor = NoCursor /\ listed = <<>> /\ present = {}
    /\ restarts = 0 /\ lagging = FALSE

Resting == {r \in Requests : pc[r] \in {"idle", "failed"}}

-----------------------------------------------------------------------------
(* normalize_word, which raises for an empty result and for a long one.    *)
Normalized(word) == FlattenSeq([i \in 1..Len(word) |-> Fold[word[i]]])
Acceptable(word) == Len(Normalized(word)) \in 1..MaxLength

(* Request r has committed a change; the others are overlapped.            *)
Commit(r, newRows, v) ==
    /\ rows' = newRows
    /\ version' = v
    /\ LET now == [version |-> v,
                   entries |-> {[word |-> x.word, enabled |-> x.enabled] : x \in newRows}]
       IN since' = [q \in Requests |-> IF q = r THEN {now}
                                       ELSE IF q \in Resting THEN {}
                                       ELSE since[q] \cup {now}]
    /\ pc' = [q \in Requests |-> IF q = r THEN "committed"
                                 ELSE IF pc[q] = "failed" THEN "idle" ELSE pc[q]]
    /\ alone' = IF Resting = Requests THEN {r} ELSE {}
    /\ lagging' = (lagging \/ Resting # Requests)
    /\ present' = present \cap newRows

(* create: the row gets the time of the call and a random identifier.  The *)
(* time is taken before the write lock, so that rows are not committed in  *)
(* its order: `at` may be any time up to the next one.                     *)
Create(r, input) ==
    /\ r \in Resting /\ version < MaxVersion
    /\ Acceptable(input.word)
    /\ \A x \in rows : Normalized(x.word) # Normalized(input.word)
    /\ \E at \in 0..(clock + 1), id \in (1..MaxVersion) \ issued :
          /\ Commit(r, rows \cup {[word |-> input.word, enabled |-> input.enabled,
                                   at |-> at, id |-> id]}, version + 1)
          /\ clock' = IF at > clock THEN at ELSE clock
          /\ issued' = issued \cup {id}
    /\ UNCHANGED <<seen, published, cursor, listed, restarts>>

(* 409: the word is empty or too long, or its normalized form is there; the*)
(* transaction is rolled back, and nothing is published.                   *)
Conflict(r, word) ==
    /\ r \in Resting
    /\ ~Acceptable(word) \/ \E x \in rows : Normalized(x.word) = Normalized(word)
    /\ pc' = [pc EXCEPT ![r] = "idle"]
    /\ UNCHANGED <<database, seen, since, alone, published, listing, restarts, lagging>>

(* update raises whenever the row is there: its statement has nine         *)
(* placeholders and is given eight values.  The connection is closed       *)
(* without a commit.  Bound: it is tried when nothing else is under way,   *)
(* and its failure remembered until the next change.                       *)
Update(r) ==
    /\ \A q \in Requests : pc[q] = "idle"
    /\ rows # {} /\ version < MaxVersion
    /\ pc' = [pc EXCEPT ![r] = "failed"]
    /\ UNCHANGED <<database, seen, since, alone, published, listing, restarts, lagging>>

(* delete: the row may be gone already; the version grows all the same,    *)
(* unless there is none.                                                   *)
Delete(r, id) ==
    /\ r \in Resting /\ version < MaxVersion
    /\ Commit(r, {x \in rows : x.id # id}, IF version = 0 THEN 0 ELSE version + 1)
    /\ UNCHANGED <<clock, issued, seen, published, cursor, listed, restarts>>

-----------------------------------------------------------------------------
(* _refresh_tenant: entries() reads the words, then the version.           *)
ReadWords(r) ==
    /\ pc[r] = "committed"
    /\ seen' = [seen EXCEPT ![r].entries = Entries]
    /\ pc' = [pc EXCEPT ![r] = "words"]
    /\ UNCHANGED <<database, since, alone, published, listing, restarts, lagging>>

ReadVersion(r) ==
    /\ pc[r] = "words"
    /\ seen' = [seen EXCEPT ![r].version = version]
    /\ pc' = [pc EXCEPT ![r] = "read"]
    /\ UNCHANGED <<database, since, alone, published, listing, restarts, lagging>>

(* Mutant: a scanner of the same or a newer version is not replaced.       *)
PublishOnce(r) ==
    /\ pc[r] = "read"
    /\ published' = IF published.version >= 1 THEN published
                    ELSE Scanner(seen[r].version, seen[r].entries)
    /\ seen' = [seen EXCEPT ![r] = [entries |-> {}, version |-> -1]]
    /\ pc' = [pc EXCEPT ![r] = "idle"]
    /\ since' = [since EXCEPT ![r] = {}] /\ alone' = alone \ {r}
    /\ lagging' = (lagging /\ r \notin alone)
    /\ UNCHANGED <<database, listing, restarts>>

Publish(r) ==
    /\ pc[r] = "read"
    /\ published' = Scanner(seen[r].version, seen[r].entries)
    /\ seen' = [seen EXCEPT ![r] = [entries |-> {}, version |-> -1]]
    /\ pc' = [pc EXCEPT ![r] = "idle"]
    /\ since' = [since EXCEPT ![r] = {}] /\ alone' = alone \ {r}
    /\ lagging' = (lagging /\ r \notin alone)
    /\ UNCHANGED <<database, listing, restarts>>

-----------------------------------------------------------------------------
(* list_words: newest first, from the row of the cursor on.                *)
Older(x, y) == \/ x.at < y.at
               \/ x.at = y.at /\ x.id < y.id

(* Mutant: the time alone decides what is older than the cursor.           *)
RestByTime(c) == {x \in rows : c = NoCursor \/ x.at < c.at}

Rest(c) == {x \in rows : c = NoCursor \/ Older(x, c)}

Newer(S, x) == {y \in S : Older(x, y)}
NewestFirst(S, size) ==
    [n \in 1..size |-> CHOOSE x \in S : Cardinality(Newer(S, x)) = n - 1]

Page(c) ==
    LET all == Cardinality(Rest(c))
    IN NewestFirst(Rest(c), IF all < PageSize THEN all ELSE PageSize)

(* A user gets the first page, or the next one; the last has no cursor.    *)
FirstPage ==
    /\ cursor = NoCursor /\ listed = <<>>
    /\ listed' = Page(NoCursor)
    /\ present' = rows
    /\ cursor' = IF Len(listed') < Cardinality(rows) THEN Last(listed') ELSE NoCursor
    /\ UNCHANGED <<database, serving, published, restarts, lagging>>

NextPage ==
    /\ cursor # NoCursor
    /\ LET page == Page(cursor) IN
          /\ listed' = listed \o page
          /\ cursor' = IF Len(page) < Cardinality(Rest(cursor))
                       THEN Last(page) ELSE NoCursor
    /\ UNCHANGED <<database, serving, published, present, restarts, lagging>>

-----------------------------------------------------------------------------
(* The backend stops and starts: requests are lost, the file is loaded, and*)
(* the tenant's words are not.                                             *)
Restart ==
    /\ restarts < MaxRestarts
    /\ restarts' = restarts + 1
    /\ pc' = [r \in Requests |-> "idle"]
    /\ seen' = [r \in Requests |-> [entries |-> {}, version |-> -1]]
    /\ since' = [r \in Requests |-> {}] /\ alone' = {}
    /\ published' = FromFile
    /\ lagging' = TRUE
    /\ UNCHANGED <<database, listing>>

Next ==
    \/ \E r \in Requests :
          \/ \E i \in Inputs : Conflict(r, i.word) \/ Create(r, i)
          \/ \E id \in 1..MaxVersion : Delete(r, id)
          \/ Update(r) \/ ReadWords(r) \/ ReadVersion(r) \/ Publish(r)
    \/ FirstPage \/ NextPage \/ Restart

Spec == Init /\ [][Next]_vars

-----------------------------------------------------------------------------
TypeOK ==
    /\ \A x \in rows : [word |-> x.word, enabled |-> x.enabled] \in Inputs
                       /\ x.at \in 0..clock /\ x.id \in issued
    /\ \A x, y \in rows : x.id = y.id \/ Normalized(x.word) = Normalized(y.word) => x = y
    /\ clock \in 0..MaxVersion /\ version \in 0..MaxVersion
    /\ pc \in [Requests -> {"idle", "failed", "committed", "words", "read"}]
    /\ published.version \in -1..version

(* The list a request publishes contains its own change, and belongs to    *)
(* the version it is published under or to an earlier one: hits never carry*)
(* a version that is older than the words that were looked for.            *)
ListHasOwnChange ==
    \A r \in Requests : pc[r] = "read" =>
        \E d \in since[r] : d.entries = seen[r].entries /\ d.version <= seen[r].version

(* Nobody changing the dictionary, the scanner has its words and version,  *)
(* as long as no two requests overlapped since the process started: of     *)
(* those that did, the one that read first may have published last.        *)
ScannerIsCurrent ==
    Resting = Requests /\ ~lagging /\ version > 0 =>
        published.version = version /\ published.entries = Entries

(* The database keeps one row for each normalized word, and what requests  *)
(* read and publish is theirs and, unless they overlap, the newest.        *)
PublicationInv == TypeOK /\ ListHasOwnChange /\ ScannerIsCurrent

(* The scanner that is published finds the leftmost-longest occurrences of *)
(* the enabled words of its list, in every transcript: of the words as they*)
(* were entered, character by character.  from_entries and scan fold       *)
(* neither words nor text, only the uniqueness of words goes by Fold.      *)
ScansFindTheWords ==
    \A t \in Texts :
        IsLeftmostLongest(Scan(published.automaton, t), Enabled(published.entries), t)

(* A user who pages through the words sees each row that is there all the  *)
(* time exactly once, whatever is added or deleted meanwhile.              *)
ListedOnce ==
    /\ IsInjective(listed)
    /\ cursor = NoCursor => present \subseteq ToSet(listed)

(* A change of an existing word is made.                                   *)
UpdatesSucceed == \A r \in Requests : pc[r] # "failed"
=============================================================================
