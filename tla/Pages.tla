-------------------------------- MODULE Pages --------------------------------
(***************************************************************************)
(* A page that feeds and scrapers read: FeedReader.fetch_and_store of      *)
(* src/core/search/feeds.py and WebScraper of scraper.py, in threads of    *)
(* their own, over the ScrapeCache they share (cache.py), whose rows are   *)
(* memories that expire.  The feeds only mark an entry as seen there, with *)
(* its summary in the place of the page.  Pages of different addresses     *)
(* share nothing; what is found on them goes to Knowledge and Memories.    *)
(*                                                                         *)
(* A lookup that raises is a miss: comparing the time of expiry does so on *)
(* SQLite, whose timestamps have no zone.                                  *)
(***************************************************************************)
EXTENDS Naturals, FiniteSets

CONSTANTS
    Readers,       \* threads that read feeds or scrape
    MaxFailures    \* bound on invalidations that fail

PagesAssumption == MaxFailures \in Nat /\ IsFiniteSet(Readers)

VARIABLES
    cached,      \* the rows of the page: how many with which text have expired, or not yet
    stored,      \* memories ever made: of the "entry", and of the page with whose text
    reader,      \* what each thread is doing, with whose text
    failures     \* invalidations that failed

vars == <<cached, stored, reader, failures>>

Unoccupied == [pc |-> "idle", text |-> "none", keep |-> FALSE]

Texts == {"summary", "page"}
NoRows == [text \in Texts |-> [fresh |-> 0, expired |-> 0]]

Init == cached = NoRows /\ stored = {} /\ reader = [t \in Readers |-> Unoccupied] /\ failures = 0

At(t, label) == reader[t].pc = label
Go(t, label) == reader' = [reader EXCEPT ![t].pc = label]
Rest(t) == reader' = [reader EXCEPT ![t] = Unoccupied]

-----------------------------------------------------------------------------

\* get: any row of the page, if it has not expired, or nothing.
Hits == {text \in Texts : cached[text].fresh > 0}

\* fetch_and_store, for an entry that is not cached; if it is, it is passed over.
SeeEntry(t) ==
    /\ At(t, "idle")
    /\ reader' = [reader EXCEPT ![t] = [Unoccupied EXCEPT !.pc = "remember", !.text = "summary"]]
    /\ UNCHANGED <<cached, stored, failures>>

\* A mutant: the entry is marked as seen first.
SeeEntryFirst(t) ==
    /\ At(t, "remember")
    /\ Go(t, "drop")
    /\ UNCHANGED <<cached, stored, failures>>

\* Storing the entry raises, and ends the synchronisation, or is followed by the mark.
RememberEntry(t) ==
    /\ At(t, "remember")
    /\ \/ stored' = stored \cup {"entry"} /\ Go(t, "drop")
       \/ Rest(t) /\ UNCHANGED stored
    /\ UNCHANGED <<cached, failures>>

\* scrape_url, of scrape_and_store, which keeps the text, or of others
Scrape(t) ==
    /\ At(t, "idle")
    /\ \E keep \in BOOLEAN :
          \/ reader' = [reader EXCEPT ![t] = [pc |-> "fetch", text |-> "page", keep |-> keep]]
          \/ \E text \in Hits :
                keep /\ reader' = [reader EXCEPT ![t] = [pc |-> "keep", text |-> text, keep |-> TRUE]]
    /\ UNCHANGED <<cached, stored, failures>>

Fetch(t) ==
    /\ At(t, "fetch")
    /\ Go(t, "drop") \/ Rest(t)
    /\ UNCHANGED <<cached, stored, failures>>

\* A mutant: put without invalidating.
DropNothing(t) == At(t, "drop") /\ Go(t, "insert") /\ UNCHANGED <<cached, stored, failures>>

\* put: invalidate, which does not tell that it failed ...
Drop(t) ==
    /\ At(t, "drop")
    /\ Go(t, "insert")
    /\ \/ cached' = NoRows /\ UNCHANGED failures
       \/ failures < MaxFailures /\ failures' = failures + 1 /\ UNCHANGED cached
    /\ UNCHANGED stored

\* ... and then the row, or a warning.
Insert(t) ==
    /\ At(t, "insert")
    /\ cached' \in {cached, [cached EXCEPT ![reader[t].text].fresh = @ + 1]}
    /\ IF reader[t].keep THEN Go(t, "keep") ELSE Rest(t)
    /\ UNCHANGED <<stored, failures>>

\* scrape_and_store: a memory of the page, unless recall finds one or it raises.
Keep(t) ==
    /\ At(t, "keep")
    /\ stored' \in {stored, stored \cup {reader[t].text}}
    /\ Rest(t)
    /\ UNCHANGED <<cached, failures>>

-----------------------------------------------------------------------------

Expire ==
    /\ \E text \in Hits : cached' = [cached EXCEPT ![text].fresh = @ - 1, ![text].expired = @ + 1]
    /\ UNCHANGED <<stored, reader, failures>>

\* clear_expired, and the cleanup of all memories
CleanUp ==
    /\ \E text \in Texts : cached[text].expired > 0
    /\ cached' = [text \in Texts |-> [cached[text] EXCEPT !.expired = 0]]
    /\ UNCHANGED <<stored, reader, failures>>

Step(t) ==
    \/ SeeEntry(t) \/ RememberEntry(t) \/ Scrape(t) \/ Fetch(t)
    \/ Drop(t) \/ Insert(t) \/ Keep(t)

Next == (\E t \in Readers : Step(t)) \/ Expire \/ CleanUp

Spec == Init /\ [][Next]_vars

-----------------------------------------------------------------------------

TypeOK ==
    /\ cached \in [Texts -> [fresh : Nat, expired : Nat]]
    /\ stored \subseteq {"entry"} \cup Texts /\ failures \in 0..MaxFailures

Rows(text) == cached[text].fresh + cached[text].expired

\* An entry is marked as seen only when it was stored (feeds.py:319): if it is not passed
\* over because its page was scraped, it is not lost.  So a feed's summary is kept as a
\* page's text only when the entry was stored as well.
SeenWasStored ==
    /\ Rows("summary") > 0 => "entry" \in stored
    /\ "summary" \in stored => "entry" \in stored

\* put replaces: a page has at most a row for each thread that is putting one, and for
\* each invalidation that failed (cache.py:126).
FewRows == Rows("summary") + Rows("page") <= Cardinality(Readers) + failures

PagesKept == SeenWasStored /\ FewRows

=============================================================================
