---------------------------- MODULE EventListing ----------------------------
(***************************************************************************)
(* The read side of internal/publicevent: GET /v1/public-events, read page *)
(* by page with a keyset cursor, and GET /v1/public-events/{id}, while the *)
(* ingesters of PublicEvents change the table underneath.  Every request   *)
(* is one SQL statement, so it sees one committed state.                   *)
(***************************************************************************)
EXTENDS PublicEvents, Sequences

CONSTANTS
    Clients,    \* API clients
    IdOf,       \* the order of the events' ids
    DateOf,     \* DateOf[e][c]: occurred_on of e when content c lists it
    KindOf,     \* KindOf[e]: the source and type that a filter can name
    Filters,    \* filters a client may ask for
    Limits      \* page sizes a client may ask for

\* The table is finite; nothing is asked of a filter but its period.
ASSUME ListingAssumption ==
    /\ IsFiniteSet(Events) /\ Filters # {} /\ Limits # {}
    /\ IdOf \in [Events -> Nat]
    /\ \A e, f \in Events : IdOf[e] = IdOf[f] => e = f
    /\ DateOf \in [Events -> [Contents -> Nat]]
    /\ \A f \in Filters : f.from \in Nat /\ f.to \in Nat
    /\ Limits \subseteq Nat \ {0}

VARIABLE client    \* what each client asked for and was answered

listingVars == <<vars, client>>

-----------------------------------------------------------------------------
\* pages holds the items of each page so far; steady is history: the events
\* that matched when the scan began and have kept their place ever since.
NotListing == [pc |-> "idle", filter |-> CHOOSE f \in Filters : TRUE,
               limit |-> CHOOSE l \in Limits : TRUE, cursor |-> {},
               pages |-> <<>>, steady |-> {}]

ListingInit == Init /\ client = [k \in Clients |-> NotListing]

ContentOf(e) == CHOOSE c \in events[e] : TRUE

\* The keys of the order: occurred_on DESC, id DESC.
Place(e) == [date |-> DateOf[e][ContentOf(e)], id |-> IdOf[e]]

Precedes(p, q) == p.date > q.date \/ (p.date = q.date /\ p.id > q.id)

\* The JOIN: an event's row needs the row of its observation.
Joined(e) ==
    /\ events[e] # {}
    /\ \E o \in observations : o.record = RecordOf[e] /\ o.content = ContentOf(e)

Matches(e, f) ==
    /\ Joined(e)
    /\ f.kind # "" => KindOf[e] = f.kind
    /\ f.from <= Place(e).date /\ Place(e).date <= f.to

\* Not the code: a page starts at its cursor.
RowsFrom(f, cursor) ==
    {e \in Events : Matches(e, f) /\ \A p \in cursor : ~Precedes(Place(e), p)}

Rows(f, cursor) ==
    {e \in Events : Matches(e, f) /\ \A p \in cursor : Precedes(p, Place(e))}

Item(e) == [event |-> e, date |-> Place(e).date, record |-> ContentOf(e)]

\* LIMIT n under the ORDER BY.
First(n, rows) ==
    {e \in rows : Cardinality({d \in rows : Precedes(Place(d), Place(e))}) < n}

LastOf(rows) ==
    {Place(e) : e \in {d \in rows : \A x \in rows : ~Precedes(Place(d), Place(x))}}

\* Not the code: the cursor is taken from the extra row, which no page shows.
SkippingPage(c, f, l, cursor) ==
    LET fetched == First(l + 1, Rows(f, cursor))
        more    == Cardinality(fetched) > l
    IN  [c EXCEPT !.pc = IF more THEN "listing" ELSE "done",
                  !.pages = Append(c.pages, {Item(e) : e \in First(l, fetched)}),
                  !.cursor = IF more THEN LastOf(fetched) ELSE {}]

\* Repository.List: one row more than the limit is fetched; when it exists the
\* answer has a cursor at the last item shown.
Page(c, f, l, cursor) ==
    LET fetched == First(l + 1, Rows(f, cursor))
        more    == Cardinality(fetched) > l
        items   == First(l, fetched)
    IN  [c EXCEPT !.pc = IF more THEN "listing" ELSE "done",
                  !.pages = Append(c.pages, {Item(e) : e \in items}),
                  !.cursor = IF more THEN LastOf(items) ELSE {}]

\* The first page; an empty period is refused.
List(k, f, l) ==
    /\ client[k].pc = "idle"
    /\ f.from <= f.to
    /\ client' = [client EXCEPT ![k] =
                    Page([NotListing EXCEPT
                            !.filter = f, !.limit = l,
                            !.steady = {e \in Events : Matches(e, f)}],
                         f, l, {})]
    /\ UNCHANGED vars

Refuse(k, f) ==
    /\ client[k].pc = "idle"
    /\ f.to < f.from
    /\ client' = [client EXCEPT ![k].pc = "refused"]
    /\ UNCHANGED vars

\* A later page: the same filter with the cursor that was answered.
Resume(k) ==
    /\ client[k].pc = "listing"
    /\ client' = [client EXCEPT ![k] = Page(client[k], client[k].filter,
                                            client[k].limit, client[k].cursor)]
    /\ UNCHANGED vars

\* GET of an event that a page showed.
Get(k, e) ==
    /\ client[k].pc \in {"listing", "done"}
    /\ \E i \in DOMAIN client[k].pages : \E x \in client[k].pages[i] : x.event = e
    /\ client' = [client EXCEPT ![k].pc = IF Joined(e) THEN "found"
                                                       ELSE "not_found"]
    /\ UNCHANGED vars

\* A step of the source or an ingester.  An event leaves steady when it moves
\* in the order or out of the filter.
Keeping(e) == {f \in Filters : Matches(e, f)' /\ Place(e)' = Place(e)}

WriteStep ==
    /\ Next
    /\ client' = [k \in Clients |->
                    [client[k] EXCEPT !.steady =
                       {e \in client[k].steady : client[k].filter \in Keeping(e)}]]

ListingNext ==
    \/ WriteStep
    \/ \E k \in Clients, f \in Filters : Refuse(k, f)
    \/ \E k \in Clients, f \in Filters, l \in Limits : List(k, f, l)
    \/ \E k \in Clients : Resume(k)
    \/ \E k \in Clients, e \in Events : Get(k, e)

ListingSpec == ListingInit /\ [][ListingNext]_listingVars

-----------------------------------------------------------------------------
\* Type invariant of the two sides together.
ListingTypeOK ==
    /\ TypeOK
    /\ \A k \in Clients :
          /\ client[k].pc \in {"idle", "refused", "listing", "done",
                               "found", "not_found"}
          /\ client[k].filter \in Filters
          /\ client[k].limit \in Limits
          /\ Cardinality(client[k].cursor) <= 1
          /\ client[k].pages \in Seq(SUBSET [event: Events, date: Nat, record: Contents])
          /\ client[k].steady \subseteq Events

\* The pages that show e.
Showing(k, e) ==
    {i \in DOMAIN client[k].pages : \E x \in client[k].pages[i] : x.event = e}

\* A listing read to its end (a nil next_cursor) has shown, on exactly one page,
\* every event that matched from its first page to its last and kept its date,
\* whatever was inserted, moved or corrected in between: the promise of a
\* keyset cursor, which an offset would break.
ScansMissNothing ==
    \A k \in Clients : client[k].pc = "done" =>
       \A e \in client[k].steady : Cardinality(Showing(k, e)) = 1

\* Every item of a later page comes after every item of an earlier one, so an
\* event is shown twice only when its date moved back past the cursor.
PagesRunNewestFirst ==
    \A k \in Clients : \A i, j \in DOMAIN client[k].pages : i < j =>
       \A x \in client[k].pages[i], y \in client[k].pages[j] :
          Precedes([date |-> x.date, id |-> IdOf[x.event]],
                   [date |-> y.date, id |-> IdOf[y.event]])

\* What a listing has shown can be fetched by its id: events are corrected,
\* never removed, and an observation stays as long as an event needs it.
ShownEventsStay == \A k \in Clients : client[k].pc # "not_found"

=============================================================================
