-------------------------------- MODULE Fetchers --------------------------------
(***************************************************************************)
(* The fetchers of remote storage and of archives, of pkg/fetcher: the     *)
(* links a directory of S3 or Google Cloud Storage, an HTTP location or an *)
(* archive has, and the resources a link opens.                            *)
(*                                                                         *)
(* The cloud fetchers keep the links they have listed, and fill that cache *)
(* in place: what a listing that fails has found so far stays, and there   *)
(* is no lock.  A Google listing comes in pages, each of which may fail; a *)
(* listing of S3 is its first page.                                        *)
(*                                                                         *)
(* An object is its id, its size and how its name fares in a link: plain,  *)
(* changed by its escapes, or no URL at all.                               *)
(***************************************************************************)
EXTENDS Integers, Sequences, SequencesExt

CONSTANTS
    Threads,    \* callers of Links
    Places,     \* the locations fetchers are made for
    PageSize    \* objects in a page

\* An object of S3 or of Google, or a file of an archive.  Itself is none.
Objects ==
    [id : Nat \ {0}, size : Nat, name : {"plain", "escaped", "bad"}, deep : BOOLEAN]

ASSUME FetchersAssumption ==
    /\ PageSize \in Nat \ {0}
    /\ Places \subseteq [provider : {"s3", "gcs", "http", "archive"}, ranges : BOOLEAN,
                         slash : BOOLEAN, size : Nat, objects : Seq(Objects)]

VARIABLES
    place,         \* the provider, does it serve ranges?, the objects below, the slash behind it, its own size
    cachedLinks,   \* f.cachedLinks
    call,          \* call[t]: where t is in Links
    links,         \* what the last call returned
    spoilt,        \* has a call failed with the cache in its hands?
    overlapped     \* have two calls been under way at once?

listVars == <<cachedLinks, call, links, spoilt, overlapped>>

\* A link is the id of its object.
Itself == 0
Blank == -1

NoLinks == [ok |-> FALSE, list |-> <<>>]
Idle == [pc |-> "idle", at |-> 0, seen |-> <<>>]

Caches == place.provider \in {"s3", "gcs"}

\* With a delimiter, what is in a folder below is listed as that folder, which has no size.
SizeOf(o) == IF place.provider = "gcs" /\ o.deep THEN 0 ELSE o.size

\* The objects a listing goes through.
Contents ==
    IF place.provider = "s3"
    THEN SubSeq(place.objects, 1, IF Len(place.objects) < PageSize THEN Len(place.objects) ELSE PageSize)
    ELSE place.objects

Ids(objects) == [i \in DOMAIN objects |-> objects[i].id]

InitListing ==
    /\ place \in Places
    /\ cachedLinks = <<>>
    /\ call = [t \in Threads |-> Idle]
    /\ links = NoLinks
    /\ spoilt = FALSE /\ overlapped = FALSE

Goto(t, pc, at, seen) == call' = [call EXCEPT ![t] = [pc |-> pc, at |-> at, seen |-> seen]]
Return(t, list) == call' = [call EXCEPT ![t] = Idle] /\ links' = [ok |-> TRUE, list |-> list]
Refuse(t) == call' = [call EXCEPT ![t] = Idle] /\ links' = NoLinks

\* HTTPFetcher.Links knows of nothing but its location.
LinksHTTP(t) == place.provider = "http" /\ Return(t, <<Itself>>)

\* ArchiveFetcher.Links
LinksArchive(t) ==
    /\ place.provider = "archive"
    /\ IF \E i \in DOMAIN place.objects : place.objects[i].name = "bad"
       THEN Refuse(t)
       ELSE Return(t, Ids(place.objects))

\* The cloud fetchers look at their cache first.
LinksCloud(t) ==
    /\ Caches
    /\ IF cachedLinks # <<>>
       THEN Return(t, cachedLinks)
       ELSE Goto(t, "list", 0, <<>>) /\ UNCHANGED links

Links(t) ==
    /\ call[t] = Idle
    /\ LinksHTTP(t) \/ LinksArchive(t) \/ LinksCloud(t)
    /\ overlapped' = (overlapped \/ \E u \in Threads : call[u] # Idle)
    /\ UNCHANGED <<place, cachedLinks, spoilt>>

\* t's next object begins a further page of Google's, which has to be asked for.
NewPage(t) ==
    /\ place.provider = "gcs"
    /\ call[t].pc = "fill"
    /\ call[t].at \in 2 .. Len(Contents)
    /\ (call[t].at - 1) % PageSize = 0

\* An empty listing: an empty directory, or the location is a file.
NothingBelow(t) ==
    /\ Contents = <<>>
    /\ cachedLinks' = IF place.slash THEN cachedLinks ELSE <<Itself>>
    /\ Return(t, cachedLinks')

Began(t, made) ==
    /\ Contents # <<>>
    /\ cachedLinks' = made
    /\ Goto(t, "fill", 1, <<>>)
    /\ UNCHANGED links

\* The request for the listing.  S3 makes its links, all blank; Google makes room for them.
ListS3(t) ==
    /\ place.provider = "s3"
    /\ \/ Refuse(t) /\ UNCHANGED cachedLinks
       \/ NothingBelow(t)
       \/ Began(t, [i \in DOMAIN Contents |-> Blank])

ListGCS(t) ==
    /\ place.provider = "gcs"
    /\ \/ Refuse(t) /\ UNCHANGED cachedLinks
       \/ NothingBelow(t)
       \/ Began(t, <<>>)

List(t) ==
    /\ call[t].pc = "list"
    /\ ListS3(t) \/ ListGCS(t)
    /\ UNCHANGED <<place, spoilt, overlapped>>

\* Mutant: a page that fails is taken for the end of the listing.
PageFailsQuietly(t) ==
    /\ NewPage(t)
    /\ Return(t, cachedLinks)
    /\ UNCHANGED <<place, cachedLinks, spoilt, overlapped>>

\* it.Next: the page the next object is on cannot be had.
PageFails(t) ==
    /\ NewPage(t)
    /\ Refuse(t)
    /\ spoilt' = TRUE
    /\ UNCHANGED <<place, cachedLinks, overlapped>>

\* The next object is passed over, refused, or about to be stored as S3 or Google do.
Fill(t) ==
    LET i == call[t].at
    IN  /\ call[t].pc = "fill"
        /\ IF i > Len(Contents) THEN Return(t, cachedLinks) /\ UNCHANGED spoilt
           ELSE IF SizeOf(Contents[i]) = 0 THEN Goto(t, "fill", i + 1, <<>>) /\ UNCHANGED <<links, spoilt>>
           ELSE IF Contents[i].name = "bad" THEN Refuse(t) /\ spoilt' = TRUE
           ELSE Goto(t, "put", i, cachedLinks) /\ UNCHANGED <<links, spoilt>>
        /\ UNCHANGED <<place, cachedLinks, overlapped>>

PutS3(t) ==
    /\ place.provider = "s3"
    /\ cachedLinks' = [cachedLinks EXCEPT ![call[t].at] = Contents[call[t].at].id]

\* append: the list is read, extended and written back.
PutGCS(t) ==
    /\ place.provider = "gcs"
    /\ cachedLinks' = Append(call[t].seen, Contents[call[t].at].id)

Put(t) ==
    /\ call[t].pc = "put"
    /\ PutS3(t) \/ PutGCS(t)
    /\ Goto(t, "fill", call[t].at + 1, <<>>)
    /\ UNCHANGED <<place, links, spoilt, overlapped>>

ListNext == \E t \in Threads : Links(t) \/ List(t) \/ PageFails(t) \/ Fill(t) \/ Put(t)

-----------------------------------------------------------------------------
(* The objects a link opens. *)

Object(id) ==
    IF id = Itself THEN [id |-> Itself, size |-> place.size, name |-> "plain", deep |-> FALSE]
    ELSE place.objects[CHOOSE i \in DOMAIN place.objects : place.objects[i].id = id]

\* The decoded path of a link is the name looked up.
Reachable(id) == Object(id).name = "plain"

-----------------------------------------------------------------------------
(* Properties. *)

\* The members of a list at the indices to be kept.
Kept(list, keep) ==
    LET kept[i \in 0 .. Len(list)] ==
          IF i = 0 THEN <<>>
          ELSE IF i \in keep THEN Append(kept[i - 1], list[i]) ELSE kept[i - 1]
    IN  kept[Len(list)]

\* What there is to list: what has a size, and of an archive everything.
Listable ==
    IF place.provider = "http" \/ (place.objects = <<>> /\ ~place.slash /\ Caches) THEN <<Itself>>
    ELSE IF place.provider = "archive" THEN Ids(place.objects)
    ELSE Kept(Ids(Contents), {i \in DOMAIN Contents : SizeOf(Contents[i]) > 0})

Named(list) == Kept(list, {i \in DOMAIN list : list[i] # Blank})

\* A listing that is returned names nothing but objects of the location, with the places of empty
\* objects of S3 left blank.  Unless two calls have overlapped, it is the beginning of the true
\* listing, in its order; and unless a call has failed on the way it is all of it: a failing page
\* is never taken for the end, and calls that repeat a listing return the same.
LinksTruthful ==
    links.ok =>
        /\ ToSet(Named(links.list)) \subseteq ToSet(Listable)
        /\ overlapped \/ IsPrefix(Named(links.list), Listable)
        /\ overlapped \/ spoilt \/ Named(links.list) = Listable
=============================================================================
