---------------------------------- MODULE Catalog ----------------------------------
(***************************************************************************)
(* Artists, tracks and track versions, made by people who are logged in.   *)
(* A slug is a sequence of words and numbers, the parts between its        *)
(* hyphens; a title also has symbols.  Creating an artist or a track reads *)
(* the slugs in use and inserts later; creating a version locks the track  *)
(* row in between.                                                         *)
(***************************************************************************)
EXTENDS Accounts, SequencesExt

CONSTANTS
    Titles,        \* names of artists and titles of tracks
    Words,         \* their words, in lower case
    Symbol,        \* what is neither a letter nor a digit
    Item,          \* the slug of a title without letters and digits
    MaxSlug,       \* the length of the slug columns
    MaxRows,       \* artists, tracks and versions explored, together
    Limits,        \* the limits people may ask lists for
    Order          \* ORDER BY on titles: the place of each

ASSUME CatalogAssumption ==
    /\ Item \in Words
    /\ Titles \subseteq Seq(Words \cup Nat \cup {Symbol})
    /\ Symbol \notin Words
    /\ MaxSlug \in Nat
    /\ MaxRows \in Nat
    /\ Limits \subseteq Int
    /\ Order \in Injection(Titles, Nat)

VARIABLES
    artists,    \* the rows of artists, by id
    tracks      \* the rows of tracks, by id, each with the numbers of its versions

catalogVars == <<artists, tracks>>
vars == <<accountVars, call, catalogVars>>

Slug == Seq(Words \cup Nat)

\* "base" is the slug of the title the row was made with, for the properties.
Artist == [slug: Slug, name: Titles, base: Slug]
Track == [artist: Nat, slug: Slug, title: Titles, base: Slug, versions: Seq(Nat)]

Making == [step: {"artist", "track"}, artist: Nat, title: Titles, slug: Slug, raced: BOOLEAN]
Numbering == [step: {"version"}, track: Nat, number: Nat]

TypeOK ==
    /\ AccountsTypeOK
    /\ artists \in Seq(Artist)
    /\ tracks \in Seq(Track)
    /\ \A p \in People : call[p] \in {Idle} \cup Registering \cup Making \cup Numbering

Init ==
    /\ AccountsInit
    /\ call = [p \in People |-> Idle]
    /\ artists = <<>>
    /\ tracks = <<>>

-----------------------------------------------------------------------------
(* Slugs                                                                   *)

\* The words and numbers of a title, in their order.
Parts(title) ==
    LET kept[n \in 0 .. Len(title)] ==
            IF n = 0 THEN <<>>
            ELSE IF title[n] = Symbol THEN kept[n - 1] ELSE Append(kept[n - 1], title[n])
    IN  kept[Len(title)]

\* slugify
Slugify(title) == IF Parts(title) = <<>> THEN <<Item>> ELSE Parts(title)

\* Mutant: the numbers begin at 3.
FreeFromThree(base, used) ==
    LET existing == {s \in used : IsPrefix(base, s)}
        numbers == {n \in 3 .. Cardinality(existing) + 3 : Append(base, n) \notin existing}
    IN  IF base \notin existing THEN base ELSE Append(base, Min(numbers))

\* The base itself, or with the first number from 2 that is free.
Free(base, used) ==
    LET existing == {s \in used : IsPrefix(base, s)}
        numbers == {n \in 2 .. Cardinality(existing) + 2 : Append(base, n) \notin existing}
    IN  IF base \notin existing THEN base ELSE Append(base, Min(numbers))

ArtistSlugs == {artists[i].slug : i \in DOMAIN artists}
\* The bound of the exploration.
RoomForARow ==
    Len(artists) + Len(tracks) + MapThenSumSet(LAMBDA i : Len(tracks[i].versions), DOMAIN tracks)
        < MaxRows

TrackSlugs(a) == {tracks[i].slug : i \in {j \in DOMAIN tracks : tracks[j].artist = a}}

-----------------------------------------------------------------------------
(* create_artist, create_track                                             *)

\* unique_artist_slug, for the artist about to be made.
ReadArtistSlugs(p, name) ==
    /\ Authorized(p)
    /\ RoomForARow
    /\ Begin(p, [step |-> "artist", artist |-> 0, title |-> name, raced |-> FALSE,
                 slug |-> Free(Slugify(name), ArtistSlugs)])
    /\ UNCHANGED <<accountVars, catalogVars>>

InsertArtist(p) ==
    /\ call[p].step = "artist"
    /\ LET c == call[p]
           overtaken == {q \in People : call[q].step = "artist"}
       IN
        /\ Len(c.slug) <= MaxSlug
        /\ c.slug \notin ArtistSlugs
        /\ artists' = Append(artists, [slug |-> c.slug, name |-> c.title, base |-> Slugify(c.title)])
        /\ Finish(p, overtaken)
    /\ UNCHANGED <<accountVars, tracks>>

\* unique_track_slug: slugs are unique per artist.
ReadTrackSlugs(p, a, title) ==
    /\ Authorized(p)
    /\ a \in DOMAIN artists
    /\ RoomForARow
    /\ Begin(p, [step |-> "track", artist |-> a, title |-> title, raced |-> FALSE,
                 slug |-> Free(Slugify(title), TrackSlugs(a))])
    /\ UNCHANGED <<accountVars, catalogVars>>

InsertTrack(p) ==
    /\ call[p].step = "track"
    /\ LET c == call[p]
           overtaken == {q \in People : call[q].step = "track" /\ call[q].artist = c.artist}
       IN
        /\ Len(c.slug) <= MaxSlug
        /\ c.slug \notin TrackSlugs(c.artist)
        /\ tracks' = Append(tracks, [artist |-> c.artist, slug |-> c.slug, title |-> c.title,
                                     base |-> Slugify(c.title), versions |-> <<>>])
        /\ Finish(p, overtaken)
    /\ UNCHANGED <<accountVars, artists>>

\* The slug is taken by now, or longer than its column: answered 500.
InsertRefused(p) ==
    /\ LET c == call[p] IN
        \/ c.step = "artist" /\ (Len(c.slug) > MaxSlug \/ c.slug \in ArtistSlugs)
        \/ c.step = "track" /\ (Len(c.slug) > MaxSlug \/ c.slug \in TrackSlugs(c.artist))
    /\ Drop(p)
    /\ UNCHANGED <<accountVars, catalogVars>>

-----------------------------------------------------------------------------
(* create_track_version                                                    *)

TrackLocked(i) == \E p \in People : call[p].step = "version" /\ call[p].track = i
NextNumber(i) == 1 + Max({0} \cup Range(tracks[i].versions))

\* Mutant: the track row is read without FOR UPDATE.
ReadNumberUnlocked(p, i) ==
    /\ Authorized(p)
    /\ i \in DOMAIN tracks
    /\ RoomForARow
    /\ Begin(p, [step |-> "version", track |-> i, number |-> NextNumber(i)])
    /\ UNCHANGED <<accountVars, catalogVars>>

ReadNumber(p, i) ==
    /\ Authorized(p)
    /\ i \in DOMAIN tracks
    /\ ~TrackLocked(i)
    /\ RoomForARow
    /\ Begin(p, [step |-> "version", track |-> i, number |-> NextNumber(i)])
    /\ UNCHANGED <<accountVars, catalogVars>>

InsertVersion(p) ==
    /\ call[p].step = "version"
    /\ LET c == call[p] IN
        /\ c.number \notin Range(tracks[c.track].versions)
        /\ tracks' = [tracks EXCEPT ![c.track].versions = Append(@, c.number)]
    /\ Drop(p)
    /\ UNCHANGED <<accountVars, artists>>

-----------------------------------------------------------------------------
(* update_artist, update_track                                             *)
(* The row is read and later updated, in the columns that are new; this    *)
(* amounts to one step, at the reading when nothing is new and at the      *)
(* writing otherwise.  The slug is not updated.                            *)

RenameArtist(p, i, name) ==
    /\ call[p] = Idle
    /\ Authorized(p)
    /\ i \in DOMAIN artists
    /\ artists' = [artists EXCEPT ![i].name = name]
    /\ UNCHANGED <<accountVars, call, tracks>>

\* A version being created holds the row of its track.
RetitleTrack(p, i, title) ==
    /\ call[p] = Idle
    /\ Authorized(p)
    /\ i \in DOMAIN tracks
    /\ ~TrackLocked(i)
    /\ tracks' = [tracks EXCEPT ![i].title = title]
    /\ UNCHANGED <<accountVars, call, artists>>

-----------------------------------------------------------------------------
(* list_tracks                                                             *)

\* Mutant: the limit has no lower bound.
SafeLimitAbove(limit) == Min({limit, 100})

SafeLimit(limit) == Min({Max({limit, 1}), 100})

SafeOffset(offset) == Max({offset, 0})

\* LIMIT and OFFSET on a list of rows.
PageOf(rows, limit, offset) ==
    {rows[i] : i \in {j \in DOMAIN rows :
                        SafeOffset(offset) < j /\ j <= SafeOffset(offset) + SafeLimit(limit)}}

\* The rows by their titles; nothing orders rows of equal titles.
Sorted ==
    {o \in [DOMAIN tracks -> DOMAIN tracks] :
        \A i, j \in DOMAIN tracks :
            i < j => o[i] # o[j] /\ Order[tracks[o[i]].title] <= Order[tracks[o[j]].title]}

-----------------------------------------------------------------------------
CatalogStep(p) ==
    \/ \E name \in Titles : ReadArtistSlugs(p, name)
    \/ \E a \in DOMAIN artists, title \in Titles : ReadTrackSlugs(p, a, title)
    \/ InsertArtist(p) \/ InsertTrack(p) \/ InsertRefused(p)
    \/ \E i \in DOMAIN tracks : ReadNumber(p, i)
    \/ InsertVersion(p)
    \/ \E i \in DOMAIN artists, name \in Titles : RenameArtist(p, i, name)
    \/ \E i \in DOMAIN tracks, title \in Titles : RetitleTrack(p, i, title)

Next ==
    \/ \E p \in People : AccountsStep(p) /\ UNCHANGED catalogVars
    \/ \E p \in People : CatalogStep(p)

Spec == Init /\ [][Next]_vars

-----------------------------------------------------------------------------
(* Safety                                                                  *)

\* Nobody is refused because of a taken name who was told it is free and was not overtaken:
\* what a call read as free, a user name, an address, a slug or a number, is still free when
\* it inserts, unless a call of the same kind committed in between.  For versions the row
\* lock rules even that out; for addresses it takes one typed without capitals.  A refusal
\* for another reason, such as a slug that is too long, is not meant.
FreeUnlessOvertaken ==
    /\ RegistrationSucceeds
    /\ \A p \in People :
        LET c == call[p] IN
        /\ c.step = "artist" /\ ~c.raced => c.slug \notin ArtistSlugs
        /\ c.step = "track" /\ ~c.raced => c.slug \notin TrackSlugs(c.artist)
        /\ c.step = "version" => c.number \notin Range(tracks[c.track].versions)

\* A number at the end of a slug, unless the title has it, says that the slug without it
\* and those with all smaller numbers from 2 are in use.
Gapless(slug, base, used) ==
    slug # base =>
        /\ slug # <<>> /\ Front(slug) = base /\ Last(slug) >= 2
        /\ base \in used
        /\ \A n \in 2 .. Last(slug) - 1 : Append(base, n) \in used

\* Slugs are numbered without gaps, for artists and for the tracks of each artist.
SlugsWithoutGaps ==
    /\ \A i \in DOMAIN artists : Gapless(artists[i].slug, artists[i].base, ArtistSlugs)
    /\ \A i \in DOMAIN tracks :
        Gapless(tracks[i].slug, tracks[i].base, TrackSlugs(tracks[i].artist))

\* Who reads the list to its end, page after page, sees every track, whatever limit is
\* asked for, if the list does not change meanwhile and no two titles are equal: the
\* reader goes on with the limit the answer names, until a page is empty.  Every page is
\* a query of its own, which may order the rows in any way its ORDER BY leaves open.
ReaderSeesAll ==
    (\A i, j \in DOMAIN tracks : i # j => tracks[i].title # tracks[j].title) =>
        \A limit \in Limits :
            LET offsets == {k * SafeLimit(limit) : k \in 0 .. Len(tracks)} IN
            \A rows \in [offsets -> Sorted] :
                UNION {PageOf(rows[offset], limit, offset) : offset \in offsets}
                    = DOMAIN tracks
====================================================================================
