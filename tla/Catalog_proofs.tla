------------------------------ MODULE Catalog_proofs ------------------------------
(***************************************************************************)
(* Theorems about Catalog and the accounts it builds on, for any number of *)
(* people, titles and rows.                                                *)
(***************************************************************************)
EXTENDS Catalog, NumberLemmas, FiniteSetTheorems, SequenceTheorems

-----------------------------------------------------------------------------
(* Slugs                                                                   *)

\* f collects the parts of the first m elements of a title.
KeptUpTo(title, m, f) ==
    f = [n \in 0 .. m |->
            IF n = 0 THEN <<>>
            ELSE IF title[n] = Symbol THEN f[n - 1] ELSE Append(f[n - 1], title[n])]

\* Such a function exists, whatever m is.
LEMMA KeptExists ==
    ASSUME NEW title
    PROVE  \A m \in Nat : \E f : KeptUpTo(title, m, f)
<1>. DEFINE S == {m \in Nat : \E f : KeptUpTo(title, m, f)}
<1>1. 0 \in S
  <2>. DEFINE f == [n \in 0 .. 0 |-> <<>>]
  <2>1. KeptUpTo(title, 0, f)
      BY DEF KeptUpTo
  <2>. QED BY <2>1
<1>2. ASSUME NEW m \in Nat, m \in S PROVE m + 1 \in S
  <2>1. PICK f : KeptUpTo(title, m, f)
      BY <1>2
  <2>. DEFINE next == IF title[m + 1] = Symbol THEN f[m] ELSE Append(f[m], title[m + 1])
              g == [n \in 0 .. m + 1 |-> IF n = m + 1 THEN next ELSE f[n]]
  <2>2. \A n \in 0 .. m : f[n] = IF n = 0 THEN <<>>
                ELSE IF title[n] = Symbol THEN f[n - 1] ELSE Append(f[n - 1], title[n])
      BY <2>1 DEF KeptUpTo
  <2>3. KeptUpTo(title, m + 1, g)
      BY <2>2 DEF KeptUpTo
  <2>. QED BY <2>3
<1>. HIDE DEF S
<1>3. Nat \subseteq S
    BY <1>1, <1>2, SetInduction
<1>. QED BY <1>3 DEF S

\* The parts of a title are a sequence without symbols.
LEMMA PartsType ==
    ASSUME NEW T, NEW title \in Seq(T \cup {Symbol})
    PROVE  Parts(title) \in Seq(T)
<1>1. PICK f \in {CHOOSE f : KeptUpTo(title, Len(title), f)} : TRUE
    OBVIOUS
<1>2. KeptUpTo(title, Len(title), f)
    BY <1>1, KeptExists
<1>3. Parts(title) = f[Len(title)]
    BY <1>1 DEF Parts, KeptUpTo
<1>. DEFINE S == {m \in Nat : m <= Len(title) => f[m] \in Seq(T)}
<1>4. 0 \in S
    BY <1>2 DEF KeptUpTo
<1>5. ASSUME NEW m \in Nat, m \in S PROVE m + 1 \in S
  <2>. SUFFICES ASSUME m + 1 <= Len(title) PROVE f[m + 1] \in Seq(T)
      OBVIOUS
  <2>1. f[m] \in Seq(T)
      BY <1>5
  <2>2. f[m + 1] = IF title[m + 1] = Symbol THEN f[m] ELSE Append(f[m], title[m + 1])
    <3>1. \A n \in 0 .. Len(title) : f[n] = IF n = 0 THEN <<>>
                ELSE IF title[n] = Symbol THEN f[n - 1] ELSE Append(f[n - 1], title[n])
        BY <1>2 DEF KeptUpTo
    <3>2. m + 1 \in 0 .. Len(title) /\ m + 1 # 0 /\ (m + 1) - 1 = m
        OBVIOUS
    <3>. QED BY <3>1, <3>2
  <2>. QED BY <2>1, <2>2
<1>. HIDE DEF S
<1>6. Nat \subseteq S
    BY <1>4, <1>5, SetInduction
<1>. QED BY <1>3, <1>6 DEF S

\* A slug is a sequence of words and numbers.
LEMMA SlugType == ASSUME NEW title \in Titles PROVE Slugify(title) \in Slug
<1>1. title \in Seq((Words \cup Nat) \cup {Symbol})
    BY CatalogAssumption
<1>2. Parts(title) \in Seq(Words \cup Nat)
    BY <1>1, PartsType
<1>3. <<Item>> \in Seq(Words \cup Nat)
    BY CatalogAssumption
<1>. QED BY <1>2, <1>3 DEF Slugify, Slug

\* A slug with a number, and what is at its end.
LEMMA Numbered ==
    ASSUME NEW base \in Slug, NEW n \in Nat
    PROVE  /\ Append(base, n) \in Slug
           /\ Append(base, n) # <<>>
           /\ Front(Append(base, n)) = base
           /\ Last(Append(base, n)) = n
           /\ IsPrefix(base, Append(base, n))
           /\ IsPrefix(base, base)
<1>. DEFINE s == Append(base, n)
<1>1. /\ s \in Slug
      /\ s # <<>>
      /\ Len(s) = Len(base) + 1
      /\ \A i \in 1 .. Len(base) : s[i] = base[i]
      /\ s[Len(base) + 1] = n
    BY AppendProperties DEF Slug
<1>. HIDE DEF s
<1>2. SubSeq(s, 1, Len(base)) = base /\ SubSeq(base, 1, Len(base)) = base
    BY <1>1 DEF Slug
<1>3. Front(s) = base
    BY <1>1, <1>2 DEF Front, Slug
<1>4. IsPrefix(base, s) /\ IsPrefix(base, base)
    BY <1>1, <1>2 DEF IsPrefix, Slug
<1>. QED BY <1>1, <1>3, <1>4 DEF Last, Slug, s

\* One of the numbers tried is free: there are more of them than slugs in use.
LEMMA SomeNumberIsFree ==
    ASSUME NEW base \in Slug, NEW used, used \subseteq Slug, IsFiniteSet(used)
    PROVE  \E n \in 2 .. Cardinality(used) + 2 : Append(base, n) \notin used
<1>. DEFINE N == 2 .. Cardinality(used) + 2
            f == [n \in N |-> Append(base, n)]
<1>1. Cardinality(used) \in Nat
    BY FS_CardinalityType
<1>2. IsFiniteSet(N) /\ Cardinality(N) = Cardinality(used) + 1
    BY <1>1, FS_Interval
<1>. SUFFICES ASSUME \A n \in N : Append(base, n) \in used PROVE FALSE
    OBVIOUS
<1>3. f \in [N -> used]
    OBVIOUS
<1>4. \A m, n \in N : f[m] = f[n] => m = n
    BY Numbered
<1>5. f \in Injection(N, used)
    BY <1>3, <1>4 DEF Injection, IsInjective
<1>. HIDE DEF N, f
<1>6. Cardinality(N) <= Cardinality(used)
    BY <1>5, FS_Injection
<1>. QED BY <1>1, <1>2, <1>6

\* What Free finds is not in use, and it skips no number.
LEMMA FreeIsFree ==
    ASSUME NEW base \in Slug, NEW used, used \subseteq Slug, IsFiniteSet(used)
    PROVE  /\ Free(base, used) \in Slug
           /\ Free(base, used) \notin used
           /\ Gapless(Free(base, used), base, used)
<1>. DEFINE existing == {s \in used : IsPrefix(base, s)}
            numbers == {n \in 2 .. Cardinality(existing) + 2 : Append(base, n) \notin existing}
            m == Min(numbers)
<1>1. IsPrefix(base, base) /\ \A n \in Nat : IsPrefix(base, Append(base, n))
    BY Numbered
<1>2. existing \subseteq Slug /\ IsFiniteSet(existing) /\ Cardinality(existing) \in Nat
    BY FS_Subset, FS_CardinalityType
<1>3. CASE base \notin existing
    BY <1>1, <1>3 DEF Free, Gapless
<1>4. CASE base \in existing
  <2>1. numbers # {} /\ numbers \subseteq Nat
    <3>. HIDE DEF existing
    <3>. QED BY <1>2, SomeNumberIsFree
  <2>2. m \in numbers /\ \A n \in numbers : m <= n
    <3>. HIDE DEF numbers
    <3>. QED BY <2>1, MinIsLeast
  <2>3. Free(base, used) = Append(base, m)
      BY <1>4 DEF Free
  <2>4. m \in Nat /\ m >= 2 /\ m <= Cardinality(existing) + 2 /\ Append(base, m) \notin existing
      BY <1>2, <2>2
  <2>5. \A n \in 2 .. m - 1 : Append(base, n) \in existing
    <3>. SUFFICES ASSUME NEW n \in 2 .. m - 1, Append(base, n) \notin existing PROVE FALSE
        OBVIOUS
    <3>1. n \in 2 .. Cardinality(existing) + 2 /\ n < m
        BY <1>2, <2>4
    <3>2. n \in numbers
        BY <3>1
    <3>. HIDE DEF numbers, m
    <3>. QED BY <1>2, <2>2, <2>4, <3>1, <3>2
  <2>6. Append(base, m) \notin used
      BY <1>1, <2>4
  <2>7. /\ Append(base, m) \in Slug
        /\ Append(base, m) # <<>>
        /\ Front(Append(base, m)) = base
        /\ Last(Append(base, m)) = m
      BY <2>4, Numbered
  <2>. HIDE DEF m, numbers
  <2>. QED BY <1>4, <2>3, <2>4, <2>5, <2>6, <2>7 DEF Gapless
<1>. QED BY <1>3, <1>4
-----------------------------------------------------------------------------
(* The invariant                                                           *)

CallRecord == {Idle} \cup Registering \cup Making \cup Numbering

\* The functions of people, with their domains.
FunctionTypes == token \in [People -> User \cup {None}] /\ call \in [People -> CallRecord]

Types == TypeOK /\ FunctionTypes

\* Rows of users are told apart by either column, and addresses are in lower case.
UsersAreUnique ==
    /\ \A u, v \in users : u.email = v.email \/ u.username = v.username => u = v
    /\ \A u \in users : Lower[u.email] = u.email

\* The versions of a track are numbered 1, 2, 3, ...
VersionsAreCounted ==
    \A i \in DOMAIN tracks :
        LET v == tracks[i].versions IN v = [j \in 1 .. Len(v) |-> j]

\* At most one call holds the row of a track.
OneHolder ==
    \A p, q \in People :
        /\ call[p].step = "version"
        /\ call[q].step = "version"
        /\ call[p].track = call[q].track
        => p = q

\* What a call read still holds, unless another one overtook it; the numbers a slug skips
\* stay taken, and nobody adds a version to a track whose row is held.
Fresh(p) ==
    LET c == call[p] IN
    /\ c.step = "registering" =>
            \/ c.raced
            \/ Lower[c.data.email] # c.data.email
            \/ \A u \in users : ~Same(u, RowOf(p, c.data))
    /\ c.step = "artist" =>
            /\ c.raced \/ c.slug \notin ArtistSlugs
            /\ Gapless(c.slug, Slugify(c.title), ArtistSlugs)
    /\ c.step = "track" =>
            /\ c.raced \/ c.slug \notin TrackSlugs(c.artist)
            /\ Gapless(c.slug, Slugify(c.title), TrackSlugs(c.artist))
    /\ c.step = "version" =>
            /\ c.track \in DOMAIN tracks
            /\ c.number = Len(tracks[c.track].versions) + 1

CallsAreFresh == \A p \in People : Fresh(p)

IInv ==
    /\ Types
    /\ UsersAreUnique
    /\ VersionsAreCounted
    /\ OneHolder
    /\ CallsAreFresh
    /\ SlugsWithoutGaps

-----------------------------------------------------------------------------
(* Types                                                                   *)

\* A call that begins, ends or is dropped is a call, and the others stay as they are but
\* for the flag of those overtaken.
LEMMA CallEdits ==
    ASSUME FunctionTypes, NEW p \in People
    PROVE  /\ \A c \in CallRecord :
                  Begin(p, c) => /\ call' \in [People -> CallRecord]
                                 /\ call'[p] = c
                                 /\ \A q \in People : q # p => call'[q] = call[q]
           /\ Drop(p) => /\ call' \in [People -> CallRecord]
                         /\ call'[p] = Idle
                         /\ \A q \in People : q # p => call'[q] = call[q]
           /\ \A overtaken \in SUBSET {q \in People : call[q] \in Registering \cup Making} :
                  Finish(p, overtaken) =>
                      /\ call' \in [People -> CallRecord]
                      /\ call'[p] = Idle
                      /\ \A q \in People : q # p /\ q \notin overtaken => call'[q] = call[q]
                      /\ \A q \in overtaken : q # p =>
                            call'[q] = [call[q] EXCEPT !.raced = TRUE]
<1>1. \A c \in CallRecord :
         Begin(p, c) => /\ call' \in [People -> CallRecord]
                        /\ call'[p] = c
                        /\ \A q \in People : q # p => call'[q] = call[q]
    BY DEF FunctionTypes, Begin
<1>2. Drop(p) => /\ call' \in [People -> CallRecord]
                 /\ call'[p] = Idle
                 /\ \A q \in People : q # p => call'[q] = call[q]
    BY DEF FunctionTypes, Drop, CallRecord
<1>3. ASSUME NEW overtaken \in SUBSET {q \in People : call[q] \in Registering \cup Making},
             Finish(p, overtaken)
      PROVE  /\ call' \in [People -> CallRecord]
             /\ call'[p] = Idle
             /\ \A q \in People : q # p /\ q \notin overtaken => call'[q] = call[q]
             /\ \A q \in overtaken : q # p => call'[q] = [call[q] EXCEPT !.raced = TRUE]
  <2>1. \A q \in People :
           call'[q] = IF q = p THEN Idle
                      ELSE IF q \in overtaken THEN [call[q] EXCEPT !.raced = TRUE] ELSE call[q]
      BY <1>3 DEF Finish
  <2>2. \A q \in overtaken : [call[q] EXCEPT !.raced = TRUE] \in CallRecord
    <3>. SUFFICES ASSUME NEW q \in overtaken PROVE [call[q] EXCEPT !.raced = TRUE] \in CallRecord
        OBVIOUS
    <3>1. CASE call[q] \in Registering
        BY <3>1 DEF Registering, CallRecord
    <3>2. CASE call[q] \in Making
        BY <3>2 DEF Making, CallRecord
    <3>. QED BY <3>1, <3>2
  <2>3. Idle \in CallRecord
      BY DEF CallRecord
  <2>4. \A q \in People : call'[q] \in CallRecord
      BY <2>1, <2>2, <2>3 DEF FunctionTypes
  <2>5. call' \in [People -> CallRecord]
      BY <1>3, <2>4 DEF Finish
  <2>. QED BY <2>1, <2>5
<1>. QED BY <1>1, <1>2, <1>3

\* What kind of call the step of a call says it is.
LEMMA CallKinds ==
    ASSUME FunctionTypes, NEW p \in People
    PROVE  /\ call[p].step = "registering" => call[p] \in Registering
           /\ call[p].step \in {"artist", "track"} => call[p] \in Making
           /\ call[p].step = "version" => call[p] \in Numbering
           /\ Idle.step = "idle"
BY DEF FunctionTypes, CallRecord, Idle, Registering, Making, Numbering
-----------------------------------------------------------------------------
(* Rows                                                                    *)

\* Slugs in use only become more, so what they leave no gap below stays without gaps.
LEMMA GaplessGrows ==
    ASSUME NEW slug, NEW base, NEW used, NEW more, used \subseteq more, Gapless(slug, base, used)
    PROVE  Gapless(slug, base, more)
BY DEF Gapless

\* There are finitely many slugs, all of them slugs.
LEMMA SlugsAreFinite ==
    ASSUME TypeOK
    PROVE  /\ ArtistSlugs \subseteq Slug /\ IsFiniteSet(ArtistSlugs)
           /\ \A a : TrackSlugs(a) \subseteq Slug /\ IsFiniteSet(TrackSlugs(a))
<1>1. artists \in Seq(Artist) /\ tracks \in Seq(Track)
    BY DEF TypeOK
<1>2. ArtistSlugs \subseteq Slug /\ \A a : TrackSlugs(a) \subseteq Slug
  <2>1. /\ \A i \in DOMAIN artists : artists[i] \in Artist
        /\ \A i \in DOMAIN tracks : tracks[i] \in Track
      BY <1>1
  <2>2. /\ \A i \in DOMAIN artists : artists[i].slug \in Slug
        /\ \A i \in DOMAIN tracks : tracks[i].slug \in Slug
      BY <2>1 DEF Artist, Track
  <2>. QED BY <2>2 DEF ArtistSlugs, TrackSlugs
<1>3. IsFiniteSet(ArtistSlugs)
  <2>. DEFINE f == [i \in DOMAIN artists |-> artists[i].slug]
  <2>1. f \in Surjection(DOMAIN artists, ArtistSlugs)
      BY DEF Surjection, ArtistSlugs
  <2>2. IsFiniteSet(DOMAIN artists)
      BY <1>1, FS_Interval
  <2>. HIDE DEF f
  <2>. QED BY <2>1, <2>2, FS_Surjection
<1>4. ASSUME NEW a PROVE IsFiniteSet(TrackSlugs(a))
  <2>. DEFINE f == [i \in DOMAIN tracks |-> tracks[i].slug]
              all == {tracks[i].slug : i \in DOMAIN tracks}
  <2>1. f \in Surjection(DOMAIN tracks, all)
      BY DEF Surjection
  <2>2. IsFiniteSet(DOMAIN tracks)
      BY <1>1, FS_Interval
  <2>3. TrackSlugs(a) \subseteq all
      BY DEF TrackSlugs
  <2>. HIDE DEF f, all
  <2>. QED BY <2>1, <2>2, <2>3, FS_Surjection, FS_Subset
<1>. QED BY <1>2, <1>3, <1>4

\* A new artist adds its slug.
LEMMA ArtistAppended ==
    ASSUME artists \in Seq(Artist), NEW row \in Artist, artists' = Append(artists, row)
    PROVE  /\ artists' \in Seq(Artist)
           /\ ArtistSlugs' = ArtistSlugs \cup {row.slug}
           /\ \A i \in DOMAIN artists' :
                \/ i \in DOMAIN artists /\ artists'[i] = artists[i]
                \/ artists'[i] = row
<1>1. /\ artists' \in Seq(Artist)
      /\ DOMAIN artists' = 1 .. Len(artists) + 1
      /\ DOMAIN artists = 1 .. Len(artists)
      /\ \A i \in 1 .. Len(artists) : artists'[i] = artists[i]
      /\ artists'[Len(artists) + 1] = row
      /\ Len(artists) \in Nat
    BY AppendProperties
<1>2. ArtistSlugs' = ArtistSlugs \cup {row.slug}
  <2>1. ASSUME NEW s \in ArtistSlugs' PROVE s \in ArtistSlugs \cup {row.slug}
      BY <1>1, <2>1 DEF ArtistSlugs
  <2>2. ASSUME NEW s \in ArtistSlugs \cup {row.slug} PROVE s \in ArtistSlugs'
    <3>1. CASE s \in ArtistSlugs
        BY <1>1, <3>1 DEF ArtistSlugs
    <3>2. CASE s = row.slug
        BY <1>1, <3>2 DEF ArtistSlugs
    <3>. QED BY <3>1, <3>2
  <2>. QED BY <2>1, <2>2
<1>. QED BY <1>1, <1>2

\* A new track adds its slug to those of its artist, and to no other's.
LEMMA TrackAppended ==
    ASSUME tracks \in Seq(Track), NEW row \in Track, tracks' = Append(tracks, row)
    PROVE  /\ tracks' \in Seq(Track)
           /\ TrackSlugs(row.artist)' = TrackSlugs(row.artist) \cup {row.slug}
           /\ \A a : a # row.artist => TrackSlugs(a)' = TrackSlugs(a)
           /\ \A i \in DOMAIN tracks : i \in DOMAIN tracks' /\ tracks'[i] = tracks[i]
           /\ \A i \in DOMAIN tracks' :
                  \/ i \in DOMAIN tracks /\ tracks'[i] = tracks[i]
                  \/ tracks'[i] = row
<1>1. /\ tracks' \in Seq(Track)
      /\ DOMAIN tracks' = 1 .. Len(tracks) + 1
      /\ DOMAIN tracks = 1 .. Len(tracks)
      /\ \A i \in 1 .. Len(tracks) : tracks'[i] = tracks[i]
      /\ tracks'[Len(tracks) + 1] = row
      /\ Len(tracks) \in Nat
    BY AppendProperties
<1>2. /\ \A i \in DOMAIN tracks : i \in DOMAIN tracks' /\ tracks'[i] = tracks[i]
      /\ \A i \in DOMAIN tracks' :
             \/ i \in DOMAIN tracks /\ tracks'[i] = tracks[i]
             \/ tracks'[i] = row
      /\ Len(tracks) + 1 \in DOMAIN tracks'
    BY <1>1
<1>3. \A a : TrackSlugs(a)' = TrackSlugs(a) \cup (IF a = row.artist THEN {row.slug} ELSE {})
  <2>. SUFFICES ASSUME NEW a
                PROVE  TrackSlugs(a)' = TrackSlugs(a)
                                          \cup (IF a = row.artist THEN {row.slug} ELSE {})
      OBVIOUS
  <2>1. TrackSlugs(a)' = {tracks'[i].slug : i \in {j \in DOMAIN tracks' : tracks'[j].artist = a}}
      BY DEF TrackSlugs
  <2>2. ASSUME NEW s \in TrackSlugs(a)'
        PROVE  s \in TrackSlugs(a) \cup (IF a = row.artist THEN {row.slug} ELSE {})
      BY <1>2, <2>1, <2>2 DEF TrackSlugs
  <2>3. ASSUME NEW s \in TrackSlugs(a) PROVE s \in TrackSlugs(a)'
      BY <1>2, <2>1, <2>3 DEF TrackSlugs
  <2>4. a = row.artist => row.slug \in TrackSlugs(a)'
      BY <1>1, <1>2, <2>1
  <2>. QED BY <2>2, <2>3, <2>4
<1>. QED BY <1>1, <1>2, <1>3

\* A track row that is updated in other columns keeps slugs, artists and bases.
LEMMA TrackEdited ==
    ASSUME tracks \in Seq(Track), NEW i \in DOMAIN tracks, NEW row \in Track,
           row.artist = tracks[i].artist, row.slug = tracks[i].slug, row.base = tracks[i].base,
           tracks' = [tracks EXCEPT ![i] = row]
    PROVE  /\ tracks' \in Seq(Track)
           /\ DOMAIN tracks' = DOMAIN tracks
           /\ tracks'[i] = row
           /\ \A j \in DOMAIN tracks : j # i => tracks'[j] = tracks[j]
           /\ \A a : TrackSlugs(a)' = TrackSlugs(a)
<1>1. /\ tracks' \in Seq(Track)
      /\ DOMAIN tracks' = DOMAIN tracks
      /\ tracks'[i] = row
      /\ \A j \in DOMAIN tracks : j # i => tracks'[j] = tracks[j]
    BY ExceptSeq
<1>2. \A j \in DOMAIN tracks : /\ tracks'[j].slug = tracks[j].slug
                               /\ tracks'[j].artist = tracks[j].artist
    BY <1>1
<1>3. \A a : TrackSlugs(a)' = TrackSlugs(a)
    BY <1>1, <1>2 DEF TrackSlugs
<1>. QED BY <1>1, <1>3

\* No row of artists or tracks, and no call, changes what another call read, unless the
\* call is told.
LEMMA FreshKept ==
    ASSUME FunctionTypes, NEW q \in People, Fresh(q),
           \/ call'[q] = call[q]
           \/ /\ call[q] \in Registering \cup Making
              /\ call'[q] = [call[q] EXCEPT !.raced = TRUE],
           call[q].step = "registering" => users' = users \/ call'[q].raced,
           call[q].step = "artist" =>
              /\ ArtistSlugs \subseteq ArtistSlugs'
              /\ ArtistSlugs' = ArtistSlugs \/ call'[q].raced,
           call[q].step = "track" =>
              \A a : a = call[q].artist =>
                  /\ TrackSlugs(a) \subseteq TrackSlugs(a)'
                  /\ TrackSlugs(a)' = TrackSlugs(a) \/ call'[q].raced,
           call[q].step = "version" =>
              \A i : i = call[q].track /\ i \in DOMAIN tracks =>
                  /\ i \in DOMAIN tracks'
                  /\ tracks'[i].versions = tracks[i].versions
    PROVE  Fresh(q)'
<1>1. call'[q] # call[q] =>
         /\ call'[q].raced = TRUE
         /\ call'[q].step = call[q].step
         /\ call[q].step # "version"
         /\ call[q] \in Making => /\ call'[q].slug = call[q].slug
                                  /\ call'[q].title = call[q].title
                                  /\ call'[q].artist = call[q].artist
    BY DEF Registering, Making
<1>2. /\ call'[q].step = call[q].step
      /\ call[q].step = "registering" => call'[q].raced \/ call'[q] = call[q]
    BY <1>1
<1>3. CASE call[q].step = "registering"
    BY <1>1, <1>2, <1>3 DEF Fresh
<1>4. CASE call[q].step = "artist"
  <2>1. /\ call'[q].slug = call[q].slug
        /\ call'[q].title = call[q].title
        /\ call[q].raced => call'[q].raced
      BY <1>1, <1>4, CallKinds
  <2>2. Gapless(call[q].slug, Slugify(call[q].title), ArtistSlugs')
      BY <1>4, GaplessGrows DEF Fresh
  <2>3. call'[q].raced \/ call'[q].slug \notin ArtistSlugs'
      BY <1>4, <2>1 DEF Fresh
  <2>. QED BY <1>2, <1>4, <2>1, <2>2, <2>3 DEF Fresh
<1>5. CASE call[q].step = "track"
  <2>1. PICK a \in {call[q].artist} : TRUE
      OBVIOUS
  <2>2. /\ call'[q].slug = call[q].slug
        /\ call'[q].title = call[q].title
        /\ call'[q].artist = a
        /\ call[q].raced => call'[q].raced
      BY <1>1, <1>5, <2>1, CallKinds
  <2>3. Gapless(call[q].slug, Slugify(call[q].title), TrackSlugs(a)')
      BY <1>5, <2>1, GaplessGrows DEF Fresh
  <2>4. call'[q].raced \/ call'[q].slug \notin TrackSlugs(a)'
      BY <1>5, <2>1, <2>2 DEF Fresh
  <2>5. TrackSlugs(call[q].artist)' = TrackSlugs(a)'
      BY <2>2 DEF TrackSlugs
  <2>. QED BY <1>2, <1>5, <2>2, <2>3, <2>4, <2>5 DEF Fresh
<1>6. CASE call[q].step = "version"
    BY <1>1, <1>2, <1>6 DEF Fresh
<1>7. CASE call[q].step \notin {"registering", "artist", "track", "version"}
    BY <1>2, <1>7 DEF Fresh
<1>. QED BY <1>3, <1>4, <1>5, <1>6, <1>7

\* The rows of tracks stay held by at most one call if no call takes a row.
LEMMA HoldersKept ==
    ASSUME OneHolder, \A q \in People : call'[q].step = "version" => call'[q] = call[q]
    PROVE  OneHolder'
BY DEF OneHolder

-----------------------------------------------------------------------------
(* The steps keep the invariant                                            *)

\* A call begins with something fresh.
LEMMA BeginStep ==
    ASSUME IInv, NEW p \in People, NEW c \in CallRecord, Begin(p, c),
           UNCHANGED <<accountVars, catalogVars>>,
           c.step = "version" => ~TrackLocked(c.track),
           Fresh(p)'
    PROVE  IInv'
<1>1. /\ call' \in [People -> CallRecord]
      /\ call'[p] = c
      /\ \A q \in People : q # p => call'[q] = call[q]
    BY CallEdits DEF IInv, Types
<1>2. /\ users' = users /\ token' = token
      /\ artists' = artists /\ tracks' = tracks
    BY DEF accountVars, catalogVars
<1>3. Types'
    BY <1>1, <1>2 DEF IInv, Types, TypeOK, FunctionTypes, AccountsTypeOK, CallRecord
<1>4. UsersAreUnique' /\ VersionsAreCounted'
    BY <1>2 DEF IInv, UsersAreUnique, VersionsAreCounted
<1>5. OneHolder'
    BY <1>1 DEF IInv, OneHolder, TrackLocked
<1>6. ASSUME NEW q \in People, q # p PROVE Fresh(q)'
  <2>1. Fresh(q) /\ FunctionTypes
      BY DEF IInv, Types, CallsAreFresh
  <2>2. ArtistSlugs' = ArtistSlugs /\ \A a : TrackSlugs(a)' = TrackSlugs(a)
      BY <1>2 DEF ArtistSlugs, TrackSlugs
  <2>. QED BY <1>1, <1>2, <1>6, <2>1, <2>2, FreshKept
<1>7. SlugsWithoutGaps'
    BY <1>2 DEF IInv, SlugsWithoutGaps, ArtistSlugs, TrackSlugs
<1>. QED BY <1>3, <1>4, <1>5, <1>6, <1>7 DEF IInv, CallsAreFresh

\* A call ends and leaves everything else as it is.
LEMMA DropStep ==
    ASSUME IInv, NEW p \in People, Drop(p), UNCHANGED <<accountVars, catalogVars>>
    PROVE  IInv'
<1>1. /\ call' \in [People -> CallRecord]
      /\ call'[p] = Idle
      /\ \A q \in People : q # p => call'[q] = call[q]
    BY CallEdits DEF IInv, Types
<1>2. /\ users' = users /\ token' = token
      /\ artists' = artists /\ tracks' = tracks
    BY DEF accountVars, catalogVars
<1>3. Types'
    BY <1>1, <1>2 DEF IInv, Types, TypeOK, FunctionTypes, AccountsTypeOK, CallRecord
<1>4. UsersAreUnique' /\ VersionsAreCounted'
    BY <1>2 DEF IInv, UsersAreUnique, VersionsAreCounted
<1>5. OneHolder'
    BY <1>1, HoldersKept DEF IInv, Idle
<1>6. ASSUME NEW q \in People PROVE Fresh(q)'
  <2>1. Fresh(q)
      BY DEF IInv, CallsAreFresh
  <2>2. CASE q = p
      BY <1>1, <2>2 DEF Fresh, Idle
  <2>3. CASE q # p
      BY <1>1, <1>2, <2>1, <2>3 DEF Fresh, ArtistSlugs, TrackSlugs
  <2>. QED BY <2>2, <2>3
<1>7. SlugsWithoutGaps'
    BY <1>2 DEF IInv, SlugsWithoutGaps, ArtistSlugs, TrackSlugs
<1>. QED BY <1>3, <1>4, <1>5, <1>6, <1>7 DEF IInv, CallsAreFresh

\* Logging in and out changes tokens, to rows of users.
LEMMA TokenStep ==
    ASSUME IInv, NEW p \in People, NEW t \in users \cup {None},
           token' = [token EXCEPT ![p] = t], UNCHANGED <<users, call, catalogVars>>
    PROVE  IInv'
<1>1. artists' = artists /\ tracks' = tracks
    BY DEF catalogVars
<1>2. Types'
    BY <1>1 DEF IInv, Types, TypeOK, FunctionTypes, AccountsTypeOK
<1>3. UsersAreUnique' /\ VersionsAreCounted' /\ OneHolder'
    BY <1>1 DEF IInv, UsersAreUnique, VersionsAreCounted, OneHolder
<1>4. ASSUME NEW q \in People PROVE Fresh(q)'
  <2>1. Fresh(q) /\ FunctionTypes
      BY DEF IInv, Types, CallsAreFresh
  <2>2. ArtistSlugs' = ArtistSlugs /\ \A a : TrackSlugs(a)' = TrackSlugs(a)
      BY <1>1 DEF ArtistSlugs, TrackSlugs
  <2>. QED BY <1>1, <2>1, <2>2, FreshKept
<1>5. SlugsWithoutGaps'
    BY <1>1 DEF IInv, SlugsWithoutGaps, ArtistSlugs, TrackSlugs
<1>. QED BY <1>2, <1>3, <1>4, <1>5 DEF IInv, CallsAreFresh

\* A person registers: the row has what nobody else's has, and the other registrations
\* are overtaken.
LEMMA InsertStep ==
    ASSUME IInv, NEW p \in People, Insert(p), UNCHANGED catalogVars
    PROVE  IInv'
<1>1. PICK row \in {RowOf(p, call[p].data)} : TRUE
    OBVIOUS
<1>2. PICK overtaken \in {{q \in People : call[q].step = "registering"}} : TRUE
    OBVIOUS
<1>3. /\ call[p].step = "registering"
      /\ \A u \in users : ~Same(u, row)
      /\ users' = users \cup {row}
      /\ token' = [token EXCEPT ![p] = row]
      /\ Finish(p, overtaken)
      /\ artists' = artists /\ tracks' = tracks
    BY <1>1, <1>2 DEF Insert, catalogVars
<1>4. FunctionTypes /\ TypeOK
    BY DEF IInv, Types
<1>5. /\ overtaken \in SUBSET {q \in People : call[q] \in Registering \cup Making}
      /\ p \in overtaken
    BY <1>2, <1>3, <1>4, CallKinds
<1>6. /\ call' \in [People -> CallRecord]
      /\ call'[p] = Idle
      /\ \A q \in People : q # p /\ q \notin overtaken => call'[q] = call[q]
      /\ \A q \in overtaken : q # p => call'[q] = [call[q] EXCEPT !.raced = TRUE]
    BY <1>3, <1>4, <1>5, CallEdits
<1>7. row \in User /\ Lower[row.email] = row.email
  <2>1. call[p].data \in [email: Addresses, username: Names]
      BY <1>3, <1>4, CallKinds, AccountsAssumption DEF Registering
  <2>2. /\ Lower[call[p].data.email] \in Names
        /\ Lower[Lower[call[p].data.email]] = Lower[call[p].data.email]
        /\ Lower[call[p].data.email] \in Addresses
      BY <2>1, AccountsAssumption
  <2>. QED BY <1>1, <2>1, <2>2 DEF RowOf, User
<1>8. Types'
    BY <1>3, <1>4, <1>6, <1>7 DEF Types, TypeOK, FunctionTypes, AccountsTypeOK, CallRecord
<1>9. UsersAreUnique' /\ VersionsAreCounted'
  <2>1. UsersAreUnique /\ VersionsAreCounted
      BY DEF IInv
  <2>. QED BY <1>3, <1>7, <2>1 DEF UsersAreUnique, VersionsAreCounted, Same
<1>10. ASSUME NEW q \in overtaken, q # p
       PROVE  /\ call[q].step = "registering" /\ call[q] \in Registering
              /\ call'[q].step = "registering" /\ call'[q].raced
    BY <1>2, <1>4, <1>6, <1>10, CallKinds DEF Registering
<1>11. OneHolder'
  <2>1. \A q \in People : call'[q].step = "version" => call'[q] = call[q]
      BY <1>6, <1>10 DEF Idle
  <2>. QED BY <2>1, HoldersKept DEF IInv
<1>12. ASSUME NEW q \in People PROVE Fresh(q)'
  <2>1. CASE q = p
      BY <1>6, <2>1 DEF Fresh, Idle
  <2>2. CASE q # p
    <3>1. Fresh(q)
        BY DEF IInv, CallsAreFresh
    <3>2. \/ call'[q] = call[q] /\ call[q].step # "registering"
          \/ /\ call[q] \in Registering
             /\ call'[q] = [call[q] EXCEPT !.raced = TRUE]
             /\ call'[q].raced
        BY <1>2, <1>6, <1>10, <2>2
    <3>3. ArtistSlugs' = ArtistSlugs /\ \A a : TrackSlugs(a)' = TrackSlugs(a)
        BY <1>3 DEF ArtistSlugs, TrackSlugs
    <3>. QED BY <1>3, <1>4, <3>1, <3>2, <3>3, FreshKept
  <2>. QED BY <2>1, <2>2
<1>13. SlugsWithoutGaps'
    BY <1>3 DEF IInv, SlugsWithoutGaps, ArtistSlugs, TrackSlugs
<1>. QED BY <1>8, <1>9, <1>11, <1>12, <1>13 DEF IInv, CallsAreFresh

\* An artist is made: its slug was free, and no number below its own is.
LEMMA InsertArtistStep ==
    ASSUME IInv, NEW p \in People, InsertArtist(p)
    PROVE  IInv'
<1>1. PICK c \in {call[p]} : TRUE
    OBVIOUS
<1>2. PICK overtaken \in {{q \in People : call[q].step = "artist"}} : TRUE
    OBVIOUS
<1>3. PICK row \in {[slug |-> c.slug, name |-> c.title, base |-> Slugify(c.title)]} : TRUE
    OBVIOUS
<1>4. /\ c.step = "artist"
      /\ c.slug \notin ArtistSlugs
      /\ artists' = Append(artists, row)
      /\ Finish(p, overtaken)
      /\ users' = users /\ token' = token /\ tracks' = tracks
    BY <1>1, <1>2, <1>3 DEF InsertArtist, accountVars
<1>5. FunctionTypes /\ TypeOK /\ artists \in Seq(Artist)
    BY DEF IInv, Types, TypeOK
<1>6. /\ overtaken \in SUBSET {q \in People : call[q] \in Registering \cup Making}
      /\ p \in overtaken
    BY <1>1, <1>2, <1>4, <1>5, CallKinds
<1>7. /\ call' \in [People -> CallRecord]
      /\ call'[p] = Idle
      /\ \A q \in People : q # p /\ q \notin overtaken => call'[q] = call[q]
      /\ \A q \in overtaken : q # p => call'[q] = [call[q] EXCEPT !.raced = TRUE]
    BY <1>4, <1>5, <1>6, CallEdits
<1>8. row \in Artist
  <2>1. c \in Making
      BY <1>1, <1>4, <1>5, CallKinds
  <2>2. c.slug \in Slug /\ c.title \in Titles
      BY <2>1 DEF Making
  <2>3. Slugify(c.title) \in Slug
      BY <2>2, SlugType
  <2>. QED BY <1>3, <2>2, <2>3 DEF Artist
<1>9. /\ artists' \in Seq(Artist)
      /\ ArtistSlugs' = ArtistSlugs \cup {row.slug}
      /\ \A i \in DOMAIN artists' :
             \/ i \in DOMAIN artists /\ artists'[i] = artists[i]
             \/ artists'[i] = row
    BY <1>4, <1>5, <1>8, ArtistAppended
<1>10. Types'
    BY <1>4, <1>5, <1>7, <1>9 DEF Types, TypeOK, FunctionTypes, AccountsTypeOK, CallRecord
<1>11. UsersAreUnique' /\ VersionsAreCounted'
    BY <1>4 DEF IInv, UsersAreUnique, VersionsAreCounted
<1>12. ASSUME NEW q \in overtaken, q # p
       PROVE  /\ call[q].step = "artist" /\ call[q] \in Making
              /\ call'[q].step = "artist" /\ call'[q].raced
    BY <1>2, <1>5, <1>7, <1>12, CallKinds DEF Making
<1>13. OneHolder'
  <2>1. \A q \in People : call'[q].step = "version" => call'[q] = call[q]
      BY <1>7, <1>12 DEF Idle
  <2>. QED BY <2>1, HoldersKept DEF IInv
<1>14. ASSUME NEW q \in People PROVE Fresh(q)'
  <2>1. CASE q = p
      BY <1>7, <2>1 DEF Fresh, Idle
  <2>2. CASE q # p
    <3>1. Fresh(q)
        BY DEF IInv, CallsAreFresh
    <3>2. \/ call'[q] = call[q] /\ call[q].step # "artist"
          \/ /\ call[q] \in Making
             /\ call'[q] = [call[q] EXCEPT !.raced = TRUE]
             /\ call'[q].raced
        BY <1>2, <1>7, <1>12, <2>2
    <3>3. ArtistSlugs \subseteq ArtistSlugs' /\ \A a : TrackSlugs(a)' = TrackSlugs(a)
        BY <1>4, <1>9 DEF TrackSlugs
    <3>. QED BY <1>4, <1>5, <3>1, <3>2, <3>3, FreshKept
  <2>. QED BY <2>1, <2>2
<1>15. SlugsWithoutGaps'
  <2>1. ASSUME NEW i \in DOMAIN artists'
        PROVE  Gapless(artists'[i].slug, artists'[i].base, ArtistSlugs)
    <3>1. CASE i \in DOMAIN artists /\ artists'[i] = artists[i]
        BY <3>1 DEF IInv, SlugsWithoutGaps
    <3>2. CASE artists'[i] = row
        BY <1>1, <1>3, <1>4, <3>2 DEF IInv, CallsAreFresh, Fresh
    <3>. QED BY <1>9, <3>1, <3>2
  <2>2. \A i \in DOMAIN artists' : Gapless(artists'[i].slug, artists'[i].base, ArtistSlugs')
      BY <1>9, <2>1, GaplessGrows
  <2>3. (\A i \in DOMAIN tracks :
             Gapless(tracks[i].slug, tracks[i].base, TrackSlugs(tracks[i].artist)))'
      BY <1>4 DEF IInv, SlugsWithoutGaps, TrackSlugs
  <2>. QED BY <2>2, <2>3 DEF SlugsWithoutGaps
<1>. QED BY <1>10, <1>11, <1>13, <1>14, <1>15 DEF IInv, CallsAreFresh

\* The same said of the slugs of the track's artist, whoever that is.
LEMMA TracksStayGapless ==
    ASSUME \A i \in DOMAIN tracks' : \A a :
              a = tracks'[i].artist => Gapless(tracks'[i].slug, tracks'[i].base, TrackSlugs(a)')
    PROVE  (\A i \in DOMAIN tracks :
               Gapless(tracks[i].slug, tracks[i].base, TrackSlugs(tracks[i].artist)))'
BY DEF TrackSlugs

\* A track is made: as for an artist, among the tracks of its artist.
LEMMA InsertTrackStep ==
    ASSUME IInv, NEW p \in People, InsertTrack(p)
    PROVE  IInv'
<1>1. PICK c \in {call[p]} : TRUE
    OBVIOUS
<1>2. PICK overtaken \in {{q \in People :
                              call[q].step = "track" /\ call[q].artist = c.artist}} : TRUE
    OBVIOUS
<1>3. PICK row \in {[artist |-> c.artist, slug |-> c.slug, title |-> c.title,
                     base |-> Slugify(c.title), versions |-> <<>>]} : TRUE
    OBVIOUS
<1>4. /\ c.step = "track"
      /\ c.slug \notin TrackSlugs(c.artist)
      /\ tracks' = Append(tracks, row)
      /\ Finish(p, overtaken)
      /\ users' = users /\ token' = token /\ artists' = artists
    BY <1>1, <1>2, <1>3 DEF InsertTrack, accountVars
<1>5. FunctionTypes /\ TypeOK /\ tracks \in Seq(Track)
    BY DEF IInv, Types, TypeOK
<1>6. /\ overtaken \in SUBSET {q \in People : call[q] \in Registering \cup Making}
      /\ p \in overtaken
    BY <1>1, <1>2, <1>4, <1>5, CallKinds
<1>7. /\ call' \in [People -> CallRecord]
      /\ call'[p] = Idle
      /\ \A q \in People : q # p /\ q \notin overtaken => call'[q] = call[q]
      /\ \A q \in overtaken : q # p => call'[q] = [call[q] EXCEPT !.raced = TRUE]
    BY <1>4, <1>5, <1>6, CallEdits
<1>8. row \in Track
  <2>1. c \in Making
      BY <1>1, <1>4, <1>5, CallKinds
  <2>2. c.slug \in Slug /\ c.title \in Titles /\ c.artist \in Nat
      BY <2>1 DEF Making
  <2>3. Slugify(c.title) \in Slug
      BY <2>2, SlugType
  <2>4. PICK none \in Seq(Nat) : none = <<>>
    <3>1. <<>> \in Seq(Nat)
        OBVIOUS
    <3>. QED BY <3>1, Zenon
  <2>5. row = [artist |-> c.artist, slug |-> c.slug, title |-> c.title,
               base |-> Slugify(c.title), versions |-> none]
      BY <1>3, <2>4
  <2>. QED BY <2>2, <2>3, <2>5 DEF Track
<1>9. /\ tracks' \in Seq(Track)
      /\ TrackSlugs(row.artist)' = TrackSlugs(row.artist) \cup {row.slug}
      /\ \A a : a # row.artist => TrackSlugs(a)' = TrackSlugs(a)
      /\ \A i \in DOMAIN tracks : i \in DOMAIN tracks' /\ tracks'[i] = tracks[i]
      /\ \A i \in DOMAIN tracks' :
             \/ i \in DOMAIN tracks /\ tracks'[i] = tracks[i]
             \/ tracks'[i] = row
    BY <1>4, <1>5, <1>8, TrackAppended
<1>10. row.artist = c.artist /\ \A a : TrackSlugs(a) \subseteq TrackSlugs(a)'
    BY <1>3, <1>9
<1>11. Types'
    BY <1>4, <1>5, <1>7, <1>9 DEF Types, TypeOK, FunctionTypes, AccountsTypeOK, CallRecord
<1>12. UsersAreUnique'
    BY <1>4 DEF IInv, UsersAreUnique
<1>13. VersionsAreCounted'
  <2>1. \A i \in DOMAIN tracks' :
            tracks'[i].versions = [j \in 1 .. Len(tracks'[i].versions) |-> j]
    <3>1. <<>> = [j \in 1 .. Len(<<>>) |-> j]
        OBVIOUS
    <3>2. row.versions = <<>>
        BY <1>3
    <3>. QED BY <1>9, <3>1, <3>2 DEF IInv, VersionsAreCounted
  <2>. QED BY <2>1 DEF VersionsAreCounted
<1>14. ASSUME NEW q \in overtaken, q # p
       PROVE  /\ call[q].step = "track" /\ call[q] \in Making
              /\ call'[q].step = "track" /\ call'[q].raced
  <2>1. call[q].step = "track" /\ call[q] \in Making
      BY <1>2, <1>5, <1>14, CallKinds
  <2>2. call'[q] = [call[q] EXCEPT !.raced = TRUE]
      BY <1>7, <1>14
  <2>. QED BY <2>1, <2>2 DEF Making
<1>15. OneHolder'
  <2>1. \A q \in People : call'[q].step = "version" => call'[q] = call[q]
      BY <1>7, <1>14 DEF Idle
  <2>. QED BY <2>1, HoldersKept DEF IInv
<1>16. ASSUME NEW q \in People PROVE Fresh(q)'
  <2>1. CASE q = p
      BY <1>7, <2>1 DEF Fresh, Idle
  <2>2. CASE q # p
    <3>1. Fresh(q)
        BY DEF IInv, CallsAreFresh
    <3>2. \/ /\ call'[q] = call[q]
             /\ call[q].step = "track" => call[q].artist # c.artist
          \/ /\ call[q] \in Making
             /\ call[q].step = "track"
             /\ call'[q] = [call[q] EXCEPT !.raced = TRUE]
             /\ call'[q].raced
        BY <1>2, <1>7, <1>14, <2>2
    <3>3. ArtistSlugs' = ArtistSlugs
        BY <1>4 DEF ArtistSlugs
    <3>. QED BY <1>4, <1>5, <1>9, <1>10, <3>1, <3>2, <3>3, FreshKept
  <2>. QED BY <2>1, <2>2
<1>17. SlugsWithoutGaps'
  <2>1. ASSUME NEW i \in DOMAIN tracks', NEW a, a = tracks'[i].artist
        PROVE  Gapless(tracks'[i].slug, tracks'[i].base, TrackSlugs(a))
    <3>1. CASE i \in DOMAIN tracks /\ tracks'[i] = tracks[i]
        BY <2>1, <3>1 DEF IInv, SlugsWithoutGaps
    <3>2. CASE tracks'[i] = row
      <4>1. Gapless(c.slug, Slugify(c.title), TrackSlugs(c.artist))
          BY <1>1, <1>4 DEF IInv, CallsAreFresh, Fresh
      <4>. QED BY <1>3, <2>1, <3>2, <4>1
    <3>. QED BY <1>9, <3>1, <3>2
  <2>2. \A i \in DOMAIN tracks' : \A a :
            a = tracks'[i].artist => Gapless(tracks'[i].slug, tracks'[i].base, TrackSlugs(a)')
      BY <1>10, <2>1, GaplessGrows
  <2>3. (\A i \in DOMAIN tracks :
             Gapless(tracks[i].slug, tracks[i].base, TrackSlugs(tracks[i].artist)))'
      BY <2>2, TracksStayGapless
  <2>4. (\A i \in DOMAIN artists : Gapless(artists[i].slug, artists[i].base, ArtistSlugs))'
      BY <1>4 DEF IInv, SlugsWithoutGaps, ArtistSlugs
  <2>. QED BY <2>3, <2>4 DEF SlugsWithoutGaps
<1>. QED BY <1>11, <1>12, <1>13, <1>15, <1>16, <1>17 DEF IInv, CallsAreFresh

\* A row of tracks changes in its title or its versions: nobody holds it afterwards, and
\* no slug changes.
LEMMA TrackRowStep ==
    ASSUME IInv, NEW i \in DOMAIN tracks, NEW row \in Track,
           row.artist = tracks[i].artist, row.slug = tracks[i].slug, row.base = tracks[i].base,
           row.versions = [j \in 1 .. Len(row.versions) |-> j],
           tracks' = [tracks EXCEPT ![i] = row],
           UNCHANGED <<users, token, artists>>,
           call' \in [People -> CallRecord],
           \A q \in People : \/ call'[q] = Idle
                             \/ /\ call'[q] = call[q]
                                /\ call[q].step = "version" => call[q].track # i
    PROVE  IInv'
<1>1. FunctionTypes /\ TypeOK /\ tracks \in Seq(Track)
    BY DEF IInv, Types, TypeOK
<1>2. /\ tracks' \in Seq(Track)
      /\ DOMAIN tracks' = DOMAIN tracks
      /\ tracks'[i] = row
      /\ \A j \in DOMAIN tracks : j # i => tracks'[j] = tracks[j]
      /\ \A a : TrackSlugs(a)' = TrackSlugs(a)
    BY <1>1, TrackEdited
<1>3. Types'
    BY <1>1, <1>2 DEF Types, TypeOK, FunctionTypes, AccountsTypeOK, CallRecord
<1>4. UsersAreUnique'
    BY DEF IInv, UsersAreUnique
<1>5. VersionsAreCounted'
    BY <1>2 DEF IInv, VersionsAreCounted
<1>6. OneHolder'
  <2>1. \A q \in People : call'[q].step = "version" => call'[q] = call[q]
      BY DEF Idle
  <2>. QED BY <2>1, HoldersKept DEF IInv
<1>7. ASSUME NEW q \in People PROVE Fresh(q)'
  <2>1. CASE call'[q] = Idle
      BY <2>1 DEF Fresh, Idle
  <2>2. CASE call'[q] = call[q] /\ (call[q].step = "version" => call[q].track # i)
    <3>1. Fresh(q)
        BY DEF IInv, CallsAreFresh
    <3>2. ArtistSlugs' = ArtistSlugs
        BY DEF ArtistSlugs
    <3>. QED BY <1>1, <1>2, <2>2, <3>1, <3>2, FreshKept
  <2>. QED BY <2>1, <2>2
<1>8. SlugsWithoutGaps'
  <2>1. \A j \in DOMAIN tracks : /\ tracks'[j].slug = tracks[j].slug
                                 /\ tracks'[j].base = tracks[j].base
                                 /\ tracks'[j].artist = tracks[j].artist
      BY <1>2
  <2>2. \A j \in DOMAIN tracks' : \A a :
            a = tracks'[j].artist => Gapless(tracks'[j].slug, tracks'[j].base, TrackSlugs(a)')
      BY <1>2, <2>1 DEF IInv, SlugsWithoutGaps
  <2>3. (\A j \in DOMAIN tracks :
             Gapless(tracks[j].slug, tracks[j].base, TrackSlugs(tracks[j].artist)))'
      BY <2>2, TracksStayGapless
  <2>4. (\A j \in DOMAIN artists : Gapless(artists[j].slug, artists[j].base, ArtistSlugs))'
      BY DEF IInv, SlugsWithoutGaps, ArtistSlugs
  <2>. QED BY <2>3, <2>4 DEF SlugsWithoutGaps
<1>. QED BY <1>3, <1>4, <1>5, <1>6, <1>7, <1>8 DEF IInv, CallsAreFresh

\* A version is added under the next number, by the call that held the row.
LEMMA InsertVersionStep ==
    ASSUME IInv, NEW p \in People, InsertVersion(p)
    PROVE  IInv'
<1>1. PICK c \in {call[p]} : TRUE
    OBVIOUS
<1>2. PICK i \in {c.track} : TRUE
    OBVIOUS
<1>3. PICK row \in {[tracks[i] EXCEPT !.versions = Append(@, c.number)]} : TRUE
    OBVIOUS
<1>4. /\ c.step = "version"
      /\ tracks' = [tracks EXCEPT ![i] = row]
      /\ Drop(p)
      /\ users' = users /\ token' = token /\ artists' = artists
    BY <1>1, <1>2, <1>3 DEF InsertVersion, accountVars
<1>5. FunctionTypes /\ tracks \in Seq(Track)
    BY DEF IInv, Types, TypeOK
<1>6. /\ i \in DOMAIN tracks
      /\ c.number = Len(tracks[i].versions) + 1
    BY <1>1, <1>2, <1>4 DEF IInv, CallsAreFresh, Fresh
<1>7. tracks[i] \in Track /\ tracks[i].versions \in Seq(Nat) /\ c.number \in Nat
  <2>1. tracks[i] \in Track
      BY <1>5, <1>6
  <2>2. tracks[i].versions \in Seq(Nat)
      BY <2>1 DEF Track
  <2>. QED BY <1>6, <2>1, <2>2
<1>8. /\ row.artist = tracks[i].artist
      /\ row.slug = tracks[i].slug
      /\ row.base = tracks[i].base
      /\ row.versions = Append(tracks[i].versions, c.number)
    BY <1>3, <1>7 DEF Track
<1>9. Append(tracks[i].versions, c.number) \in Seq(Nat)
    BY <1>7
<1>10. row \in Track
    BY <1>3, <1>7, <1>9 DEF Track
<1>11. row.versions = [j \in 1 .. Len(row.versions) |-> j]
  <2>1. PICK v \in Seq(Nat) : v = tracks[i].versions
      BY <1>7
  <2>2. v = [j \in 1 .. Len(v) |-> j]
      BY <1>6, <2>1 DEF IInv, VersionsAreCounted
  <2>3. Append(v, Len(v) + 1) = [j \in 1 .. Len(v) + 1 |-> j]
      BY <2>2, AppendProperties
  <2>4. Len(Append(v, Len(v) + 1)) = Len(v) + 1
      BY AppendProperties
  <2>. QED BY <1>6, <1>8, <2>1, <2>3, <2>4
<1>12. /\ call' \in [People -> CallRecord]
       /\ \A q \in People : \/ call'[q] = Idle
                            \/ /\ call'[q] = call[q]
                               /\ call[q].step = "version" => call[q].track # i
  <2>1. /\ call' \in [People -> CallRecord]
        /\ call'[p] = Idle
        /\ \A q \in People : q # p => call'[q] = call[q]
      BY <1>4, <1>5, CallEdits
  <2>2. \A q \in People : q # p /\ call[q].step = "version" => call[q].track # i
      BY <1>1, <1>2, <1>4 DEF IInv, OneHolder
  <2>. QED BY <2>1, <2>2
<1>. QED BY <1>4, <1>6, <1>8, <1>10, <1>11, <1>12, TrackRowStep

\* A track nobody holds is given another title.
LEMMA RetitleStep ==
    ASSUME IInv, NEW p \in People, NEW i \in DOMAIN tracks, NEW title \in Titles,
           RetitleTrack(p, i, title)
    PROVE  IInv'
<1>1. PICK row \in {[tracks[i] EXCEPT !.title = title]} : TRUE
    OBVIOUS
<1>2. /\ tracks' = [tracks EXCEPT ![i] = row]
      /\ users' = users /\ token' = token /\ artists' = artists /\ call' = call
      /\ ~TrackLocked(i)
    BY <1>1 DEF RetitleTrack, accountVars
<1>3. tracks[i] \in Track
    BY DEF IInv, Types, TypeOK
<1>4. /\ row.artist = tracks[i].artist
      /\ row.slug = tracks[i].slug
      /\ row.base = tracks[i].base
      /\ row.versions = tracks[i].versions
      /\ row \in Track
    BY <1>1, <1>3 DEF Track
<1>5. row.versions = [j \in 1 .. Len(row.versions) |-> j]
    BY <1>4 DEF IInv, VersionsAreCounted
<1>6. call' \in [People -> CallRecord] /\ \A q \in People : call'[q] = call[q]
    BY <1>2 DEF IInv, Types, FunctionTypes
<1>. QED BY <1>2, <1>4, <1>5, <1>6, TrackRowStep DEF TrackLocked

\* An artist is given another name.
LEMMA RenameStep ==
    ASSUME IInv, NEW p \in People, NEW i \in DOMAIN artists, NEW name \in Titles,
           RenameArtist(p, i, name)
    PROVE  IInv'
<1>1. PICK row \in {[artists[i] EXCEPT !.name = name]} : TRUE
    OBVIOUS
<1>2. /\ artists' = [artists EXCEPT ![i] = row]
      /\ users' = users /\ token' = token /\ tracks' = tracks /\ call' = call
    BY <1>1 DEF RenameArtist, accountVars
<1>3. artists \in Seq(Artist) /\ artists[i] \in Artist
    BY DEF IInv, Types, TypeOK
<1>4. row.slug = artists[i].slug /\ row.base = artists[i].base /\ row \in Artist
    BY <1>1, <1>3 DEF Artist
<1>5. /\ artists' \in Seq(Artist)
      /\ DOMAIN artists' = DOMAIN artists
      /\ artists'[i] = row
      /\ \A j \in DOMAIN artists : j # i => artists'[j] = artists[j]
    BY <1>2, <1>3, <1>4, ExceptSeq
<1>6. \A j \in DOMAIN artists : /\ artists'[j].slug = artists[j].slug
                                /\ artists'[j].base = artists[j].base
    BY <1>4, <1>5
<1>7. ArtistSlugs' = ArtistSlugs /\ \A a : TrackSlugs(a)' = TrackSlugs(a)
    BY <1>2, <1>5, <1>6 DEF ArtistSlugs, TrackSlugs
<1>8. Types'
    BY <1>2, <1>5 DEF IInv, Types, TypeOK, FunctionTypes, AccountsTypeOK
<1>9. UsersAreUnique' /\ VersionsAreCounted' /\ OneHolder'
    BY <1>2 DEF IInv, UsersAreUnique, VersionsAreCounted, OneHolder
<1>10. ASSUME NEW q \in People PROVE Fresh(q)'
  <2>1. Fresh(q) /\ FunctionTypes
      BY DEF IInv, Types, CallsAreFresh
  <2>. QED BY <1>2, <1>7, <2>1, FreshKept
<1>11. SlugsWithoutGaps'
  <2>1. (\A j \in DOMAIN artists : Gapless(artists[j].slug, artists[j].base, ArtistSlugs))'
      BY <1>5, <1>6, <1>7 DEF IInv, SlugsWithoutGaps
  <2>2. (\A j \in DOMAIN tracks :
             Gapless(tracks[j].slug, tracks[j].base, TrackSlugs(tracks[j].artist)))'
      BY <1>2 DEF IInv, SlugsWithoutGaps, TrackSlugs
  <2>. QED BY <2>1, <2>2 DEF SlugsWithoutGaps
<1>. QED BY <1>8, <1>9, <1>10, <1>11 DEF IInv, CallsAreFresh

\* The numbers in use of a track are 1 to the number of its versions.
LEMMA NextIsFree ==
    ASSUME VersionsAreCounted, tracks \in Seq(Track), NEW i \in DOMAIN tracks
    PROVE  /\ Range(tracks[i].versions) = 1 .. Len(tracks[i].versions)
           /\ NextNumber(i) = Len(tracks[i].versions) + 1
<1>1. tracks[i] \in Track
    OBVIOUS
<1>2. PICK v \in Seq(Nat) : v = tracks[i].versions
    BY <1>1 DEF Track
<1>3. v = [j \in 1 .. Len(v) |-> j] /\ Len(v) \in Nat
    BY <1>2 DEF VersionsAreCounted
<1>4. Range(v) = 1 .. Len(v)
    BY <1>3 DEF Range
<1>. DEFINE S == {0} \cup Range(v)
<1>5. S = 0 .. Len(v)
    BY <1>3, <1>4
<1>6. Max(S) = Len(v)
    BY <1>3, <1>5 DEF Max
<1>. QED BY <1>2, <1>4, <1>6 DEF NextNumber

-----------------------------------------------------------------------------
(* Catalog: what its runs check                                            *)

\* Nothing exists at first.
LEMMA InitInv == Init => IInv
<1>. SUFFICES ASSUME Init PROVE IInv
    OBVIOUS
<1>1. /\ users = {} /\ token = [p \in People |-> None]
      /\ call = [p \in People |-> Idle]
      /\ artists = <<>> /\ tracks = <<>>
      /\ DOMAIN artists = {} /\ DOMAIN tracks = {}
    BY DEF Init, AccountsInit
<1>2. artists \in Seq(Artist) /\ tracks \in Seq(Track)
    BY <1>1
<1>3. Types
    BY <1>1, <1>2 DEF Types, TypeOK, FunctionTypes, AccountsTypeOK, CallRecord
<1>4. UsersAreUnique /\ VersionsAreCounted /\ SlugsWithoutGaps
    BY <1>1 DEF UsersAreUnique, VersionsAreCounted, SlugsWithoutGaps
<1>5. OneHolder /\ CallsAreFresh
    BY <1>1 DEF OneHolder, CallsAreFresh, Fresh, Idle
<1>. QED BY <1>3, <1>4, <1>5 DEF IInv

\* The calls that begin with a registration, an artist or a track.
LEMMA NewCalls ==
    /\ \A data \in Registrations :
          [step |-> "registering", data |-> data, raced |-> FALSE] \in CallRecord
    /\ \A step \in {"artist", "track"}, a \in Nat, title \in Titles, s \in Slug :
          [step |-> step, artist |-> a, title |-> title, raced |-> FALSE, slug |-> s]
              \in CallRecord
<1>1. ASSUME NEW data \in Registrations, NEW b \in BOOLEAN
      PROVE  [step |-> "registering", data |-> data, raced |-> b] \in Registering
    BY DEF Registering
<1>2. ASSUME NEW step \in {"artist", "track"}, NEW a \in Nat, NEW title \in Titles,
             NEW s \in Slug, NEW b \in BOOLEAN
      PROVE  [step |-> step, artist |-> a, title |-> title, raced |-> b, slug |-> s] \in Making
    BY DEF Making
<1>. QED BY <1>1, <1>2 DEF CallRecord

\* What a call reads first is fresh when it has read it.
LEMMA ReadStep ==
    ASSUME IInv, NEW p \in People,
           \/ \E data \in Registrations : CheckRegistration(p, data) /\ UNCHANGED catalogVars
           \/ \E name \in Titles : ReadArtistSlugs(p, name)
           \/ \E a \in DOMAIN artists, title \in Titles : ReadTrackSlugs(p, a, title)
           \/ \E i \in DOMAIN tracks : ReadNumber(p, i)
    PROVE  IInv'
<1>1. FunctionTypes /\ TypeOK /\ artists \in Seq(Artist) /\ tracks \in Seq(Track)
    BY DEF IInv, Types, TypeOK
<1>2. ASSUME NEW data \in Registrations, CheckRegistration(p, data), UNCHANGED catalogVars
      PROVE  IInv'
  <2>1. PICK c \in {[step |-> "registering", data |-> data, raced |-> FALSE]} : TRUE
      OBVIOUS
  <2>2. c \in CallRecord /\ c.step = "registering" /\ c.data = data
      BY <2>1, NewCalls
  <2>3. Begin(p, c) /\ users' = users /\ UNCHANGED accountVars
      BY <1>2, <2>1 DEF CheckRegistration, accountVars
  <2>4. call'[p] = c
      BY <1>1, <2>2, <2>3, CallEdits
  <2>5. Fresh(p)'
    <3>1. \A u \in users : ~Same(u, data)
        BY <1>2 DEF CheckRegistration
    <3>2. Lower[data.email] = data.email =>
              \A u \in users : ~Same(u, RowOf(p, data))
        BY <3>1 DEF Same, RowOf
    <3>. QED BY <2>2, <2>3, <2>4, <3>2 DEF Fresh
  <2>. QED BY <1>2, <2>2, <2>3, <2>5, BeginStep DEF accountVars, catalogVars
<1>3. ASSUME NEW name \in Titles, ReadArtistSlugs(p, name)
      PROVE  IInv'
  <2>1. PICK s \in {Free(Slugify(name), ArtistSlugs)} : TRUE
      OBVIOUS
  <2>2. s \in Slug /\ s \notin ArtistSlugs /\ Gapless(s, Slugify(name), ArtistSlugs)
      BY <1>1, <2>1, SlugType, SlugsAreFinite, FreeIsFree
  <2>3. PICK c \in {[step |-> "artist", artist |-> 0, title |-> name, raced |-> FALSE,
                     slug |-> s]} : TRUE
      OBVIOUS
  <2>4. c \in CallRecord /\ c.step = "artist" /\ c.slug = s /\ c.title = name
      BY <2>2, <2>3, NewCalls
  <2>5. Begin(p, c) /\ UNCHANGED <<accountVars, catalogVars>> /\ artists' = artists
      BY <1>3, <2>1, <2>3 DEF ReadArtistSlugs, catalogVars
  <2>6. call'[p] = c
      BY <1>1, <2>4, <2>5, CallEdits
  <2>7. Fresh(p)'
      BY <2>2, <2>4, <2>5, <2>6 DEF Fresh, ArtistSlugs
  <2>. QED BY <2>4, <2>5, <2>7, BeginStep
<1>4. ASSUME NEW a \in DOMAIN artists, NEW title \in Titles, ReadTrackSlugs(p, a, title)
      PROVE  IInv'
  <2>1. PICK s \in {Free(Slugify(title), TrackSlugs(a))} : TRUE
      OBVIOUS
  <2>2. s \in Slug /\ s \notin TrackSlugs(a) /\ Gapless(s, Slugify(title), TrackSlugs(a))
      BY <1>1, <2>1, SlugType, SlugsAreFinite, FreeIsFree
  <2>3. PICK c \in {[step |-> "track", artist |-> a, title |-> title, raced |-> FALSE,
                     slug |-> s]} : TRUE
      OBVIOUS
  <2>4. c \in CallRecord /\ c.step = "track" /\ c.slug = s /\ c.title = title /\ c.artist = a
    <3>1. a \in Nat
        BY <1>1
    <3>. QED BY <2>2, <2>3, <3>1, NewCalls
  <2>5. Begin(p, c) /\ UNCHANGED <<accountVars, catalogVars>> /\ tracks' = tracks
      BY <1>4, <2>1, <2>3 DEF ReadTrackSlugs, catalogVars
  <2>6. call'[p] = c
      BY <1>1, <2>4, <2>5, CallEdits
  <2>7. Fresh(p)'
      BY <2>2, <2>4, <2>5, <2>6 DEF Fresh, TrackSlugs
  <2>. QED BY <2>4, <2>5, <2>7, BeginStep
<1>5. ASSUME NEW i \in DOMAIN tracks, ReadNumber(p, i)
      PROVE  IInv'
  <2>1. NextNumber(i) = Len(tracks[i].versions) + 1
      BY <1>1, NextIsFree DEF IInv
  <2>2. PICK c \in {[step |-> "version", track |-> i, number |-> NextNumber(i)]} : TRUE
      OBVIOUS
  <2>3. Len(tracks[i].versions) \in Nat
    <3>1. tracks[i] \in Track
        BY <1>1
    <3>. QED BY <3>1 DEF Track
  <2>4. c \in CallRecord /\ c.step = "version" /\ c.track = i
            /\ c.number = Len(tracks[i].versions) + 1
      BY <1>1, <2>1, <2>2, <2>3 DEF CallRecord, Numbering
  <2>5. Begin(p, c) /\ UNCHANGED <<accountVars, catalogVars>> /\ tracks' = tracks
      BY <1>5, <2>2 DEF ReadNumber, catalogVars
  <2>6. call'[p] = c
      BY <1>1, <2>4, <2>5, CallEdits
  <2>7. Fresh(p)'
      BY <2>4, <2>5, <2>6 DEF Fresh
  <2>8. ~TrackLocked(c.track)
      BY <1>5, <2>4 DEF ReadNumber
  <2>. QED BY <2>4, <2>5, <2>7, <2>8, BeginStep
<1>. QED BY <1>2, <1>3, <1>4, <1>5

\* Every step keeps the invariant.
LEMMA StepInv == IInv /\ [Next]_vars => IInv'
<1>. SUFFICES ASSUME IInv, [Next]_vars PROVE IInv'
    OBVIOUS
<1>1. ASSUME NEW p \in People, AccountsStep(p), UNCHANGED catalogVars PROVE IInv'
  <2>1. ASSUME NEW data \in Registrations, CheckRegistration(p, data) PROVE IInv'
      BY <1>1, <2>1, ReadStep
  <2>2. CASE Insert(p)
      BY <1>1, <2>2, InsertStep
  <2>3. CASE InsertFails(p)
      BY <1>1, <2>3, DropStep DEF InsertFails, accountVars, catalogVars
  <2>4. ASSUME NEW typed \in Names, Login(p, typed) PROVE IInv'
    <3>1. PICK t \in users : token' = [token EXCEPT ![p] = t]
        BY <2>4 DEF Login, Found
    <3>. QED BY <1>1, <2>4, <3>1, TokenStep DEF Login, catalogVars
  <2>5. CASE Logout(p)
      BY <1>1, <2>5, TokenStep DEF Logout, catalogVars
  <2>. QED BY <1>1, <2>1, <2>2, <2>3, <2>4, <2>5 DEF AccountsStep
<1>2. ASSUME NEW p \in People, CatalogStep(p) PROVE IInv'
  <2>1. CASE \/ \E name \in Titles : ReadArtistSlugs(p, name)
             \/ \E a \in DOMAIN artists, title \in Titles : ReadTrackSlugs(p, a, title)
             \/ \E i \in DOMAIN tracks : ReadNumber(p, i)
      BY <2>1, ReadStep
  <2>2. CASE InsertArtist(p)
      BY <2>2, InsertArtistStep
  <2>3. CASE InsertTrack(p)
      BY <2>3, InsertTrackStep
  <2>4. CASE InsertRefused(p)
      BY <2>4, DropStep DEF InsertRefused, accountVars, catalogVars
  <2>5. CASE InsertVersion(p)
      BY <2>5, InsertVersionStep
  <2>6. ASSUME NEW i \in DOMAIN artists, NEW name \in Titles, RenameArtist(p, i, name)
        PROVE  IInv'
      BY <2>6, RenameStep
  <2>7. ASSUME NEW i \in DOMAIN tracks, NEW title \in Titles, RetitleTrack(p, i, title)
        PROVE  IInv'
      BY <2>7, RetitleStep
  <2>. QED BY <1>2, <2>1, <2>2, <2>3, <2>4, <2>5, <2>6, <2>7 DEF CatalogStep
<1>3. CASE UNCHANGED vars
  <2>1. /\ users' = users /\ token' = token /\ call' = call
        /\ artists' = artists /\ tracks' = tracks
      BY <1>3 DEF vars, accountVars, catalogVars
  <2>2. Types' /\ UsersAreUnique' /\ VersionsAreCounted' /\ OneHolder'
      BY <2>1 DEF IInv, Types, TypeOK, FunctionTypes, AccountsTypeOK, UsersAreUnique,
                  VersionsAreCounted, OneHolder
  <2>3. ArtistSlugs' = ArtistSlugs /\ \A a : TrackSlugs(a)' = TrackSlugs(a)
      BY <2>1 DEF ArtistSlugs, TrackSlugs
  <2>4. ASSUME NEW q \in People PROVE Fresh(q)'
    <3>1. Fresh(q) /\ FunctionTypes
        BY DEF IInv, Types, CallsAreFresh
    <3>. QED BY <2>1, <2>3, <3>1, FreshKept
  <2>5. SlugsWithoutGaps'
      BY <2>1 DEF IInv, SlugsWithoutGaps, ArtistSlugs, TrackSlugs
  <2>. QED BY <2>2, <2>4, <2>5 DEF IInv, CallsAreFresh
<1>. QED BY <1>1, <1>2, <1>3 DEF Next

\* The inductive invariant of Catalog holds in every reachable state.
THEOREM CatalogInvariance == Spec => []IInv
<1>1. Init => IInv
    BY InitInv
<1>2. IInv /\ [Next]_vars => IInv'
    BY StepInv
<1>. QED BY <1>1, <1>2, PTL DEF Spec

\* The variables keep their types: users, tokens, calls, artists and tracks.
THEOREM TypeCorrectness == Spec => []TypeOK
<1>1. IInv => TypeOK
    BY DEF IInv, Types
<1>. QED BY <1>1, CatalogInvariance, PTL

\* The owner of an account can log in with its address in any letter case, and with its
\* user name if that has no capitals: login looks at this row and at no other, unless some
\* user name is an e-mail address.
THEOREM AccountsAreFound == Spec => []OwnerIsFound
<1>1. IInv => OwnerIsFound
  <2>. SUFFICES ASSUME IInv, \A u \in users : u.username \notin Addresses,
                       NEW u \in users, NEW typed \in Names,
                       \/ Lower[typed] = Lower[u.email]
                       \/ typed = u.username /\ Lower[typed] = typed
                PROVE  Found(Lower[typed]) = {u}
      BY DEF OwnerIsFound
  <2>1. \A v \in users : /\ v.email \in Addresses
                         /\ v.email = u.email \/ v.username = u.username => v = u
                         /\ Lower[v.email] = v.email
      BY DEF IInv, Types, TypeOK, AccountsTypeOK, User, UsersAreUnique
  <2>2. u \in Found(Lower[typed])
      BY <2>1 DEF Found
  <2>3. ASSUME NEW v \in Found(Lower[typed]) PROVE v = u
      BY <2>1, <2>3 DEF Found
  <2>. QED BY <2>2, <2>3
<1>. QED BY <1>1, CatalogInvariance, PTL

\* Whoever was told that a name, an address, a slug or a number is free meets a taken one
\* only when a call of the same kind came first, or for an address typed with capitals; two
\* calls never ask for the same version number, because they hold the row of the track.
THEOREM FreeNamesStayFree == Spec => []FreeUnlessOvertaken
<1>1. IInv => FreeUnlessOvertaken
  <2>. SUFFICES ASSUME IInv PROVE FreeUnlessOvertaken
      OBVIOUS
  <2>1. RegistrationSucceeds
      BY DEF IInv, CallsAreFresh, Fresh, RegistrationSucceeds
  <2>2. ASSUME NEW p \in People
        PROVE  /\ call[p].step = "artist" /\ ~call[p].raced => call[p].slug \notin ArtistSlugs
               /\ call[p].step = "track" /\ ~call[p].raced =>
                      call[p].slug \notin TrackSlugs(call[p].artist)
      BY DEF IInv, CallsAreFresh, Fresh
  <2>3. ASSUME NEW p \in People, call[p].step = "version"
        PROVE  call[p].number \notin Range(tracks[call[p].track].versions)
    <3>1. PICK i \in DOMAIN tracks : i = call[p].track
        BY <2>3 DEF IInv, CallsAreFresh, Fresh
    <3>2. call[p].number = Len(tracks[i].versions) + 1
        BY <2>3, <3>1 DEF IInv, CallsAreFresh, Fresh
    <3>3. tracks \in Seq(Track) /\ tracks[i] \in Track
        BY DEF IInv, Types, TypeOK
    <3>4. Len(tracks[i].versions) \in Nat
        BY <3>3 DEF Track
    <3>5. Range(tracks[i].versions) = 1 .. Len(tracks[i].versions)
        BY <3>3, NextIsFree DEF IInv
    <3>. QED BY <3>1, <3>2, <3>4, <3>5
  <2>. QED BY <2>1, <2>2, <2>3 DEF FreeUnlessOvertaken
<1>. QED BY <1>1, CatalogInvariance, PTL

\* The slugs of artists, and of the tracks of each artist, are numbered without gaps, in
\* whatever order the calls that read and insert them interleave.
THEOREM SlugsAreGapless == Spec => []SlugsWithoutGaps
<1>1. IInv => SlugsWithoutGaps
    BY DEF IInv
<1>. QED BY <1>1, CatalogInvariance, PTL

-----------------------------------------------------------------------------
(* Reading the list of tracks                                              *)

\* The limit used is at least 1, whatever is asked for.
LEMMA SafeLimits == \A limit \in Int : SafeLimit(limit) \in Nat /\ SafeLimit(limit) >= 1
<1>. SUFFICES ASSUME NEW limit \in Int PROVE SafeLimit(limit) \in Nat /\ SafeLimit(limit) >= 1
    OBVIOUS
<1>1. \A a, b \in Int : Max({a, b}) = IF a >= b THEN a ELSE b
    BY DEF Max
<1>2. \A a, b \in Int : Min({a, b}) = IF a <= b THEN a ELSE b
    BY DEF Min
<1>3. Max({limit, 1}) \in Int /\ Max({limit, 1}) >= 1
    BY <1>1
<1>. QED BY <1>2, <1>3 DEF SafeLimit

\* Every place in a list of n rows is on one of the first n + 1 pages of L rows.
LEMMA PageReached ==
    ASSUME NEW n \in Nat, NEW L \in Nat, L >= 1, NEW j \in 1 .. n
    PROVE  \E k \in 0 .. n : k * L < j /\ j <= k * L + L
<1>. DEFINE Grows == {k \in Nat : k * L >= k}
            S == {k \in Nat : j <= k * L + L}
<1>1. Nat \subseteq Grows
  <2>1. 0 \in Grows
      OBVIOUS
  <2>2. ASSUME NEW k \in Nat, k \in Grows PROVE k + 1 \in Grows
    <3>1. (k + 1) * L = k * L + L /\ k * L \in Nat
        OBVIOUS
    <3>. QED BY <2>2, <3>1
  <2>. HIDE DEF Grows
  <2>. QED BY <2>1, <2>2, SetInduction
<1>2. j \in S
  <2>1. j * L >= j /\ j * L \in Nat
      BY <1>1
  <2>. QED BY <2>1
<1>3. PICK m \in S : \A k \in S : m <= k
  <2>. HIDE DEF S
  <2>1. S \subseteq Nat
      BY DEF S
  <2>. QED BY <1>2, <2>1, LeastNatural
<1>4. CASE m = 0
  <2>1. 0 * L = 0 /\ 0 \in 0 .. n
      OBVIOUS
  <2>. QED BY <1>3, <1>4, <2>1
<1>5. CASE m # 0
  <2>1. m - 1 \in Nat /\ m * L \in Nat /\ (m - 1) * L = m * L - L
      BY <1>3, <1>5
  <2>2. m - 1 \notin S
      BY <1>3, <2>1
  <2>3. m * L < j
      BY <2>1, <2>2
  <2>4. m * L >= m
      BY <1>1, <1>3
  <2>5. m \in 0 .. n
      BY <1>3, <2>1, <2>3, <2>4
  <2>. QED BY <1>3, <2>3, <2>5
<1>. QED BY <1>4, <1>5

\* Every way to sort has all the rows.
LEMMA SortedHasAll ==
    ASSUME tracks \in Seq(Track), NEW o \in Sorted
    PROVE  \A t \in DOMAIN tracks : \E j \in DOMAIN tracks : o[j] = t
<1>. DEFINE D == DOMAIN tracks
<1>1. D = 1 .. Len(tracks) /\ Len(tracks) \in Nat /\ IsFiniteSet(D)
    BY FS_Interval
<1>2. o \in [D -> D] /\ \A i, j \in D : i < j => o[i] # o[j]
    BY DEF Sorted
<1>3. \A i, j \in D : o[i] = o[j] => i = j
    BY <1>1, <1>2
<1>. HIDE DEF D
<1>4. o \in Injection(D, D)
    BY <1>2, <1>3 DEF Injection, IsInjective
<1>5. o \in Surjection(D, D)
    BY <1>1, <1>4, FS_Injection
<1>. QED BY <1>5 DEF Surjection, D

\* There is one way to sort rows of different titles.
LEMMA SortedIsOne ==
    ASSUME tracks \in Seq(Track),
           \A i, j \in DOMAIN tracks : i # j => tracks[i].title # tracks[j].title,
           NEW o \in Sorted, NEW r \in Sorted
    PROVE  o = r
<1>. DEFINE D == DOMAIN tracks
            Key(t) == Order[tracks[t].title]
            S == {m \in D : o[m] # r[m]}
<1>1. D \subseteq Nat
    OBVIOUS
<1>2. \A t \in D : tracks[t].title \in Titles /\ Key(t) \in Nat
  <2>1. \A t \in D : tracks[t] \in Track
      OBVIOUS
  <2>2. \A t \in D : tracks[t].title \in Titles
      BY <2>1 DEF Track
  <2>. QED BY <2>2, CatalogAssumption DEF Injection
<1>3. \A s, t \in D : s # t => Key(s) # Key(t)
    BY <1>2, CatalogAssumption DEF Injection, IsInjective
<1>4. /\ o \in [D -> D] /\ r \in [D -> D]
      /\ \A i, j \in D : i < j => o[i] # o[j] /\ Key(o[i]) <= Key(o[j])
      /\ \A i, j \in D : i < j => r[i] # r[j] /\ Key(r[i]) <= Key(r[j])
    BY DEF Sorted
<1>5. /\ \A t \in D : \E j \in D : o[j] = t
      /\ \A t \in D : \E j \in D : r[j] = t
    BY SortedHasAll
<1>. HIDE DEF D, Key
<1>6. \A i, j \in D : i < j => Key(o[i]) < Key(o[j]) /\ Key(r[i]) < Key(r[j])
    BY <1>2, <1>3, <1>4
<1>. SUFFICES ASSUME S # {} PROVE FALSE
    BY <1>4
<1>7. PICK m \in S : \A k \in S : m <= k
  <2>1. S \subseteq Nat
      BY <1>1
  <2>. HIDE DEF S
  <2>. QED BY <2>1, LeastNatural
<1>8. /\ m \in D /\ o[m] # r[m]
      /\ \A k \in D : k < m => o[k] = r[k]
    BY <1>1, <1>7
<1>9. PICK k \in D : r[k] = o[m]
    BY <1>4, <1>5, <1>8
<1>10. m < k
    BY <1>1, <1>4, <1>8, <1>9
<1>11. PICK l \in D : o[l] = r[m]
    BY <1>4, <1>5, <1>8
<1>12. m < l
    BY <1>1, <1>4, <1>8, <1>11
<1>13. Key(r[m]) < Key(o[m]) /\ Key(o[m]) < Key(r[m])
    BY <1>6, <1>8, <1>9, <1>10, <1>11, <1>12
<1>14. Key(r[m]) \in Nat /\ Key(o[m]) \in Nat
    BY <1>2, <1>4, <1>8
<1>. QED BY <1>13, <1>14

\* Who reads all pages of an unchanged list of tracks with different titles sees every
\* track, whatever limit is asked for and however each page is sorted.
THEOREM ReadersSeeAll == Spec => []ReaderSeesAll
<1>1. IInv => ReaderSeesAll
  <2>. SUFFICES ASSUME IInv,
                       \A i, j \in DOMAIN tracks : i # j => tracks[i].title # tracks[j].title,
                       NEW limit \in Limits,
                       NEW rows \in [{k * SafeLimit(limit) : k \in 0 .. Len(tracks)} -> Sorted]
                PROVE  UNION {PageOf(rows[offset], limit, offset) :
                                offset \in {k * SafeLimit(limit) : k \in 0 .. Len(tracks)}}
                           = DOMAIN tracks
      BY DEF ReaderSeesAll
  <2>. DEFINE L == SafeLimit(limit)
              offsets == {k * SafeLimit(limit) : k \in 0 .. Len(tracks)}
  <2>1. tracks \in Seq(Track) /\ DOMAIN tracks = 1 .. Len(tracks) /\ Len(tracks) \in Nat
      BY DEF IInv, Types, TypeOK
  <2>2. L \in Nat /\ L >= 1
      BY CatalogAssumption, SafeLimits
  <2>3. ASSUME NEW offset \in offsets, NEW t \in PageOf(rows[offset], limit, offset)
        PROVE  t \in DOMAIN tracks
    <3>1. rows[offset] \in [DOMAIN tracks -> DOMAIN tracks]
        BY DEF Sorted
    <3>. QED BY <2>3, <3>1 DEF PageOf
  <2>4. ASSUME NEW t \in DOMAIN tracks
        PROVE  \E offset \in offsets : t \in PageOf(rows[offset], limit, offset)
    <3>1. 0 * L \in offsets
        BY <2>1
    <3>2. PICK o \in Sorted : o = rows[0 * L]
        BY <3>1
    <3>3. PICK j \in DOMAIN tracks : o[j] = t
        BY <2>1, <3>2, SortedHasAll
    <3>4. PICK k \in 0 .. Len(tracks) : k * L < j /\ j <= k * L + L
        BY <2>1, <2>2, PageReached
    <3>5. PICK offset \in offsets : offset = k * L
        BY <3>4
    <3>6. rows[offset] = o
      <4>1. rows[offset] \in Sorted
          OBVIOUS
      <4>. QED BY <2>1, <3>2, <4>1, SortedIsOne
    <3>7. offset \in Nat /\ SafeOffset(offset) = offset
      <4>1. offset \in Nat
          BY <2>2, <3>4, <3>5
      <4>. QED BY <4>1 DEF SafeOffset, Max
    <3>8. DOMAIN o = DOMAIN tracks
        BY <3>2 DEF Sorted
    <3>9. offset < j /\ j <= offset + L
        BY <3>4, <3>5
    <3>10. t \in PageOf(o, limit, offset)
        BY <3>3, <3>7, <3>8, <3>9 DEF PageOf
    <3>. QED BY <3>6, <3>10
  <2>. HIDE DEF L, offsets
  <2>. QED BY <2>3, <2>4 DEF offsets
<1>. QED BY <1>1, CatalogInvariance, PTL
===================================================================================
