---------------------------- MODULE TagRowsProofs ----------------------------
(***************************************************************************)
(* Proofs about TagRows: however the configuration of a tag changes from   *)
(* start to start, and however late the samples of earlier starts come,    *)
(* the tag's row follows the configuration, a tag is described by the      *)
(* first source that says anything, a name of a documented shape gives the *)
(* documented columns, and a description in the documented form gives a    *)
(* sorter's row its flag and remark.                                       *)
(***************************************************************************)
EXTENDS TagRows, SequenceTheorems, WellFoundedInduction, TLAPS

LEMMA MaxOfTwo ==
  ASSUME NEW a \in Nat, NEW b \in Nat
  PROVE  Max({a, b}) = IF a >= b THEN a ELSE b
BY DEF Max

(* The timestamps that the argument compares. *)
TimesInv ==
  /\ clock \in Nat /\ since \in Nat /\ newest \in Nat
  /\ since <= clock
  /\ \A s \in sent : s.at \in Nat \ {Never} /\ s.at <= clock
  /\ \A table \in DOMAIN rows : rows[table].at \in Nat /\ rows[table].at <= clock

(* Samples newer than the start are samples of its configuration, and a    *)
(* row newer than the start shows one that has been delivered.             *)
OriginInv ==
  /\ \A s \in sent : s.at > since => s.tag = tag
  /\ \A table \in DOMAIN rows : rows[table].at > since => newest > since

(* Once the tag's row shows such a sample, older ones cannot replace it.   *)
HeldInv ==
  /\ RowFollowsConfiguration
  /\ newest > since => rows[Table(tag, tag)].at > since

RowsInv == TimesInv /\ OriginInv /\ HeldInv
-----------------------------------------------------------------------------
LEMMA InitRowsInv == RowsInit => RowsInv
<1> SUFFICES ASSUME RowsInit PROVE RowsInv
  OBVIOUS
<1>1. clock = 0 /\ since = 0 /\ newest = 0 /\ sent = {}
  BY DEF RowsInit, Never
<1>2. CASE seeded = FALSE /\ rows = <<>>
  BY <1>1, <1>2 DEF RowsInv, TimesInv, OriginInv, HeldInv, RowFollowsConfiguration, Never
<1>3. ASSUME seeded = TRUE,
             rows = [t \in {Table(tag, tag)} |->
                       [columns |-> Columns(tag, tag), description |-> Shown(tag.config),
                        at |-> Never, shown |-> NoRow]]
      PROVE  RowsInv
  <2>1. /\ DOMAIN rows = {Table(tag, tag)}
        /\ rows[Table(tag, tag)].at = 0
        /\ rows[Table(tag, tag)].columns = Columns(tag, tag)
    BY <1>3 DEF Never
  <2> QED BY <1>1, <2>1 DEF RowsInv, TimesInv, OriginInv, HeldInv, RowFollowsConfiguration, Never
<1> QED BY <1>2, <1>3 DEF RowsInit

(* The steps that leave the rows and the configuration alone. *)
LEMMA DescriptionKeepsRowsInv == RowsInv /\ DescriptionStep => RowsInv'
<1> SUFFICES ASSUME RowsInv, DescriptionStep PROVE RowsInv'
  OBVIOUS
<1>1. UNCHANGED <<tag, rowVars>>
  BY DEF DescriptionStep, ReadKepware, ReadAttribute, BuildDescription, Update, Scan
<1> QED BY <1>1 DEF RowsInv, TimesInv, OriginInv, HeldInv, RowFollowsConfiguration, rowVars

LEMMA SendKeepsRowsInv == RowsInv /\ Send => RowsInv'
<1> SUFFICES ASSUME RowsInv, Send PROVE RowsInv'
  OBVIOUS
<1>1. UNCHANGED <<tag, rows, starts, since, newest, seeded>>
  BY DEF Send, Report
<1>2. clock \in Nat /\ clock' \in Nat \ {Never} /\ clock <= clock'
  BY DEF RowsInv, TimesInv, Send, Never
<1>3. \A s \in sent' : s \in sent \/ (s.at = clock' /\ s.tag = tag)
  BY DEF Send
<1>4. TimesInv'
  BY <1>1, <1>2, <1>3 DEF RowsInv, TimesInv
<1>5. OriginInv' /\ HeldInv'
  BY <1>1, <1>3 DEF RowsInv, OriginInv, HeldInv, RowFollowsConfiguration
<1> QED BY <1>4, <1>5 DEF RowsInv

(* A delivery either writes one row with the sample's time, which is not   *)
(* older than the row, or nothing.                                         *)
LEMMA DeliveryWrites ==
  ASSUME NEW s, Deliver(s)
  PROVE  LET table == Table(s.tag, tag)
         IN  \/ Accepts(table, s)
                /\ DOMAIN rows' = {table} \cup DOMAIN rows
                /\ rows'[table].at = s.at /\ rows'[table].columns = Columns(s.tag, tag)
                /\ \A other \in DOMAIN rows : other # table => rows'[other] = rows[other]
             \/ ~Accepts(table, s) /\ UNCHANGED rows
<1> DEFINE table == Table(s.tag, tag)
           r == [columns |-> Columns(s.tag, tag), description |-> s.description,
                 at |-> s.at, shown |-> s.shown]
<1>1. CASE Accepts(table, s)
  <2>1. rows' = WithRow(table, r)
    BY <1>1 DEF Deliver
  <2>2. r.at = s.at /\ r.columns = Columns(s.tag, tag)
    OBVIOUS
  <2> HIDE DEF table, r
  <2>3. /\ DOMAIN rows' = {table} \cup DOMAIN rows
        /\ rows'[table] = r
        /\ \A other \in DOMAIN rows : other # table => rows'[other] = rows[other]
    BY <2>1 DEF WithRow
  <2> QED BY <1>1, <2>2, <2>3 DEF table
<1>2. CASE ~Accepts(table, s)
  BY <1>2 DEF Deliver
<1> QED BY <1>1, <1>2

LEMMA DeliverKeepsRowsInv ==
  ASSUME RowsInv, NEW s \in sent, Deliver(s)
  PROVE  RowsInv'
<1> DEFINE table == Table(s.tag, tag)
           own   == Table(tag, tag)
<1>1. tag' = tag /\ clock' = clock /\ since' = since /\ seeded' = seeded /\ sent' \subseteq sent
  BY DEF Deliver, vars
<1>2. s.at \in Nat /\ s.at > Never /\ s.at <= clock /\ (s.at > since => s.tag = tag)
  BY DEF RowsInv, TimesInv, OriginInv, Never
<1>3. clock \in Nat /\ since \in Nat /\ newest \in Nat /\ since <= clock
  BY DEF RowsInv, TimesInv
<1>4. newest' = (IF newest >= s.at THEN newest ELSE s.at)
  BY <1>2, <1>3, MaxOfTwo DEF Deliver
<1>5. newest' \in Nat /\ newest' > Never /\ newest' >= s.at /\ newest' >= newest
  BY <1>2, <1>3, <1>4 DEF Never
<1>6. Table(tag, tag)' = own /\ Columns(tag, tag)' = Columns(tag, tag)
  BY <1>1
<1>7. CASE Accepts(table, s)
  <2>1. /\ DOMAIN rows' = {table} \cup DOMAIN rows
        /\ rows'[table].at = s.at /\ rows'[table].columns = Columns(s.tag, tag)
        /\ \A other \in DOMAIN rows : other # table => rows'[other] = rows[other]
    BY <1>7, DeliveryWrites
  <2>2. TimesInv'
    BY <1>1, <1>2, <1>3, <1>5, <2>1 DEF RowsInv, TimesInv
  <2>3. OriginInv'
    BY <1>1, <1>2, <1>3, <1>5, <2>1 DEF RowsInv, TimesInv, OriginInv
  <2>4. ASSUME newest' > since
        PROVE  /\ own \in DOMAIN rows' /\ rows'[own].at > since
               /\ rows'[own].columns = Columns(tag, tag)
    <3>1. CASE s.at > since
      BY <1>2, <2>1, <3>1
    <3>2. CASE ~(s.at > since)
      <4>1. newest > since
        BY <1>2, <1>3, <1>4, <2>4, <3>2
      <4>2. own \in DOMAIN rows /\ rows[own].at > since /\ rows[own].columns = Columns(tag, tag)
        BY <4>1 DEF RowsInv, HeldInv, RowFollowsConfiguration
      <4>3. own # table
        BY <1>2, <1>3, <1>7, <3>2, <4>2 DEF Accepts, RowsInv, TimesInv
      <4> QED BY <2>1, <4>2, <4>3
    <3> QED BY <3>1, <3>2
  <2>5. HeldInv'
    BY <1>1, <1>5, <1>6, <2>4 DEF HeldInv, RowFollowsConfiguration, Never
  <2> QED BY <2>2, <2>3, <2>5 DEF RowsInv
<1>8. CASE ~Accepts(table, s)
  <2>1. rows' = rows
    BY <1>8, DeliveryWrites
  <2>2. table \in DOMAIN rows /\ rows[table].at \in Nat /\ rows[table].at > s.at
    BY <1>2, <1>8 DEF Accepts, RowsInv, TimesInv
  <2>3. newest' > since => newest > since
    BY <1>2, <1>3, <1>4, <2>2 DEF RowsInv, OriginInv
  <2>4. TimesInv'
    BY <1>1, <1>5, <2>1 DEF RowsInv, TimesInv
  <2>5. OriginInv'
    BY <1>1, <1>3, <1>5, <2>1 DEF RowsInv, OriginInv
  <2>6. HeldInv'
    BY <1>1, <1>5, <1>6, <2>1, <2>3 DEF RowsInv, HeldInv, RowFollowsConfiguration, Never
  <2> QED BY <2>4, <2>5, <2>6 DEF RowsInv
<1> QED BY <1>7, <1>8

(* A start makes every sample that is still on its way an old one; its seed *)
(* puts the new configuration into the tag's row.                          *)
LEMMA RestartKeepsRowsInv ==
  ASSUME RowsInv, NEW t, RestartAs(t)
  PROVE  RowsInv'
<1>1. tag' = t /\ since' = clock /\ newest' = 0 /\ sent' = sent /\ clock' = clock
  BY DEF RestartAs, Never
<1>2. clock \in Nat
  BY DEF RowsInv, TimesInv
<1>3. Table(tag, tag)' = Table(t, t) /\ Columns(tag, tag)' = Columns(t, t)
  BY <1>1
<1>4. CASE seeded' = FALSE /\ UNCHANGED rows
  <2>1. TimesInv' /\ OriginInv'
    BY <1>1, <1>2, <1>4 DEF RowsInv, TimesInv, OriginInv
  <2>2. HeldInv'
    BY <1>1, <1>2, <1>4 DEF HeldInv, RowFollowsConfiguration
  <2> QED BY <2>1, <2>2 DEF RowsInv
<1>5. CASE seeded' = TRUE /\ rows' = WithRow(Table(t, t), Seed(t))
  <2>1. /\ Seed(t).columns = Columns(t, t)
        /\ Seed(t).at = IF Table(t, t) \in DOMAIN rows THEN rows[Table(t, t)].at ELSE 0
    BY DEF Seed, Never
  <2> DEFINE own  == Table(t, t)
             seed == Seed(t)
  <2> HIDE DEF own, seed
  <2>2. /\ DOMAIN rows' = DOMAIN rows \cup {own}
        /\ rows'[own] = seed
        /\ \A other \in DOMAIN rows : other # own => rows'[other] = rows[other]
    BY <1>5 DEF WithRow, own, seed
  <2>3. seed.at \in Nat /\ seed.at <= clock
    BY <1>2, <2>1 DEF RowsInv, TimesInv, own, seed
  <2>4. \A table \in DOMAIN rows' : rows'[table].at \in Nat /\ rows'[table].at <= clock
    BY <2>2, <2>3 DEF RowsInv, TimesInv
  <2>5. TimesInv' /\ OriginInv'
    BY <1>1, <1>2, <2>4 DEF RowsInv, TimesInv, OriginInv
  <2>6. rows'[own].columns = Columns(t, t)
    BY <2>1, <2>2 DEF seed
  <2>7. HeldInv'
    BY <1>1, <1>2, <1>3, <2>2, <2>6 DEF HeldInv, RowFollowsConfiguration, own
  <2> QED BY <2>5, <2>7 DEF RowsInv
<1> QED BY <1>4, <1>5 DEF RestartAs, Seeding

(* The inductive invariant, for every set of tags, every change of their   *)
(* configurations and any number of starts.                                *)
THEOREM RowsInvariance == RowsSpec => []RowsInv
<1>1. RowsInv /\ [RowsNext]_<<vars, rowVars>> => RowsInv'
  <2> SUFFICES ASSUME RowsInv, [RowsNext]_<<vars, rowVars>> PROVE RowsInv'
    OBVIOUS
  <2>1. CASE DescriptionStep
    BY <2>1, DescriptionKeepsRowsInv
  <2>2. CASE Send
    BY <2>2, SendKeepsRowsInv
  <2>3. CASE \E s \in sent : Deliver(s)
    BY <2>3, DeliverKeepsRowsInv
  <2>4. CASE \E change \in Changes : change[1] = tag /\ RestartAs(change[2])
    BY <2>4, RestartKeepsRowsInv
  <2>5. CASE UNCHANGED <<vars, rowVars>>
    BY <2>5 DEF RowsInv, TimesInv, OriginInv, HeldInv, RowFollowsConfiguration, vars, rowVars
  <2> QED BY <2>1, <2>2, <2>3, <2>4, <2>5 DEF RowsNext
<1> QED BY <1>1, InitRowsInv, PTL DEF RowsSpec

(* The tag's row follows the configuration, whatever samples of earlier    *)
(* configurations are replayed and whatever the configurations are         *)
(* (RowFollowsConfiguration; build_realtime_seed_sql and accepts_newer of  *)
(* build_realtime_upsert_sql).                                             *)
THEOREM RowsFollowTheConfiguration == RowsSpec => []RowFollowsConfiguration
<1>1. RowsInv => RowFollowsConfiguration
  BY DEF RowsInv, HeldInv
<1> QED BY <1>1, RowsInvariance, PTL

-----------------------------------------------------------------------------
(* The least and the greatest number of a set, and the trimmed text.       *)

LEMMA LeastNumber ==
  ASSUME NEW S \in SUBSET Nat, S # {}
  PROVE  \E x \in S : \A y \in S : x <= y
<1> DEFINE R == OpToRel(<, Nat)
<1>1. \E x \in S : \A y \in S : ~ (<<y, x>> \in R)
  <2>1. IsWellFoundedOn(R, Nat)
    BY NatLessThanWellFounded, Zenon
  <2> HIDE DEF R
  <2> QED BY <2>1, WFMin
<1>2. \A x, y \in Nat : y < x => <<y, x>> \in R
  BY DEF OpToRel
<1> HIDE DEF R
<1>3. PICK x \in S : \A y \in S : ~ (<<y, x>> \in R)
  BY <1>1
<1>4. ASSUME NEW y \in S PROVE x <= y
  <2>1. x \in Nat /\ y \in Nat /\ ~ (y < x)
    BY <1>2, <1>3
  <2> QED BY <2>1
<1> QED BY <1>4

LEMMA MinAndMax ==
  ASSUME NEW n \in Nat, NEW S \in SUBSET (1 .. n), S # {}
  PROVE  /\ Min(S) \in S /\ \A y \in S : Min(S) <= y
         /\ Max(S) \in S /\ \A y \in S : Max(S) >= y
<1>1. \E x \in S : \A y \in S : x <= y
  <2>1. S \in SUBSET Nat
    OBVIOUS
  <2> QED BY <2>1, LeastNumber
<1>2. \E x \in S : \A y \in S : x >= y
  <2> DEFINE T == {m \in Nat : \A x \in S : x <= m}
  <2>1. n \in T /\ T \in SUBSET Nat
    OBVIOUS
  <2>2. PICK m \in T : \A k \in T : m <= k
    <3> HIDE DEF T
    <3> QED BY <2>1, LeastNumber
  <2>3. CASE m \in S
    BY <2>3
  <2>4. CASE m \notin S
    <3>1. PICK x \in S : x \in 1 .. n /\ x <= m
      OBVIOUS
    <3>2. m \in Nat /\ m - 1 \in Nat
      BY <3>1
    <3>3. \A y \in S : y <= m - 1
      BY <2>4
    <3> QED BY <2>2, <3>2, <3>3
  <2> QED BY <2>3, <2>4
<1> QED BY <1>1, <1>2 DEF Min, Max

LEMMA MinIs ==
  ASSUME NEW S \in SUBSET Nat, NEW k \in S, \A y \in S : k <= y
  PROVE  Min(S) = k
<1>1. Min(S) \in S /\ \A y \in S : Min(S) <= y
  BY DEF Min
<1>2. Min(S) \in Nat /\ k \in Nat /\ Min(S) <= k /\ k <= Min(S)
  BY <1>1
<1> QED BY <1>2

(* What is trimmed is trimmed for good.                                    *)
LEMMA TrimTwice ==
  ASSUME NEW text \in Text, NEW drop
  PROVE  Trim(text, drop) \in Text /\ Trim(Trim(text, drop), drop) = Trim(text, drop)
<1> USE DEF Text
<1> DEFINE kept == {i \in DOMAIN text : text[i] \notin drop}
           a == Min(kept)
           b == Max(kept)
           r == SubSeq(text, a, b)
<1>1. CASE kept = {}
  <2>1. Trim(text, drop) = <<>>
    BY <1>1 DEF Trim
  <2>2. Trim(<<>>, drop) = <<>>
    BY DEF Trim
  <2> QED BY <2>1, <2>2
<1>2. CASE kept # {}
  <2>1. kept \in SUBSET (1 .. Len(text)) /\ Len(text) \in Nat
    OBVIOUS
  <2>2. a \in kept /\ b \in kept /\ a <= b
    <3> HIDE DEF kept
    <3> QED BY <1>2, <2>1, MinAndMax
  <2>3. a \in 1 .. Len(text) /\ b \in 1 .. Len(text) /\ text[a] \notin drop /\ text[b] \notin drop
    BY <2>2
  <2>4. Trim(text, drop) = r
    BY <1>2 DEF Trim
  <2> HIDE DEF a, b
  <2>5. /\ r \in Seq(STRING) /\ Len(r) = b - a + 1 /\ Len(r) \in Nat \ {0}
        /\ r[1] = text[a] /\ r[Len(r)] = text[b]
    BY <2>2, <2>3
  <2> HIDE DEF r, kept
  <2> DEFINE again == {i \in DOMAIN r : r[i] \notin drop}
  <2>6. again \in SUBSET (1 .. Len(r)) /\ 1 \in again /\ Len(r) \in again
    BY <2>3, <2>5
  <2>7. Min(again) = 1 /\ Max(again) = Len(r)
    <3>1. Min(again) \in 1 .. Len(r) /\ Max(again) \in 1 .. Len(r) /\ Min(again) <= 1 /\ Max(again) >= Len(r)
      <4> HIDE DEF again
      <4> QED BY <2>5, <2>6, MinAndMax
    <3> QED BY <3>1, <2>5
  <2>8. Trim(r, drop) = SubSeq(r, 1, Len(r))
    BY <2>6, <2>7 DEF Trim
  <2>9. SubSeq(r, 1, Len(r)) = r
    BY <2>5
  <2> QED BY <2>4, <2>5, <2>8, <2>9
<1> QED BY <1>1, <1>2

LEMMA TrimmedFacts ==
  /\ Trimmed(<<>>) = <<>>
  /\ \A text \in Text : Trimmed(text) \in Text /\ Trimmed(Trimmed(text)) = Trimmed(text)
<1>1. Trimmed(<<>>) = <<>>
  BY DEF Trimmed, Trim
<1> QED BY <1>1, TrimTwice DEF Trimmed

-----------------------------------------------------------------------------
(* The description of a tag. *)

(* What the read of the _Description property has brought, and what both   *)
(* reads have.                                                             *)
FromKepware ==
  IF tag.path = <<>> \/ "kepware" \in failed THEN <<>> ELSE Trimmed(tag.kepware)
FromServer ==
  IF FromKepware # <<>> THEN FromKepware
  ELSE IF "attribute" \in failed THEN <<>> ELSE Trimmed(tag.attribute)

DescriptionInv ==
  /\ IsTag(tag)
  /\ pc \in {"kepware", "attribute", "build", "update", "scan", "report"}
  /\ pc = "kepware" => server = <<>> /\ failed = {}
  /\ pc = "attribute" /\ Blank(tag.config) => server = FromKepware /\ "attribute" \notin failed
  /\ pc = "build" /\ Blank(tag.config) => server = FromServer
  /\ DescribedByFirstSource

AtFirstStep == IsTag(tag) /\ pc = FirstStep(tag) /\ server = <<>> /\ failed = {}

LEMMA SetOutRight == AtFirstStep => DescriptionInv
<1> SUFFICES ASSUME AtFirstStep PROVE DescriptionInv
  OBVIOUS
<1> USE DEF AtFirstStep
<1>1. pc \in {"build", "kepware"}
  BY DEF FirstStep
<1>2. CASE pc = "kepware"
  BY <1>2 DEF DescriptionInv, DescribedByFirstSource
<1>3. CASE pc = "build"
  <2>1. tag.path = <<>> /\ tag.attribute = <<>>
    BY <1>3 DEF FirstStep, IsTag
  <2>2. FromServer = <<>>
    BY <2>1, TrimmedFacts DEF FromServer, FromKepware
  <2> QED BY <1>3, <2>2 DEF DescriptionInv, DescribedByFirstSource
<1> QED BY <1>1, <1>2, <1>3

(* The description that is built is the first source's.                    *)
LEMMA BuildTakesTheFirst ==
  ASSUME IsTag(tag), Blank(tag.config) => server = FromServer
  PROVE  LET built == IF ~Blank(tag.config) THEN tag.config
                      ELSE IF Mapped(tag) # <<>> THEN Mapped(tag) ELSE server
             told  == {i \in DOMAIN Sources : ~Blank(Sources[i])}
         IN  Trimmed(built) = IF told = {} THEN <<>> ELSE Trimmed(Sources[Min(told)])
<1> DEFINE built == IF ~Blank(tag.config) THEN tag.config
                    ELSE IF Mapped(tag) # <<>> THEN Mapped(tag) ELSE server
           told  == {i \in DOMAIN Sources : ~Blank(Sources[i])}
<1> SUFFICES Trimmed(built) = IF told = {} THEN <<>> ELSE Trimmed(Sources[Min(told)])
  OBVIOUS
<1>1. /\ DOMAIN Sources = 1 .. 5
      /\ Sources[1] = tag.config /\ Sources[2] = tag.byNode
      /\ Sources[3] = IF tag.path = <<>> THEN <<>> ELSE tag.byPath
      /\ Sources[4] = IF tag.path = <<>> \/ "kepware" \in failed THEN <<>> ELSE tag.kepware
      /\ Sources[5] = IF "attribute" \in failed THEN <<>> ELSE tag.attribute
  BY DEF Sources
<1> HIDE DEF Sources
<1>2. told \in SUBSET Nat /\ \A i \in 1 .. 5 : i \in told <=> Trimmed(Sources[i]) # <<>>
  BY <1>1 DEF Blank
<1>3. \A k \in 1 .. 5 : k \in told /\ (\A j \in 1 .. k - 1 : j \notin told) => Min(told) = k
  <2> SUFFICES ASSUME NEW k \in 1 .. 5, k \in told, \A j \in 1 .. k - 1 : j \notin told
               PROVE  Min(told) = k
    OBVIOUS
  <2>1. \A y \in told : y \in 1 .. 5 /\ k <= y
    BY <1>1
  <2> HIDE DEF told
  <2> QED BY <1>2, <2>1, MinIs
<1>4. \A text \in {tag.config, tag.byNode, tag.byPath, tag.kepware, tag.attribute} :
        Trimmed(Trimmed(text)) = Trimmed(text)
  BY TrimmedFacts DEF IsTag
<1>5. told \subseteq 1 .. 5
  BY <1>1
<1> HIDE DEF told
<1>6. CASE 1 \in told
  <2>1. Min(told) = 1
    BY <1>3, <1>6
  <2> QED BY <1>1, <1>2, <1>6, <2>1 DEF Blank
<1>7. CASE 1 \notin told /\ 2 \in told
  <2>1. Min(told) = 2
    BY <1>3, <1>7
  <2>2. built = Trimmed(tag.byNode)
    BY <1>1, <1>2, <1>7 DEF Blank, Mapped
  <2> HIDE DEF built
  <2> QED BY <1>1, <1>4, <1>7, <2>1, <2>2
<1>8. CASE 1 \notin told /\ 2 \notin told /\ 3 \in told
  <2>1. Min(told) = 3
    BY <1>3, <1>8
  <2>2. tag.path # <<>> /\ Sources[3] = tag.byPath
    BY <1>1, <1>2, <1>8, TrimmedFacts
  <2>3. built = Trimmed(tag.byPath)
    BY <1>1, <1>2, <1>8, <2>2 DEF Blank, Mapped
  <2> HIDE DEF built
  <2> QED BY <1>1, <1>4, <1>8, <2>1, <2>2, <2>3
<1>9. CASE 1 \notin told /\ 2 \notin told /\ 3 \notin told
  <2>1. Mapped(tag) = <<>> /\ Blank(tag.config)
    BY <1>1, <1>2, <1>9 DEF Blank, Mapped
  <2>2. built = FromServer
    BY <2>1
  <2> HIDE DEF built
  <2>3. CASE 4 \in told
    <3>1. Min(told) = 4
      BY <1>3, <1>9, <2>3
    <3>2. Sources[4] = tag.kepware /\ FromKepware = Trimmed(tag.kepware) /\ FromKepware # <<>>
      BY <1>1, <1>2, <2>3, TrimmedFacts DEF FromKepware
    <3> QED BY <1>4, <2>2, <2>3, <3>1, <3>2 DEF FromServer
  <2>4. CASE 4 \notin told
    <3>1. FromKepware = <<>>
      BY <1>1, <1>2, <2>4 DEF FromKepware
    <3>2. FromServer = IF "attribute" \in failed THEN <<>> ELSE Trimmed(tag.attribute)
      BY <3>1 DEF FromServer
    <3>3. CASE 5 \in told
      <4>1. Min(told) = 5
        BY <1>3, <1>9, <2>4, <3>3
      <4>2. Sources[5] = tag.attribute /\ FromServer = Trimmed(tag.attribute)
        BY <1>1, <1>2, <3>2, <3>3, TrimmedFacts
      <4> QED BY <1>4, <2>2, <3>3, <4>1, <4>2
    <3>4. CASE 5 \notin told
      <4>1. told = {}
        BY <1>5, <1>9, <2>4, <3>4
      <4>2. FromServer = <<>>
        BY <1>1, <1>2, <3>2, <3>4
      <4> QED BY <2>2, <4>1, <4>2, TrimmedFacts
    <3> QED BY <3>3, <3>4
  <2> QED BY <2>3, <2>4
<1> QED BY <1>6, <1>7, <1>8, <1>9

LEMMA SetOutRightNext == AtFirstStep' => DescriptionInv'
BY SetOutRight, PTL

LEMMA InitDescriptionInv == RowsInit => DescriptionInv
<1> SUFFICES ASSUME RowsInit PROVE DescriptionInv
  OBVIOUS
<1>1. AtFirstStep
  BY TagAssumption DEF RowsInit, Init, AtFirstStep
<1> QED BY <1>1, SetOutRight

LEMMA NextDescriptionInv ==
  DescriptionInv /\ [RowsNext]_<<vars, rowVars>> => DescriptionInv'
<1> SUFFICES ASSUME DescriptionInv, [RowsNext]_<<vars, rowVars>> PROVE DescriptionInv'
  OBVIOUS
<1>1. CASE UNCHANGED <<tag, pc, failed, server, description>>
  BY <1>1 DEF DescriptionInv, FromServer, FromKepware, DescribedByFirstSource, Sources
<1>2. ASSUME UNCHANGED <<tag, failed, server, description>>,
             pc \in {"update", "scan", "report"}, pc' \in {"update", "scan", "report"}
      PROVE  DescriptionInv'
  BY <1>2 DEF DescriptionInv, FromServer, FromKepware, DescribedByFirstSource, Sources
<1>3. CASE ReadKepware
  <2>1. server = <<>> /\ failed = {} /\ pc' = "attribute" /\ tag' = tag /\ IsTag(tag)
    BY <1>3 DEF ReadKepware, DescriptionInv
  <2>2. ASSUME Blank(tag.config) PROVE server' = FromKepware' /\ "attribute" \notin failed'
    <3>1. CASE tag.path # <<>>
      BY <1>3, <2>1, <2>2, <3>1 DEF ReadKepware, Read, FromKepware
    <3>2. CASE tag.path = <<>>
      BY <1>3, <2>1, <2>2, <3>2 DEF ReadKepware, FromKepware
    <3> QED BY <3>1, <3>2
  <2> QED BY <2>1, <2>2 DEF DescriptionInv, DescribedByFirstSource
<1>4. CASE ReadAttribute
  <2>1. pc = "attribute" /\ pc' = "build" /\ tag' = tag /\ IsTag(tag)
    BY <1>4 DEF ReadAttribute, DescriptionInv
  <2>2. ASSUME Blank(tag.config) PROVE server' = FromServer'
    <3>1. server = FromKepware /\ "attribute" \notin failed
      BY <2>1, <2>2 DEF DescriptionInv
    <3>2. FromKepware' = FromKepware
      BY <1>4, <2>1 DEF ReadAttribute, Read, FromKepware
    <3>3. CASE server = <<>>
      BY <1>4, <2>1, <2>2, <3>1, <3>2, <3>3 DEF ReadAttribute, AskAttribute, Read, FromServer
    <3>4. CASE server # <<>>
      BY <1>4, <2>1, <2>2, <3>1, <3>2, <3>4 DEF ReadAttribute, AskAttribute, FromServer
    <3> QED BY <3>3, <3>4
  <2> QED BY <2>1, <2>2 DEF DescriptionInv, DescribedByFirstSource
<1>5. CASE BuildDescription
  <2>1. /\ pc = "build" /\ pc' = "update" /\ IsTag(tag)
        /\ UNCHANGED <<tag, failed, server>>
        /\ description' = IF ~Blank(tag.config) THEN tag.config
                          ELSE IF Mapped(tag) # <<>> THEN Mapped(tag) ELSE server
    BY <1>5 DEF BuildDescription, DescriptionInv
  <2>2. Blank(tag.config) => server = FromServer
    BY <2>1 DEF DescriptionInv
  <2>3. Sources' = Sources
    BY <2>1 DEF Sources
  <2>4. DescribedByFirstSource'
    BY <2>1, <2>2, <2>3, BuildTakesTheFirst DEF DescribedByFirstSource
  <2> QED BY <2>1, <2>4 DEF DescriptionInv
<1>6. CASE Update \/ Scan \/ Report
  BY <1>2, <1>6 DEF Update, Scan, Report, NoDelimiter, NextSegment
<1>7. ASSUME NEW change \in Changes, RestartAs(change[2]) PROVE DescriptionInv'
  <2>1. AtFirstStep'
    BY <1>7, ChangeAssumption DEF RestartAs, AtFirstStep, IsTag, FirstStep
  <2> QED BY <2>1, SetOutRightNext
<1>8. CASE \E s \in sent : Deliver(s)
  BY <1>1, <1>8 DEF Deliver, vars
<1> QED
  BY <1>1, <1>3, <1>4, <1>5, <1>6, <1>7, <1>8 DEF RowsNext, DescriptionStep, Send, vars

(* However many of the reads fail, and after every start, a tag is         *)
(* described by the first of its sources that says anything                *)
(* (DescribedByFirstSource; build_description_map and                      *)
(* read_server_description_map).                                           *)
THEOREM TheFirstSourceDescribes == RowsSpec => []DescribedByFirstSource
<1>1. DescriptionInv => DescribedByFirstSource
  BY DEF DescriptionInv
<1> QED BY <1>1, InitDescriptionInv, NextDescriptionInv, PTL DEF RowsSpec

-----------------------------------------------------------------------------
(* The columns of a name. *)

LEMMA UpToBound ==
  ASSUME NEW N \in Nat, NEW S, 0 \in S, \A n \in 1 .. N : n - 1 \in S => n \in S
  PROVE  0 .. N \subseteq S
<1> DEFINE T == {n \in 0 .. N : n \notin S}
<1> SUFFICES ASSUME T # {} PROVE FALSE
  OBVIOUS
<1>1. T \in SUBSET Nat
  OBVIOUS
<1>2. PICK x \in T : \A y \in T : x <= y
  <2> HIDE DEF T
  <2> QED BY <1>1, LeastNumber
<1>3. x \in 1 .. N /\ x - 1 \in 0 .. N /\ ~ (x <= x - 1)
  BY <1>2
<1>4. x - 1 \in S
  BY <1>2, <1>3
<1> QED BY <1>2, <1>3, <1>4

WithSegment(segments, segment) ==
  IF segment = BlankSegment THEN segments ELSE Append(segments, segment)

IsScan(f, m, name) ==
  f = [i \in 0 .. m |-> IF i = 0 THEN <<>> ELSE WithSegment(f[i - 1], name[i])]

LEMMA ScanExists ==
  ASSUME NEW name \in Name
  PROVE  \E f : IsScan(f, Len(name), name)
<1> DEFINE S == {m \in 0 .. Len(name) : \E f : IsScan(f, m, name)}
<1>0. Len(name) \in Nat
  BY DEF Name
<1>1. 0 \in S
  <2> DEFINE g == [i \in 0 .. 0 |-> <<>>]
  <2>1. IsScan(g, 0, name)
    BY DEF IsScan
  <2> HIDE DEF g
  <2> QED BY <2>1, <1>0
<1>2. ASSUME NEW n \in 1 .. Len(name), n - 1 \in S PROVE n \in S
  <2>1. PICK f : IsScan(f, n - 1, name)
    BY <1>2
  <2> DEFINE g == [i \in 0 .. n |-> IF i = n THEN WithSegment(f[n - 1], name[n]) ELSE f[i]]
  <2>2. IsScan(g, n, name)
    BY <2>1, <1>0 DEF IsScan
  <2> HIDE DEF g
  <2> QED BY <2>2, <1>0
<1> HIDE DEF S
<1>3. 0 .. Len(name) \subseteq S
  BY <1>0, <1>1, <1>2, UpToBound
<1> QED BY <1>0, <1>3 DEF S

(* The segments of a name are segments.                                    *)
LEMMA SegmentsAreSegments ==
  ASSUME NEW name \in Name
  PROVE  Segments(name) \in Name
<1> DEFINE scan == CHOOSE f : IsScan(f, Len(name), name)
<1>1. IsScan(scan, Len(name), name)
  <2> PICK f : IsScan(f, Len(name), name)
    BY ScanExists
  <2> QED OBVIOUS
<1>2. Segments(name) = scan[Len(name)]
  BY Zenon DEF Segments, IsScan, WithSegment
<1> HIDE DEF scan
<1>3. Len(name) \in Nat /\ \A i \in 1 .. Len(name) : name[i] \in Seq(STRING) \ {<<>>}
  BY DEF Name
<1> DEFINE Good == {m \in 0 .. Len(name) : scan[m] \in Name}
<1>4. 0 \in Good
  BY <1>1, <1>3 DEF IsScan, Name
<1>5. ASSUME NEW n \in 1 .. Len(name), n - 1 \in Good PROVE n \in Good
  <2>1. scan[n] = WithSegment(scan[n - 1], name[n]) /\ scan[n - 1] \in Name
    BY <1>1, <1>3, <1>5 DEF IsScan
  <2>2. scan[n] \in Name
    BY <2>1, <1>3 DEF WithSegment, Name
  <2> QED BY <1>3, <2>2
<1>6. 0 .. Len(name) \subseteq Good
  <2> HIDE DEF Good
  <2> QED BY <1>3, <1>4, <1>5, UpToBound
<1> QED BY <1>2, <1>3, <1>6

LEMMA FirstToldIsFirst ==
  ASSUME NEW texts, DOMAIN texts \in SUBSET (Nat \ {0}), 1 \in DOMAIN texts, texts[1] # <<>>
  PROVE  FirstNonEmpty(texts) = texts[1]
<1> DEFINE told == {i \in DOMAIN texts : texts[i] # <<>>}
<1>1. told \in SUBSET Nat /\ 1 \in told /\ \A i \in told : 1 <= i
  OBVIOUS
<1>2. Min(told) = 1
  <2> HIDE DEF told
  <2> QED BY <1>1, MinIs
<1> QED BY <1>1, <1>2 DEF FirstNonEmpty

(* Subsequences of one and of two elements.                                *)
LEMMA OneElement ==
  ASSUME NEW X, NEW s \in Seq(X), NEW i \in 1 .. Len(s)
  PROVE  SubSeq(s, i, i) = <<s[i]>>
<1>1. SubSeq(s, i, i) = <<s[i]>> \o SubSeq(s, i + 1, i)
  BY SubSeqRecursiveFirst
<1>2. SubSeq(s, i + 1, i) = <<>>
  BY SubSeqEmpty
<1>3. <<s[i]>> \in Seq(X)
  OBVIOUS
<1> QED BY <1>1, <1>2, <1>3, ConcatEmptySeq

LEMMA TwoElements ==
  ASSUME NEW X, NEW s \in Seq(X), NEW i \in 1 .. Len(s), i + 1 \in 1 .. Len(s)
  PROVE  SubSeq(s, i, i + 1) = <<s[i], s[i + 1]>>
<1>1. SubSeq(s, i, i + 1) = <<s[i]>> \o SubSeq(s, i + 1, i + 1)
  BY SubSeqRecursiveFirst
<1>2. SubSeq(s, i + 1, i + 1) = <<s[i + 1]>>
  BY OneElement
<1>3. <<s[i]>> \o <<s[i + 1]>> = <<s[i], s[i + 1]>>
  <2> DEFINE a == s[i]
             b == s[i + 1]
             both == <<a>> \o <<b>>
  <2>1. a \in X /\ b \in X /\ <<a>> \in Seq(X) /\ <<b>> \in Seq(X) /\ <<a, b>> \in Seq(X)
    OBVIOUS
  <2> HIDE DEF a, b
  <2>2. both \in Seq(X) /\ Len(both) = 2 /\ both[1] = a /\ both[2] = b
    BY <2>1, ConcatProperties
  <2> HIDE DEF both
  <2>3. both = <<a, b>>
    <3>1. Len(<<a, b>>) = 2 /\ \A j \in 1 .. 2 : both[j] = <<a, b>>[j]
      BY <2>2
    <3> QED BY <2>1, <2>2, <3>1, SeqEqual
  <2> QED BY <2>3 DEF both, a, b
<1> QED BY <1>1, <1>2, <1>3

LEMMA FromTheThird ==
  ASSUME NEW s \in Name, Len(s) >= 4
  PROVE  SubSeq(s, 3, Len(s)) # <<>>
<1>1. Len(s) \in Nat /\ \A i \in 1 .. Len(s) : s[i] \in Seq(STRING)
  BY DEF Name
<1>2. \A i \in 3 .. Len(s) : i \in 1 .. Len(s)
  BY <1>1
<1>3. \A i \in 3 .. Len(s) : s[i] \in Seq(STRING)
  BY <1>1, <1>2
<1>4. Len(SubSeq(s, 3, Len(s))) = Len(s) - 3 + 1
  BY <1>1, <1>3, SubSeqProperties
<1> DEFINE rest == SubSeq(s, 3, Len(s))
<1>5. Len(rest) # 0
  BY <1>1, <1>4
<1> HIDE DEF rest
<1>6. rest # <<>>
  BY <1>5
<1> QED BY <1>6 DEF rest

(* The fields of a name that has a documented shape. *)
LEMMA AlarmFields ==
  ASSUME NEW name \in Name, NEW s \in Name, s = Segments(name), AlarmShape(s)
  PROVE  ParsedFields(name) = AlarmColumns(s)
<1> DEFINE alarms == {i \in DOMAIN s : s[i] = <<"Alarm">>}
<1>1. /\ Len(s) \in {5, 6} /\ DOMAIN s = 1 .. Len(s) /\ s # <<>>
      /\ s \in Seq(Seq(STRING) \ {<<>>})
  BY DEF AlarmShape, Name
<1>2. alarms = {Len(s) - 1}
  <2>1. \A i \in DOMAIN s : s[i] = <<"Alarm">> <=> i = Len(s) - 1
    BY Zenon DEF AlarmShape
  <2>2. Len(s) - 1 \in DOMAIN s
    BY <1>1
  <2> QED BY <2>1, <2>2, Zenon
<1>3. Min(alarms) = Len(s) - 1
  <2> HIDE DEF alarms
  <2>1. alarms \in SUBSET Nat /\ Len(s) - 1 \in alarms /\ \A y \in alarms : Len(s) - 1 <= y
    BY <1>1, <1>2
  <2> QED BY <2>1, MinIs
<1>4. Joined(SubSeq(s, Len(s) - 1 + 1, Len(s)), name) = <<s[Len(s)]>>
  <2>1. Len(s) - 1 + 1 = Len(s) /\ Len(s) \in 1 .. Len(s)
    BY <1>1
  <2>2. SubSeq(s, Len(s), Len(s)) = <<s[Len(s)]>>
    BY <1>1, <2>1, OneElement
  <2> QED BY <2>1, <2>2 DEF Joined
<1>5. /\ Equipment(Levels(s, Len(s) - 1)).device = s[3]
      /\ Equipment(Levels(s, Len(s) - 1)).device_id = s[Len(s) - 2]
  <2>1. CASE Len(s) = 5
    <3>1. SubSeq(s, 3, 3) = <<s[3]>>
      <4>1. 3 \in 1 .. Len(s)
        BY <2>1
      <4> QED BY <1>1, <4>1, OneElement
    <3>2. Levels(s, Len(s) - 1) = <<s[3]>>
      BY <2>1, <3>1 DEF Levels
    <3>3. Len(s[3]) = 1
      BY <2>1 DEF AlarmShape
    <3>4. DeviceId(s[3]) = s[3]
      BY <3>3 DEF DeviceId
    <3> QED BY <2>1, <3>2, <3>4 DEF Equipment
  <2>2. CASE Len(s) = 6
    <3>1. SubSeq(s, 3, 4) = <<s[3], s[4]>>
      <4>1. 3 \in 1 .. Len(s) /\ 3 + 1 \in 1 .. Len(s) /\ 3 + 1 = 4
        BY <2>2
      <4> QED BY <1>1, <4>1, TwoElements
    <3>2. Levels(s, Len(s) - 1) = <<s[3], s[4]>>
      BY <2>2, <3>1 DEF Levels
    <3> QED BY <2>2, <3>2 DEF Equipment
  <2> QED BY <1>1, <2>1, <2>2
<1>6. alarms # {}
  BY <1>2
<1> QED BY <1>1, <1>3, <1>4, <1>5, <1>6 DEF ParsedFields, AlarmColumns

LEMMA IscsFields ==
  ASSUME NEW name \in Name, NEW s \in Name, s = Segments(name), IscsShape(s)
  PROVE  ParsedFields(name) = IscsColumns(s)
<1>1. {i \in DOMAIN s : s[i] = <<"Alarm">>} = {} /\ Len(s) >= 4 /\ s[3] = <<"Iscs">>
  BY DEF IscsShape
<1>2. s # <<>>
  BY <1>1
<1>3. Joined(SubSeq(s, 3, Len(s)), name) = SubSeq(s, 3, Len(s))
  BY <1>1, FromTheThird DEF Joined
<1>4. /\ Equipment(<<s[4]>>).device = s[4]
      /\ Equipment(<<s[4]>>).device_id = <<s[4][2]>>
  <2>1. DeviceId(s[4]) = <<s[4][2]>>
    BY DEF IscsShape, DeviceId
  <2> QED BY <2>1 DEF Equipment
<1> QED BY <1>1, <1>2, <1>3, <1>4 DEF ParsedFields, IscsColumns

(* What a name says, the configuration does not say otherwise.             *)
LEMMA NameComesFirst ==
  ASSUME NEW t, NEW parsed, parsed = ParsedFields(TagName(t)),
         parsed.location # <<>>, parsed.device # <<>>,
         parsed.device_id # <<>>, parsed.tag # <<>>
  PROVE  AlarmLogFields(t) = [location |-> parsed.location, device |-> parsed.device,
                              device_id |-> parsed.device_id, tag |-> parsed.tag]
<1>1. ASSUME NEW a, NEW b, a # <<>> PROVE FirstNonEmpty(<<a, b>>) = a
  <2> DEFINE texts == <<a, b>>
  <2>1. DOMAIN texts \in SUBSET (Nat \ {0}) /\ 1 \in DOMAIN texts /\ texts[1] = a
    OBVIOUS
  <2> HIDE DEF texts
  <2>2. FirstNonEmpty(texts) = a
    BY <1>1, <2>1, FirstToldIsFirst
  <2> QED BY <2>2 DEF texts
<1>2. ASSUME NEW a, NEW b, NEW c, a # <<>> PROVE FirstNonEmpty(<<a, b, c>>) = a
  <2> DEFINE texts == <<a, b, c>>
  <2>1. DOMAIN texts \in SUBSET (Nat \ {0}) /\ 1 \in DOMAIN texts /\ texts[1] = a
    OBVIOUS
  <2> HIDE DEF texts
  <2>2. FirstNonEmpty(texts) = a
    BY <1>2, <2>1, FirstToldIsFirst
  <2> QED BY <2>2 DEF texts
<1>3. /\ FirstNonEmpty(<<parsed.location, t.area>>) = parsed.location
      /\ FirstNonEmpty(<<parsed.device, t.device>>) = parsed.device
      /\ FirstNonEmpty(<<parsed.device_id, t.device_id>>) = parsed.device_id
  BY <1>1
<1>4. FirstNonEmpty(<<parsed.tag, t.alias, TagName(t)>>) = parsed.tag
  BY <1>2
<1> QED BY <1>3, <1>4 DEF AlarmLogFields

(* The columns of a tag whose name has a documented shape.                 *)
LEMMA DocumentedColumns ==
  ASSUME NEW t, IsTag(t), NEW s, s = Segments(TagName(t)), NEW fields,
         \/ AlarmShape(s) /\ fields = AlarmColumns(s)
         \/ IscsShape(s) /\ fields = IscsColumns(s)
  PROVE  AlarmLogFields(t) = fields
<1>1. TagName(t) \in Name
  BY DEF IsTag, TagName
<1>2. s \in Name
  BY <1>1, SegmentsAreSegments
<1>3. ParsedFields(TagName(t)) = fields
  BY <1>1, <1>2, AlarmFields, IscsFields
<1>4. \A i \in 1 .. Len(s) : s[i] # <<>>
  BY <1>2 DEF Name
<1>5. /\ fields = [location |-> fields.location, device |-> fields.device,
                   device_id |-> fields.device_id, tag |-> fields.tag]
      /\ fields.location # <<>> /\ fields.device # <<>>
      /\ fields.device_id # <<>> /\ fields.tag # <<>>
  <2>1. CASE AlarmShape(s) /\ fields = AlarmColumns(s)
    <3>1. Len(s) \in {5, 6}
      BY <2>1 DEF AlarmShape
    <3>2. s[1] # <<>> /\ s[3] # <<>> /\ s[Len(s) - 2] # <<>>
      BY <1>4, <3>1
    <3> QED BY <2>1, <3>2 DEF AlarmColumns
  <2>2. CASE IscsShape(s) /\ fields = IscsColumns(s)
    <3>1. Len(s) \in Nat /\ Len(s) >= 4
      <4>1. Len(s) \in Nat
        BY <1>2 DEF Name
      <4> QED BY <2>2, <4>1 DEF IscsShape
    <3>2. s[1] # <<>> /\ s[4] # <<>>
      BY <1>4, <3>1
    <3>3. SubSeq(s, 3, Len(s)) # <<>>
      BY <1>2, <3>1, FromTheThird
    <3> QED BY <2>2, <3>2, <3>3 DEF IscsColumns
  <2> QED BY <2>1, <2>2
<1> QED BY <1>3, <1>5, NameComesFirst

(* A tag whose name has a documented shape has the documented columns in   *)
(* its row, whatever the configuration says of it and whatever else its    *)
(* name consists of (FieldsAsDocumented; parse_alarm_log_fields and        *)
(* alarm_log_fields).                                                      *)
THEOREM ShapesGiveTheColumns == RowsSpec => []FieldsAsDocumented
<1>1. RowsInv /\ DescriptionInv => FieldsAsDocumented
  <2> SUFFICES ASSUME RowsInv, DescriptionInv, newest > since PROVE FieldsAsDocumented
    BY DEF FieldsAsDocumented
  <2> DEFINE s       == Segments(TagName(tag))
             columns == rows[Table(tag, tag)].columns
             fields  == Restrict(columns, Documented)
  <2>1. columns = Columns(tag, tag) /\ IsTag(tag)
    BY DEF RowsInv, HeldInv, RowFollowsConfiguration, DescriptionInv
  <2>2. /\ DOMAIN fields = Documented
        /\ fields = [f \in Documented |-> columns[f]]
    BY DEF Restrict
  <2>3. /\ columns.location = AlarmLogFields(tag).location
        /\ columns.device = AlarmLogFields(tag).device
        /\ columns.device_id = AlarmLogFields(tag).device_id
        /\ columns.tag = AlarmLogFields(tag).tag
    BY <2>1 DEF Columns
  <2> HIDE DEF columns, fields
  <2>4. fields = [location |-> AlarmLogFields(tag).location, device |-> AlarmLogFields(tag).device,
                  device_id |-> AlarmLogFields(tag).device_id, tag |-> AlarmLogFields(tag).tag]
    BY <2>2, <2>3 DEF Documented
  <2>5. ASSUME AlarmShape(s) PROVE fields = AlarmColumns(s)
    <3>1. AlarmLogFields(tag) = AlarmColumns(s)
      BY <2>1, <2>5, DocumentedColumns
    <3> QED BY <2>4, <3>1 DEF AlarmColumns
  <2>6. ASSUME IscsShape(s) PROVE fields = IscsColumns(s)
    <3>1. AlarmLogFields(tag) = IscsColumns(s)
      BY <2>1, <2>6, DocumentedColumns
    <3> QED BY <2>4, <3>1 DEF IscsColumns
  <2> QED BY <2>5, <2>6 DEF FieldsAsDocumented, fields, columns
<1>2. RowsSpec => []DescriptionInv
  BY InitDescriptionInv, NextDescriptionInv, PTL DEF RowsSpec
<1> QED BY <1>1, <1>2, RowsInvariance, PTL

-----------------------------------------------------------------------------
(* The scan of a description's list. *)

(* The marks of a description, and the operators in terms of them.         *)
Semicolon == ";"
Bar       == "|"
Colon     == ":"
Space     == " "

(* The provers do not know that the literals "0" and "1" are in STRING, so  *)
(* the codes are said to be sequences over a set that has them.            *)
Symbol == STRING \cup {"0", "1"}
Code   == Seq(Symbol)

LEMMA TextIsCode == ASSUME NEW text \in Text PROVE text \in Code
<1>1. STRING \subseteq Symbol
  BY DEF Symbol
<1> QED BY <1>1, SeqMonotonic DEF Text, Code

LEMMA Marks ==
  /\ Semicolon # Bar /\ Semicolon # Colon /\ Semicolon # Space /\ Bar # Colon /\ Bar # Space
  /\ Colon # Space
  /\ Semicolon \notin Digit /\ Bar \notin Digit /\ Colon \notin Digit /\ Space \notin Digit
  /\ Semicolon \notin Delimiter /\ Bar \in Delimiter /\ Colon \in Delimiter /\ Space \notin Delimiter
BY Zenon DEF Semicolon, Bar, Colon, Space, Digit, Delimiter

LEMMA CodelessMeans ==
  ASSUME NEW text, NEW i, NEW end, Codeless(text, i, end),
         NEW d \in Positions(text, i, end - 1, Digit),
         NEW next, next = OutsideOf(text, d + 1, end - 1, {Space})
  PROVE  next = {} \/ text[Min(next)] \notin Delimiter
BY Zenon DEF Codeless, Space

LEMMA LeastIn ==
  ASSUME NEW n \in Nat, NEW S \in SUBSET (1 .. n), S # {}, NEW m, m = Min(S)
  PROVE  m \in S /\ \A y \in S : m <= y
BY MinAndMax

LEMMA SegmentEndMeans ==
  ASSUME NEW text, NEW i, NEW marks, marks = {j \in i .. Len(text) : text[j] = Semicolon}
  PROVE  SegmentEnd(text, i) = IF marks = {} THEN Len(text) + 1 ELSE Min(marks)
BY Zenon DEF SegmentEnd, Semicolon

(* The end of a segment is the next ";" or the end of the text.            *)
LEMMA SegmentEndIs ==
  ASSUME NEW text \in Text, NEW i \in Nat, 1 <= i, NEW e \in Nat, i <= e, e <= Len(text) + 1,
         e <= Len(text) => text[e] = Semicolon, \A j \in i .. e - 1 : text[j] # Semicolon
  PROVE  SegmentEnd(text, i) = e
<1> DEFINE marks == {j \in i .. Len(text) : text[j] = Semicolon}
<1>1. Len(text) \in Nat /\ marks \in SUBSET Nat
  BY DEF Text
<1>2. CASE e = Len(text) + 1
  <2>1. marks = {}
    BY <1>1, <1>2
  <2> QED BY <1>2, <2>1, SegmentEndMeans
<1>3. CASE e <= Len(text)
  <2>1. e \in marks /\ \A j \in marks : e <= j
    BY <1>1, <1>3
  <2>2. Min(marks) = e
    <3> HIDE DEF marks
    <3> QED BY <1>1, <2>1, MinIs
  <2>3. marks # {}
    BY <2>1
  <2> QED BY <2>2, <2>3, SegmentEndMeans
<1> QED BY <1>1, <1>2, <1>3

LEMMA SegmentEndFacts ==
  ASSUME NEW text \in Text, NEW i \in Nat, 1 <= i, i <= Len(text) + 1, NEW e, e = SegmentEnd(text, i)
  PROVE  /\ e \in Nat /\ i <= e /\ e <= Len(text) + 1
         /\ e <= Len(text) => text[e] = Semicolon
         /\ \A j \in i .. e - 1 : text[j] # Semicolon
         /\ \A k \in i .. e : SegmentEnd(text, k) = e
<1> DEFINE marks == {j \in i .. Len(text) : text[j] = Semicolon}
<1>1. Len(text) \in Nat /\ marks \in SUBSET (1 .. Len(text))
  BY DEF Text
<1>2. /\ e \in Nat /\ i <= e /\ e <= Len(text) + 1
      /\ e <= Len(text) => text[e] = Semicolon
      /\ \A j \in i .. e - 1 : text[j] # Semicolon
  <2>1. CASE marks = {}
    <3>1. e = Len(text) + 1
      BY <2>1, SegmentEndMeans
    <3> QED BY <1>1, <2>1, <3>1
  <2>2. CASE marks # {}
    <3>1. e = Min(marks)
      BY <2>2, SegmentEndMeans
    <3>2. e \in marks /\ \A j \in marks : e <= j
      <4> HIDE DEF marks
      <4> QED BY <1>1, <2>2, <3>1, LeastIn
    <3>3. \A j \in i .. e - 1 : j \notin marks
      BY <1>1, <3>2
    <3> QED BY <1>1, <3>2, <3>3
  <2> QED BY <2>1, <2>2
<1>3. ASSUME NEW k \in i .. e PROVE SegmentEnd(text, k) = e
  <2>1. k \in Nat /\ 1 <= k /\ k <= e /\ \A j \in k .. e - 1 : text[j] # Semicolon
    BY <1>1, <1>2
  <2> QED BY <1>2, <2>1, SegmentEndIs
<1> QED BY <1>2, <1>3

(* A round of the scan: the run of digits it finds in its segment, and the *)
(* character that follows it.                                              *)
Run(text, i)   == Positions(text, i, SegmentEnd(text, i) - 1, Digit)
From(text, i)  == Min(Run(text, i))
To(text, i)    == FirstOr(OutsideOf(text, From(text, i), SegmentEnd(text, i) - 1, Digit),
                          SegmentEnd(text, i))
Rest(text, i)  == OutsideOf(text, To(text, i), SegmentEnd(text, i) - 1, {Space})
After(text, i) == Min(Rest(text, i))

LEMMA RunFacts ==
  ASSUME NEW text \in Text, NEW i \in Nat, 1 <= i, i <= Len(text) + 1, Run(text, i) # {},
         NEW end, end = SegmentEnd(text, i), NEW from, from = From(text, i),
         NEW to, to = To(text, i)
  PROVE  /\ from \in Nat /\ i <= from /\ from < end /\ text[from] \in Digit
         /\ \A j \in i .. from - 1 : text[j] \notin Digit
         /\ to \in Nat /\ from < to /\ to <= end
         /\ \A j \in from .. to - 1 : text[j] \in Digit
         /\ to < end => text[to] \notin Digit
<1>1. end \in Nat /\ i <= end /\ end <= Len(text) + 1 /\ Len(text) \in Nat
  BY SegmentEndFacts DEF Text
<1>2. from \in Nat /\ i <= from /\ from < end /\ text[from] \in Digit /\ \A j \in i .. from - 1 : text[j] \notin Digit
  <2> DEFINE S == Run(text, i)
  <2>1. S \in SUBSET (1 .. Len(text)) /\ S = {j \in i .. end - 1 : text[j] \in Digit}
    BY <1>1 DEF Run, Positions
  <2>2. from \in S /\ \A j \in S : from <= j
    <3>1. from = Min(S) /\ S # {}
      BY DEF From
    <3> HIDE DEF S
    <3> QED BY <1>1, <2>1, <3>1, LeastIn
  <2> HIDE DEF S
  <2>3. \A j \in i .. from - 1 : j \in i .. end - 1 /\ j \notin S
    BY <1>1, <2>1, <2>2
  <2> QED BY <1>1, <2>1, <2>2, <2>3
<1>3. /\ to \in Nat /\ from < to /\ to <= end
      /\ \A j \in from .. to - 1 : text[j] \in Digit
      /\ to < end => text[to] \notin Digit
  <2> DEFINE S == OutsideOf(text, from, end - 1, Digit)
  <2>1. S \in SUBSET (1 .. Len(text)) /\ S = {j \in from .. end - 1 : text[j] \notin Digit}
    BY <1>1, <1>2 DEF OutsideOf
  <2>2. to = IF S = {} THEN end ELSE Min(S)
    BY DEF To, FirstOr
  <2> HIDE DEF S
  <2>4. CASE S = {}
    BY <1>1, <1>2, <2>1, <2>2, <2>4
  <2>5. CASE S # {}
    <3>1. to \in S /\ \A j \in S : to <= j
      <4>1. S \in SUBSET (1 .. Len(text)) /\ Len(text) \in Nat /\ to = Min(S)
        BY <1>1, <2>1, <2>2, <2>5
      <4> QED BY <2>5, <4>1, LeastIn
    <3>2. to \in Nat /\ from <= to /\ to < end /\ text[to] \notin Digit
      BY <1>1, <1>2, <2>1, <3>1
    <3>3. to # from
      BY <1>2, <3>2
    <3>4. \A j \in from .. to - 1 : j \in from .. end - 1 /\ j \notin S
      BY <1>1, <1>2, <3>1, <3>2
    <3> QED BY <1>1, <1>2, <2>1, <3>2, <3>3, <3>4
  <2> QED BY <2>4, <2>5
<1> QED BY <1>2, <1>3

LEMMA AfterFacts ==
  ASSUME NEW text \in Text, NEW i \in Nat, 1 <= i, i <= Len(text) + 1, Run(text, i) # {},
         NEW end, end = SegmentEnd(text, i), NEW to, to = To(text, i),
         NEW after, after = After(text, i), Rest(text, i) # {}
  PROVE  /\ after \in Nat /\ to <= after /\ after < end /\ text[after] # Space
         /\ \A j \in to .. after - 1 : text[j] = Space
<1>1. end \in Nat /\ i <= end /\ end <= Len(text) + 1 /\ Len(text) \in Nat
  BY SegmentEndFacts DEF Text
<1>2. to \in Nat /\ to >= 1 /\ to <= end
  BY <1>1, RunFacts
<1> DEFINE S == Rest(text, i)
<1>3. S \in SUBSET (1 .. Len(text)) /\ S = {j \in to .. end - 1 : text[j] # Space}
  BY <1>1, <1>2 DEF Rest, OutsideOf
<1>4. after \in S /\ \A j \in S : after <= j
  <2>1. after = Min(S) /\ S # {}
    BY DEF After
  <2> HIDE DEF S
  <2>2. S \in SUBSET (1 .. Len(text)) /\ Len(text) \in Nat
    BY <1>1, <1>3
  <2> QED BY <2>1, <2>2, LeastIn
<1> HIDE DEF S
<1>5. \A j \in to .. after - 1 : j \in to .. end - 1 /\ j \notin S
  BY <1>1, <1>2, <1>3, <1>4
<1> QED BY <1>1, <1>2, <1>3, <1>4, <1>5

LEMMA CodelessRun ==
  ASSUME NEW text \in Text, NEW i \in Nat, 1 <= i, i <= Len(text) + 1, Run(text, i) # {}, Rest(text, i) # {},
         NEW first \in Nat, NEW last \in Nat, Codeless(text, first, last),
         first <= i, After(text, i) < last
  PROVE  text[After(text, i)] \notin Delimiter
<1> DEFINE end == SegmentEnd(text, i)
           to == To(text, i)
           after == After(text, i)
           next == OutsideOf(text, to - 1 + 1, last - 1, {Space})
<1>1. end \in Nat /\ to \in Nat /\ i + 1 <= to /\ to <= end /\ text[to - 1] \in Digit
  <2>1. end \in Nat /\ i <= end /\ end <= Len(text) + 1 /\ Len(text) \in Nat
    BY SegmentEndFacts DEF Text
  <2>2. From(text, i) \in Nat /\ i <= From(text, i) /\ From(text, i) < end
        /\ to \in Nat /\ From(text, i) < to /\ to <= end
        /\ \A j \in From(text, i) .. to - 1 : text[j] \in Digit
    BY RunFacts
  <2> DEFINE from == From(text, i)
  <2> HIDE DEF from, to, end
  <2> QED BY <2>1, <2>2 DEF from
<1>2. after \in Nat /\ to <= after /\ after < end /\ text[after] # Space /\ \A j \in to .. after - 1 : text[j] = Space
  BY AfterFacts
<1> HIDE DEF end, to, after
<1>3. to - 1 \in Positions(text, first, last - 1, Digit)
  BY <1>1, <1>2 DEF Positions, after
<1>4. next \in SUBSET Nat /\ after \in next /\ \A j \in next : after <= j
  BY <1>1, <1>2 DEF OutsideOf, after
<1>5. Min(next) = after
  <2> HIDE DEF next
  <2> QED BY <1>4, MinIs
<1>6. next = {} \/ text[Min(next)] \notin Delimiter
  BY <1>3, CodelessMeans
<1> QED BY <1>4, <1>5, <1>6 DEF after

-----------------------------------------------------------------------------
(* The list of a description. *)

LEMMA TrimKeeps ==
  ASSUME NEW text \in Text, NEW drop, NEW k \in DOMAIN text, text[k] \notin drop
  PROVE  Trim(text, drop) # <<>>
<1> DEFINE kept == {i \in DOMAIN text : text[i] \notin drop}
           a == Min(kept)
           b == Max(kept)
<1>1. kept \in SUBSET (1 .. Len(text)) /\ Len(text) \in Nat /\ kept # {}
  BY DEF Text
<1>2. Trim(text, drop) = SubSeq(text, a, b)
  BY <1>1 DEF Trim
<1>3. a \in kept /\ b \in kept /\ a <= b
  <2> HIDE DEF kept
  <2> QED BY <1>1, MinAndMax
<1>4. a \in 1 .. Len(text) /\ b \in 1 .. Len(text)
  BY <1>1, <1>3
<1> HIDE DEF a, b, kept
<1>5. Len(SubSeq(text, a, b)) = b - a + 1
  BY <1>1, <1>3, <1>4 DEF Text
<1>6. SubSeq(text, a, b) # <<>>
  <2> DEFINE r == SubSeq(text, a, b)
  <2>1. Len(r) # 0
    BY <1>3, <1>4, <1>5
  <2> HIDE DEF r
  <2>2. r # <<>>
    BY <2>1
  <2> QED BY <2>2 DEF r
<1> QED BY <1>2, <1>6

LEMMA PrefixEnds ==
  ASSUME NEW text \in Text, StatusPrefix(text) # <<>>, NEW c, c = FirstColon(text)
  PROVE  /\ c \in Nat /\ 1 <= c /\ c <= Len(text)
         /\ text[c] = Colon
         /\ Shown(text) = text
<1> DEFINE colons == Positions(text, 1, Len(text), {Colon})
<1>1. colons # {} /\ c = Min(colons)
  BY Zenon DEF StatusPrefix, FirstColon, Colon
<1>2. Len(text) \in Nat /\ DOMAIN text = 1 .. Len(text)
  BY DEF Text
<1>3. colons = {j \in 1 .. Len(text) : text[j] = Colon} /\ colons \in SUBSET (1 .. Len(text))
  BY <1>2 DEF Positions
<1>4. c \in colons
  <2>1. colons \in SUBSET (1 .. Len(text))
    BY <1>3
  <2> HIDE DEF colons
  <2> QED BY <1>1, <1>2, <2>1, LeastIn
<1>5. c \in 1 .. Len(text) /\ text[c] = Colon
  BY <1>3, <1>4
<1>6. Shown(text) = text
  <2>1. text[c] \notin {Space}
    BY <1>5, Marks
  <2>2. Trim(text, {Space}) # <<>>
    BY <1>2, <1>5, <2>1, TrimKeeps
  <2> QED BY <2>2, Zenon DEF Shown, Blank, Trimmed, Space
<1> QED BY <1>2, <1>5, <1>6

LEMMA ListStartsMeans ==
  ASSUME NEW text, NEW c, c = FirstColon(text),
         NEW marks, marks = Positions(text, c, Len(text), {Semicolon})
  PROVE  ListStarts(text) = {m + 1 : m \in {c} \cup marks}
BY Zenon DEF ListStarts, Semicolon

LEMMA StartFacts ==
  ASSUME NEW text \in Text, StatusPrefix(text) # <<>>, NEW c, c = FirstColon(text),
         NEW k \in ListStarts(text)
  PROVE  /\ k \in Nat /\ c < k /\ k <= Len(text) + 1
         /\ k = c + 1 \/ text[k - 1] = Semicolon
<1>1. c \in Nat /\ 1 <= c /\ c <= Len(text) /\ Len(text) \in Nat
  BY PrefixEnds DEF Text
<1> DEFINE marks == Positions(text, c, Len(text), {Semicolon})
<1>2. PICK m \in {c} \cup marks : k = m + 1
  <2>1. ListStarts(text) = {m + 1 : m \in {c} \cup marks}
    BY ListStartsMeans
  <2> HIDE DEF marks
  <2> QED BY <2>1
<1>3. m = c \/ (m \in c .. Len(text) /\ text[m] = Semicolon)
  BY <1>2 DEF Positions
<1> QED BY <1>1, <1>2, <1>3

LEMMA NextStart ==
  ASSUME NEW text \in Text, StatusPrefix(text) # <<>>, NEW c, c = FirstColon(text)
  PROVE  /\ c + 1 \in ListStarts(text)
         /\ \A m \in c .. Len(text) : text[m] = Semicolon => m + 1 \in ListStarts(text)
<1> DEFINE marks == Positions(text, c, Len(text), {Semicolon})
<1>1. ListStarts(text) = {m + 1 : m \in {c} \cup marks}
  BY ListStartsMeans
<1>2. \A m \in c .. Len(text) : text[m] = Semicolon => m \in marks
  BY DEF Positions
<1> HIDE DEF marks
<1> QED BY <1>1, <1>2

(* No start of an entry lies within another one.                           *)
LEMMA StartsApart ==
  ASSUME NEW text \in Text, StatusPrefix(text) # <<>>,
         NEW i \in ListStarts(text), NEW k \in ListStarts(text), i < k
  PROVE  SegmentEnd(text, i) < k
<1> DEFINE c == FirstColon(text)
           end == SegmentEnd(text, i)
<1>1. /\ i \in Nat /\ c < i /\ i <= Len(text) + 1 /\ k \in Nat /\ k <= Len(text) + 1
      /\ k = c + 1 \/ text[k - 1] = Semicolon
      /\ c \in Nat /\ 1 <= c /\ Len(text) \in Nat
  BY StartFacts, PrefixEnds DEF Text
<1> HIDE DEF c
<1>2. end \in Nat /\ i <= end /\ end <= Len(text) + 1 /\ \A j \in i .. end - 1 : text[j] # Semicolon
  BY <1>1, SegmentEndFacts
<1> HIDE DEF end
<1>3. text[k - 1] = Semicolon /\ k - 1 \in Nat /\ i <= k - 1
  BY <1>1
<1>4. ~ (k - 1 <= end - 1)
  BY <1>1, <1>2, <1>3
<1>5. end < k
  BY <1>1, <1>2, <1>4
<1> QED BY <1>5 DEF end

LEMMA ListsMeans ==
  ASSUME NEW text, NEW i, NEW code
  PROVE  Lists(text, i, code) <=> /\ i + Len(code) <= Len(text)
                                  /\ SubSeq(text, i, i + Len(code)) = Append(code, Bar)
BY Zenon DEF Lists, Bar

LEMMA UnmarkedMeans ==
  ASSUME NEW code, Unmarked(code), NEW k \in DOMAIN code
  PROVE  code[k] # Bar /\ code[k] # Semicolon
BY Zenon DEF Unmarked, Bar, Semicolon

(* What it means that an entry begins at i.                                *)
LEMMA ListedText ==
  ASSUME NEW text \in Text, NEW code \in Code, NEW i \in Nat, 1 <= i, Lists(text, i, code),
         NEW n \in Nat, n = Len(code)
  PROVE  /\ n \in Nat /\ i + n <= Len(text) /\ text[i + n] = Bar
         /\ \A k \in 1 .. n : text[i + k - 1] = code[k]
<1>1. /\ n \in Nat /\ Len(text) \in Nat /\ i + n <= Len(text)
      /\ SubSeq(text, i, i + n) = Append(code, Bar)
      /\ code \in Seq(Symbol)
  <2>1. n \in Nat /\ Len(text) \in Nat /\ code \in Seq(Symbol)
    BY DEF Text, Code
  <2> QED BY <2>1, ListsMeans
<1>2. \A k \in 1 .. n + 1 : SubSeq(text, i, i + n)[k] = text[i + k - 1]
  <2>1. \A j \in i .. i + n : text[j] \in STRING
    <3>1. \A j \in i .. i + n : j \in 1 .. Len(text)
      BY <1>1
    <3> QED BY <1>1, <3>1 DEF Text
  <2>2. i + n - i + 1 = n + 1
    BY <1>1
  <2> QED BY <1>1, <2>1, <2>2, SubSeqProperties
<1>3. \A k \in 1 .. n + 1 : Append(code, Bar)[k] = IF k = n + 1 THEN Bar ELSE code[k]
  <2> DEFINE b == Bar
             X == Symbol \cup {b}
  <2>1. code \in Seq(X) /\ b \in X
    BY <1>1
  <2> HIDE DEF b, X
  <2>2. \A k \in 1 .. n + 1 : Append(code, b)[k] = IF k = n + 1 THEN b ELSE code[k]
    BY <1>1, <2>1, AppendProperties
  <2> QED BY <2>2 DEF b
<1>4. text[i + n] = Bar
  <2>1. i + (n + 1) - 1 = i + n /\ n + 1 \in 1 .. n + 1
    BY <1>1
  <2> QED BY <1>1, <1>2, <1>3, <2>1
<1>5. ASSUME NEW k \in 1 .. n PROVE text[i + k - 1] = code[k]
  <2>1. k \in 1 .. n + 1 /\ k # n + 1
    BY <1>1
  <2> QED BY <1>1, <1>2, <1>3, <2>1
<1> QED BY <1>1, <1>4, <1>5

LEMMA IsEntryMeans ==
  ASSUME NEW text, NEW i, NEW bar
  PROVE  IsEntry(text, i, bar) <=> /\ \A j \in i .. bar - 1 : text[j] \in Digit
                                   /\ text[bar] = Bar
                                   /\ Codeless(text, bar + 1, SegmentEnd(text, i))
                                   /\ LabelFrom(text, bar + 1, SegmentEnd(text, i)) # <<>>
BY Zenon DEF IsEntry, Bar

(* An entry lists the code that the digits before its bar are, no other.   *)
LEMMA EntryLists ==
  ASSUME NEW text \in Text, NEW code \in Code, Unmarked(code), NEW i \in Nat, 1 <= i,
         NEW bar \in Nat, i < bar, bar <= Len(text), IsEntry(text, i, bar)
  PROVE  /\ Lists(text, i, code) <=> SubSeq(text, i, bar - 1) = code
         /\ Lists(text, i, code) => i + Len(code) = bar
<1>1. /\ Len(text) \in Nat /\ Len(code) \in Nat /\ text \in Seq(Symbol) /\ code \in Seq(Symbol)
      /\ DOMAIN code = 1 .. Len(code)
  BY TextIsCode DEF Code
<1>2. (\A j \in i .. bar - 1 : text[j] \in Digit) /\ text[bar] = Bar
  BY IsEntryMeans
<1>3. \A j \in i .. bar : text[j] \in Symbol
  <2>1. \A j \in i .. bar : j \in 1 .. Len(text)
    BY <1>1
  <2> QED BY <1>1, <2>1
<1> DEFINE digits == SubSeq(text, i, bar - 1)
<1>4. /\ digits \in Seq(Symbol) /\ Len(digits) = bar - i
      /\ \A k \in 1 .. bar - i : digits[k] = text[i + k - 1]
  <2>1. \A j \in i .. bar - 1 : text[j] \in Symbol
    BY <1>1, <1>3
  <2>2. bar - 1 - i + 1 = bar - i /\ i <= bar - 1 /\ bar - 1 \in Int /\ i \in Int
    BY <1>1
  <2>3. /\ digits \in Seq(Symbol) /\ Len(digits) = bar - 1 - i + 1
        /\ \A k \in 1 .. bar - 1 - i + 1 : digits[k] = text[i + k - 1]
    BY <2>1, <2>2, SubSeqProperties
  <2> DEFINE n == bar - 1 - i + 1
  <2>4. n = bar - i
    BY <2>2
  <2>5. digits \in Seq(Symbol) /\ Len(digits) = n /\ \A k \in 1 .. n : digits[k] = text[i + k - 1]
    BY <2>3
  <2> HIDE DEF n, digits
  <2> QED BY <2>4, <2>5
<1> HIDE DEF digits
<1>5. ASSUME Lists(text, i, code) PROVE digits = code /\ i + Len(code) = bar
  <2> DEFINE n == Len(code)
  <2>1. /\ n \in Nat /\ i + n <= Len(text) /\ text[i + n] = Bar
        /\ \A k \in 1 .. n : text[i + k - 1] = code[k]
    <3>1. n \in Nat
      BY <1>1
    <3> HIDE DEF n
    <3> QED BY <1>5, <3>1, ListedText DEF n
  <2>2. DOMAIN code = 1 .. n
    BY <1>1
  <2> HIDE DEF n
  <2>3. ~ (i + n < bar)
    <3> SUFFICES ASSUME i + n < bar PROVE FALSE
      OBVIOUS
    <3>1. i + n \in i .. bar - 1
      BY <2>1
    <3> QED BY <1>2, <2>1, <3>1, Marks
  <2>4. ~ (bar < i + n)
    <3> SUFFICES ASSUME bar < i + n PROVE FALSE
      OBVIOUS
    <3>1. bar - i + 1 \in 1 .. n /\ i + (bar - i + 1) - 1 = bar
      BY <2>1
    <3>2. code[bar - i + 1] = Bar
      BY <1>2, <2>1, <3>1
    <3> QED BY <2>2, <3>1, <3>2, UnmarkedMeans
  <2>5. i + n = bar
    BY <2>1, <2>3, <2>4
  <2>6. n = bar - i /\ \A k \in 1 .. n : digits[k] = code[k]
    BY <1>4, <2>1, <2>5
  <2>7. digits = code
    BY <1>1, <1>4, <2>6, SeqEqual DEF n
  <2> QED BY <2>5, <2>7 DEF n
<1>6. ASSUME digits = code PROVE Lists(text, i, code)
  <2>1. i + Len(code) = bar
    <3> DEFINE n == Len(code)
    <3>1. n = bar - i
      BY <1>4, <1>6
    <3> HIDE DEF n
    <3>2. i + n = bar
      BY <3>1
    <3> QED BY <3>2 DEF n
  <2>2. SubSeq(text, i, bar) = digits \o <<text[bar]>>
    <3>1. i \in 1 .. Len(text) /\ bar \in i .. Len(text)
      BY <1>1
    <3> QED BY <1>1, <3>1, SubSeqRecursiveSecond DEF digits
  <2>3. Append(code, text[bar]) = code \o <<text[bar]>>
    <3>1. text[bar] \in Symbol
      <4>1. bar \in i .. bar
        OBVIOUS
      <4> QED BY <1>3, <4>1
    <3> DEFINE b == text[bar]
    <3>2. b \in Symbol
      BY <3>1
    <3> HIDE DEF b
    <3>3. Append(code, b) = code \o <<b>>
      BY <1>1, <3>2, AppendIsConcat
    <3> QED BY <3>3 DEF b
  <2> QED BY <1>2, <1>6, <2>1, <2>2, <2>3, ListsMeans
<1> QED BY <1>5, <1>6 DEF digits

(* An empty entry lists nothing.                                           *)
LEMMA EmptyEntry ==
  ASSUME NEW text \in Text, NEW code \in Code, Unmarked(code), NEW i \in Nat, 1 <= i,
         i <= Len(text) + 1, SegmentEnd(text, i) = i
  PROVE  ~ Lists(text, i, code)
<1> SUFFICES ASSUME Lists(text, i, code) PROVE FALSE
  OBVIOUS
<1> DEFINE n == Len(code)
<1>1. /\ n \in Nat /\ i + n <= Len(text) /\ text[i + n] = Bar
      /\ \A k \in 1 .. n : text[i + k - 1] = code[k]
  <2>1. n \in Nat
    BY DEF Code
  <2> HIDE DEF n
  <2> QED BY <2>1, ListedText DEF n
<1>2. DOMAIN code = 1 .. n /\ Len(text) \in Nat
  BY DEF Text, Code
<1>3. i <= Len(text) => text[i] = Semicolon
  BY SegmentEndFacts
<1> HIDE DEF n
<1>4. text[i] = Semicolon
  BY <1>1, <1>2, <1>3
<1>5. CASE n = 0
  BY <1>1, <1>4, <1>5, Marks
<1>6. CASE n # 0
  <2>1. 1 \in 1 .. n /\ i + 1 - 1 = i
    BY <1>1, <1>6
  <2>2. code[1] = Semicolon
    BY <1>1, <1>4, <2>1
  <2> QED BY <1>2, <2>1, <2>2, UnmarkedMeans
<1> QED BY <1>5, <1>6

-----------------------------------------------------------------------------
(* The rounds of the scan. *)

(* No entry that begins before k lists the code; no entry does.            *)
Passed(text, code, k) == \A i \in ListStarts(text) : i < k => ~ Lists(text, i, code)
Unlisted(text, code)  == \A i \in ListStarts(text) : ~ Lists(text, i, code)

(* The scan is in the label of an entry that lists another code.           *)
InLabel(text, code, k) ==
  \E i \in ListStarts(text), bar \in Nat :
    /\ i < bar /\ bar < k /\ k <= SegmentEnd(text, i) /\ IsEntry(text, i, bar)
    /\ Passed(text, code, i) /\ ~ Lists(text, i, code)

(* The scan is in the name, where an entry begins, or in a label.          *)
ScansAt(text, code, k) ==
  /\ k \in Nat /\ 1 <= k /\ k <= Len(text) + 1
  /\ \/ k <= FirstColon(text)
     \/ k \in ListStarts(text) /\ Passed(text, code, k)
     \/ InLabel(text, code, k)

(* A round leads to such a place again, or to the label of the code, or it *)
(* is the last one.                                                        *)
Ends(text, k)     == Run(text, k) = {} \/ Rest(text, k) = {}
NumberAt(text, k)   == SubSeq(text, From(text, k), To(text, k) - 1)
LabelOf(text, k)  == LabelFrom(text, After(text, k) + 1, SegmentEnd(text, k))
HasCode(text, k)  == text[After(text, k)] \in Delimiter
Finds(text, code, k) == HasCode(text, k) /\ NumberAt(text, k) = code /\ LabelOf(text, k) # <<>>

Sound(text, code, k) ==
  /\ Ends(text, k) /\ SegmentEnd(text, k) > Len(text) => Unlisted(text, code)
  /\ Ends(text, k) /\ SegmentEnd(text, k) <= Len(text) =>
       ScansAt(text, code, SegmentEnd(text, k) + 1)
  /\ ~ Ends(text, k) /\ Finds(text, code, k) => LabelOf(text, k) \in Labels(text, code)
  /\ ~ Ends(text, k) /\ ~ Finds(text, code, k) => ScansAt(text, code, After(text, k) + 1)

LEMMA SameRun ==
  ASSUME NEW text, NEW code, NEW k, NEW i, SegmentEnd(text, k) = SegmentEnd(text, i),
         Run(text, k) = Run(text, i), Sound(text, code, i)
  PROVE  Sound(text, code, k)
<1>1. From(text, k) = From(text, i)
  BY Zenon DEF From
<1>2. To(text, k) = To(text, i)
  BY <1>1, Zenon DEF To
<1>3. Rest(text, k) = Rest(text, i)
  BY <1>2, Zenon DEF Rest
<1>4. After(text, k) = After(text, i)
  BY <1>3, Zenon DEF After
<1>5. /\ Ends(text, k) = Ends(text, i) /\ NumberAt(text, k) = NumberAt(text, i)
      /\ LabelOf(text, k) = LabelOf(text, i) /\ HasCode(text, k) = HasCode(text, i)
  BY <1>1, <1>2, <1>3, <1>4, Zenon DEF Ends, NumberAt, LabelOf, HasCode
<1>6. Finds(text, code, k) = Finds(text, code, i)
  BY <1>5, Zenon DEF Finds
<1> QED BY <1>4, <1>5, <1>6, Zenon DEF Sound

LEMMA AfterEntry ==
  ASSUME NEW text \in Text, StatusPrefix(text) # <<>>, NEW code,
         NEW i \in ListStarts(text), Passed(text, code, i), ~ Lists(text, i, code),
         NEW end, end = SegmentEnd(text, i)
  PROVE  /\ end > Len(text) => Unlisted(text, code)
         /\ end <= Len(text) => ScansAt(text, code, end + 1)
<1> DEFINE c == FirstColon(text)
<1>1. /\ i \in Nat /\ 1 <= i /\ c \in Nat /\ c < i /\ i <= Len(text) + 1 /\ Len(text) \in Nat
  BY StartFacts, PrefixEnds DEF Text
<1>2. /\ end \in Nat /\ i <= end /\ end <= Len(text) + 1
      /\ end <= Len(text) => text[end] = Semicolon
  BY <1>1, SegmentEndFacts
<1>3. ASSUME NEW k \in ListStarts(text) PROVE /\ k \in Nat /\ k <= Len(text) + 1
                                              /\ ~ Lists(text, k, code) \/ end < k
  <2>1. k \in Nat /\ k <= Len(text) + 1
    BY StartFacts
  <2>2. CASE k < i
    BY <2>1, <2>2 DEF Passed
  <2>3. CASE k = i
    BY <2>1, <2>3
  <2>4. CASE i < k
    BY <2>1, <2>4, StartsApart
  <2> QED BY <1>1, <2>1, <2>2, <2>3, <2>4
<1>4. ASSUME end > Len(text) PROVE Unlisted(text, code)
  <2>1. \A k \in ListStarts(text) : ~ (end < k)
    BY <1>1, <1>2, <1>3, <1>4
  <2> QED BY <1>3, <2>1 DEF Unlisted
<1>5. ASSUME end <= Len(text) PROVE ScansAt(text, code, end + 1)
  <2>1. end + 1 \in ListStarts(text)
    <3>1. end \in c .. Len(text) /\ text[end] = Semicolon
      BY <1>1, <1>2, <1>5
    <3> QED BY <3>1, NextStart
  <2>2. \A k \in ListStarts(text) : k < end + 1 => ~ (end < k)
    BY <1>2, <1>3
  <2>3. Passed(text, code, end + 1)
    BY <1>3, <2>2 DEF Passed
  <2> QED BY <1>1, <1>2, <1>5, <2>1, <2>3 DEF ScansAt
<1> QED BY <1>4, <1>5

(* A round that begins with an entry compares its code.                    *)
LEMMA EntrySound ==
  ASSUME NEW text \in Text, StatusPrefix(text) # <<>>, NEW code \in Code, Unmarked(code),
         NEW i \in ListStarts(text), Passed(text, code, i),
         NEW bar \in Nat, i < bar, bar < SegmentEnd(text, i), IsEntry(text, i, bar)
  PROVE  Sound(text, code, i)
<1> DEFINE end == SegmentEnd(text, i)
<1>1. i \in Nat /\ 1 <= i /\ i <= Len(text) + 1 /\ Len(text) \in Nat
  <2>1. FirstColon(text) \in Nat /\ 1 <= FirstColon(text)
    BY PrefixEnds
  <2>2. i \in Nat /\ FirstColon(text) < i /\ i <= Len(text) + 1 /\ Len(text) \in Nat
    BY StartFacts DEF Text
  <2> QED BY <2>1, <2>2
<1>2. end \in Nat /\ i <= end /\ end <= Len(text) + 1
  BY <1>1, SegmentEndFacts
<1>3. (\A j \in i .. bar - 1 : text[j] \in Digit) /\ text[bar] = Bar /\ LabelFrom(text, bar + 1, end) # <<>>
  BY IsEntryMeans
<1>4. Run(text, i) # {} /\ i \in Run(text, i)
  <2>1. i \in i .. end - 1 /\ i \in i .. bar - 1
    BY <1>1, <1>2
  <2> QED BY <1>3, <2>1 DEF Run, Positions
<1> HIDE DEF end
<1>5. From(text, i) = i /\ To(text, i) = bar
  <2> DEFINE from == From(text, i)
             to   == To(text, i)
  <2>1. /\ from \in Nat /\ i <= from /\ from < end
        /\ \A j \in i .. from - 1 : text[j] \notin Digit
        /\ to \in Nat /\ from < to /\ to <= end
        /\ \A j \in from .. to - 1 : text[j] \in Digit
        /\ to < end => text[to] \notin Digit
    BY <1>1, <1>4, RunFacts DEF end
  <2> HIDE DEF from, to
  <2>2. from = i
    <3>1. text[i] \in Digit
      BY <1>1, <1>3
    <3> QED BY <1>1, <2>1, <3>1
  <2>3. to = bar
    <3>1. text[bar] \notin Digit
      BY <1>3, Marks
    <3>2. ~ (bar < to)
      BY <1>1, <2>1, <2>2, <3>1
    <3>3. ~ (to < bar)
      BY <1>1, <1>2, <1>3, <2>1, <2>2 DEF end
    <3> QED BY <2>1, <3>2, <3>3
  <2> QED BY <2>2, <2>3 DEF from, to
<1>6. Rest(text, i) # {} /\ bar \in Rest(text, i)
  <2>1. bar \in bar .. end - 1 /\ text[bar] \notin {Space}
    BY <1>1, <1>2, <1>3, Marks DEF end
  <2> QED BY <1>5, <2>1 DEF Rest, OutsideOf, end
<1>7. After(text, i) = bar
  <2> DEFINE after == After(text, i)
  <2>1. after \in Nat /\ bar <= after /\ \A j \in bar .. after - 1 : text[j] = Space
    BY <1>1, <1>4, <1>5, <1>6, AfterFacts
  <2> HIDE DEF after
  <2>2. ~ (bar < after)
    BY <1>3, <2>1, Marks
  <2>3. after = bar
    BY <2>1, <2>2
  <2> QED BY <2>3 DEF after
<1>8. ~ Ends(text, i) /\ HasCode(text, i) /\ LabelOf(text, i) # <<>>
  BY <1>3, <1>4, <1>6, <1>7, Marks DEF Ends, HasCode, LabelOf, end
<1>9. /\ Lists(text, i, code) <=> NumberAt(text, i) = code
      /\ Lists(text, i, code) => i + Len(code) = bar
  <2>1. bar <= Len(text)
    BY <1>1, <1>2 DEF end
  <2>2. NumberAt(text, i) = SubSeq(text, i, bar - 1)
    BY <1>5 DEF NumberAt
  <2> QED BY <1>1, <2>1, <2>2, EntryLists
<1>10. ASSUME Lists(text, i, code) PROVE LabelOf(text, i) \in Labels(text, code)
  <2>1. LabelOf(text, i) = LabelFrom(text, i + Len(code) + 1, SegmentEnd(text, i))
    BY <1>7, <1>9, <1>10 DEF LabelOf
  <2> QED BY <1>10, <2>1 DEF Labels
<1>11. ASSUME ~ Lists(text, i, code) PROVE ScansAt(text, code, bar + 1)
  <2>1. InLabel(text, code, bar + 1)
    <3>1. bar < bar + 1 /\ bar + 1 <= SegmentEnd(text, i)
      BY <1>2 DEF end
    <3> QED BY <1>11, <3>1 DEF InLabel
  <2> QED BY <1>1, <1>2, <2>1 DEF ScansAt, end
<1> QED BY <1>7, <1>8, <1>9, <1>10, <1>11 DEF Sound, Finds

LEMMA StartSound ==
  ASSUME NEW text \in Text, NEW code \in Code, IsTable(text, code),
         NEW i \in ListStarts(text), Passed(text, code, i)
  PROVE  Sound(text, code, i)
<1>1. /\ i \in Nat /\ 1 <= i /\ i <= Len(text) + 1 /\ Len(text) \in Nat
      /\ StatusPrefix(text) # <<>> /\ Unmarked(code)
  <2>1. StatusPrefix(text) # <<>> /\ Unmarked(code)
    BY DEF IsTable, SafeName
  <2>2. FirstColon(text) \in Nat /\ 1 <= FirstColon(text)
    BY <2>1, PrefixEnds
  <2>3. i \in Nat /\ FirstColon(text) < i /\ i <= Len(text) + 1 /\ Len(text) \in Nat
    BY <2>1, StartFacts DEF Text
  <2> QED BY <2>1, <2>2, <2>3
<1>2. CASE i = SegmentEnd(text, i)
  <2>1. Run(text, i) = {}
    <3>1. i .. SegmentEnd(text, i) - 1 = {}
      BY <1>1, <1>2
    <3> QED BY <3>1 DEF Run, Positions
  <2>2. ~ Lists(text, i, code)
    BY <1>1, <1>2, EmptyEntry
  <2> QED BY <1>1, <2>1, <2>2, AfterEntry DEF Sound, Ends
<1>3. CASE i # SegmentEnd(text, i)
  <2>1. PICK bar \in i + 1 .. SegmentEnd(text, i) - 1 : IsEntry(text, i, bar)
    BY <1>3 DEF IsTable, InListForm
  <2>2. SegmentEnd(text, i) \in Nat
    BY <1>1, SegmentEndFacts
  <2>3. bar \in Nat /\ i < bar /\ bar < SegmentEnd(text, i)
    BY <1>1, <2>2
  <2> QED BY <1>1, <2>1, <2>3, EntrySound
<1> QED BY <1>2, <1>3

(* A round in a label finds no code.                                       *)
LEMMA LabelSound ==
  ASSUME NEW text \in Text, NEW code \in Code, IsTable(text, code),
         NEW k \in Nat, 1 <= k, k <= Len(text) + 1, InLabel(text, code, k)
  PROVE  Sound(text, code, k)
<1>1. PICK i \in ListStarts(text), bar \in Nat :
        /\ i < bar /\ bar < k /\ k <= SegmentEnd(text, i) /\ IsEntry(text, i, bar)
        /\ Passed(text, code, i) /\ ~ Lists(text, i, code)
  BY DEF InLabel
<1>2. StatusPrefix(text) # <<>>
  BY DEF IsTable, SafeName
<1> DEFINE end == SegmentEnd(text, i)
<1>3. /\ i \in Nat /\ 1 <= i /\ end \in Nat /\ end <= Len(text) + 1 /\ Len(text) \in Nat
      /\ SegmentEnd(text, k) = end
  <2>1. FirstColon(text) \in Nat /\ 1 <= FirstColon(text)
    BY <1>2, PrefixEnds
  <2>2. i \in Nat /\ FirstColon(text) < i /\ i <= Len(text) + 1 /\ Len(text) \in Nat
    BY <1>2, StartFacts DEF Text
  <2>3. 1 <= i
    BY <2>1, <2>2
  <2>4. end \in Nat /\ end <= Len(text) + 1 /\ \A j \in i .. end : SegmentEnd(text, j) = end
    BY <2>2, <2>3, SegmentEndFacts
  <2>5. k \in i .. end
    <3> HIDE DEF end
    <3> QED BY <1>1, <2>2, <2>4 DEF end
  <2> QED BY <2>2, <2>3, <2>4, <2>5
<1>4. /\ end > Len(text) => Unlisted(text, code)
      /\ end <= Len(text) => ScansAt(text, code, end + 1)
  BY <1>1, <1>2, AfterEntry
<1>5. ASSUME ~ Ends(text, k) PROVE ~ HasCode(text, k) /\ ScansAt(text, code, After(text, k) + 1)
  <2> DEFINE after == After(text, k)
             to    == To(text, k)
  <2>1. Run(text, k) # {} /\ Rest(text, k) # {}
    BY <1>5 DEF Ends
  <2>2. to \in Nat /\ k < to /\ after \in Nat /\ to <= after /\ after < end
    <3>1. From(text, k) \in Nat /\ k <= From(text, k) /\ to \in Nat /\ From(text, k) < to
      BY <2>1, RunFacts
    <3>2. after \in Nat /\ to <= after /\ after < end
      BY <1>3, <2>1, AfterFacts
    <3> HIDE DEF to, after, end
    <3> QED BY <3>1, <3>2
  <2>3. Codeless(text, bar + 1, end)
    BY <1>1, IsEntryMeans
  <2> HIDE DEF end, to
  <2>4. text[after] \notin Delimiter
    <3>1. bar + 1 \in Nat /\ bar + 1 <= k
      BY <1>1
    <3> QED BY <1>3, <2>1, <2>2, <2>3, <3>1, CodelessRun
  <2> HIDE DEF after
  <2>5. bar < after + 1 /\ after + 1 <= end
    BY <1>1, <1>3, <2>2
  <2>6. InLabel(text, code, after + 1)
    BY <1>1, <2>5 DEF InLabel, end
  <2> QED BY <1>3, <2>2, <2>4, <2>5, <2>6 DEF ScansAt, HasCode, after
<1> QED BY <1>3, <1>4, <1>5 DEF Sound, Finds

(* A round in the name finds no code there; it may be the one that finds   *)
(* the first entry.                                                        *)
LEMMA NameSound ==
  ASSUME NEW text \in Text, NEW code \in Code, IsTable(text, code),
         NEW k \in Nat, 1 <= k, k <= FirstColon(text)
  PROVE  Sound(text, code, k)
<1> DEFINE c   == FirstColon(text)
           end == SegmentEnd(text, k)
<1>1. /\ StatusPrefix(text) # <<>> /\ Codeless(text, 1, c + 1) /\ Len(text) \in Nat
      /\ c \in Nat /\ 1 <= c /\ c <= Len(text) /\ text[c] = Colon
  BY PrefixEnds DEF IsTable, SafeName, Text
<1>2. k <= Len(text) + 1 /\ k <= c
  BY <1>1
<1> HIDE DEF c
<1>3. /\ end \in Nat /\ k <= end /\ end <= Len(text) + 1
      /\ end <= Len(text) => text[end] = Semicolon
      /\ \A j \in k .. end : SegmentEnd(text, j) = end
  BY <1>1, <1>2, SegmentEndFacts
<1> HIDE DEF end
<1>4. end # c
  BY <1>1, <1>3, Marks
<1>5. ASSUME end < c PROVE end <= Len(text) /\ ScansAt(text, code, end + 1)
  BY <1>1, <1>3, <1>5 DEF ScansAt, c
<1>6. CASE Run(text, k) # {} /\ From(text, k) < c
  <2> DEFINE from == From(text, k)
             to   == To(text, k)
  <2>1. /\ from \in Nat /\ k <= from /\ from < end /\ from < c
        /\ to \in Nat /\ from < to /\ to <= end
        /\ \A j \in from .. to - 1 : text[j] \in Digit
    BY <1>1, <1>2, <1>6, RunFacts DEF end
  <2> HIDE DEF from, to
  <2>2. to <= c
    <3>1. ~ (c <= to - 1)
      BY <1>1, <2>1, Marks
    <3> QED BY <1>1, <2>1, <3>1
  <2>3. c < end => c \in Rest(text, k)
    <3> SUFFICES ASSUME c < end PROVE c \in Rest(text, k)
      OBVIOUS
    <3>1. c \in to .. end - 1 /\ text[c] \notin {Space}
      BY <1>1, <1>3, <2>1, <2>2, Marks
    <3> QED BY <3>1 DEF Rest, OutsideOf, to, end
  <2>4. CASE Ends(text, k)
    <3>1. ~ (c < end)
      BY <1>6, <2>3, <2>4 DEF Ends
    <3>2. end < c
      BY <1>1, <1>3, <1>4, <3>1
    <3>3. ~ (end > Len(text))
      BY <1>1, <1>3, <3>2
    <3> QED BY <1>5, <2>4, <3>2, <3>3 DEF Sound, end
  <2>5. CASE ~ Ends(text, k)
    <3> DEFINE after == After(text, k)
    <3>1. Run(text, k) # {} /\ Rest(text, k) # {}
      BY <2>5 DEF Ends
    <3>2. after \in Nat /\ to <= after /\ after < end /\ \A j \in to .. after - 1 : text[j] = Space
      BY <1>2, <3>1, AfterFacts DEF end, to
    <3> HIDE DEF after
    <3>3. after <= c
      <4>1. ~ (c <= after - 1)
        BY <1>1, <2>1, <2>2, <3>2, Marks
      <4> QED BY <1>1, <3>2, <4>1
    <3>4. text[after] \notin Delimiter
      <4>1. after < c + 1 /\ 1 \in Nat /\ c + 1 \in Nat
        BY <1>1, <3>2, <3>3
      <4> QED BY <1>1, <1>2, <3>1, <4>1, CodelessRun DEF after
    <3>5. after # c
      BY <1>1, <3>4, Marks
    <3>6. ScansAt(text, code, after + 1)
      BY <1>1, <3>2, <3>3, <3>5 DEF ScansAt, c
    <3> QED BY <2>5, <3>4, <3>6 DEF Sound, Finds, HasCode, after
  <2> QED BY <2>4, <2>5
<1>7. CASE ~ (Run(text, k) # {} /\ From(text, k) < c)
  <2>1. \A j \in k .. end - 1 : text[j] \in Digit => c < j
    <3>1. CASE Run(text, k) = {}
      BY <3>1 DEF Run, Positions, end
    <3>2. CASE Run(text, k) # {}
      <4> DEFINE from == From(text, k)
      <4>1. /\ from \in Nat /\ text[from] \in Digit
            /\ \A j \in k .. from - 1 : text[j] \notin Digit
        BY <1>1, <1>2, <3>2, RunFacts
      <4>2. ~ (from < c)
        BY <1>7, <3>2
      <4> HIDE DEF from
      <4>3. from # c
        BY <1>1, <4>1, Marks
      <4> QED BY <1>1, <1>3, <4>1, <4>2, <4>3
    <3> QED BY <3>1, <3>2
  <2>2. CASE end < c
    <3>1. Run(text, k) = {}
      <4>1. \A j \in k .. end - 1 : text[j] \notin Digit
        BY <1>1, <1>3, <2>1, <2>2
      <4> QED BY <4>1 DEF Run, Positions, end
    <3>2. ~ (end > Len(text))
      BY <1>1, <1>3, <2>2
    <3> QED BY <1>5, <2>2, <3>1, <3>2 DEF Sound, Ends, end
  <2>3. CASE c < end
    <3>1. c + 1 \in k .. end
      BY <1>1, <1>2, <1>3, <2>3
    <3>2. SegmentEnd(text, c + 1) = end
      BY <1>3, <3>1
    <3>3. \A j \in Nat : j \in k .. end - 1 /\ text[j] \in Digit <=> j \in c + 1 .. end - 1 /\ text[j] \in Digit
      BY <1>1, <1>2, <1>3, <2>1
    <3>4. Run(text, k) = Run(text, c + 1)
      <4>1. Run(text, k) = {j \in k .. end - 1 : text[j] \in Digit}
        BY DEF Run, Positions, end
      <4>2. Run(text, c + 1) = {j \in c + 1 .. end - 1 : text[j] \in Digit}
        BY <3>2 DEF Run, Positions
      <4>3. \A j \in k .. end - 1 : j \in Nat
        OBVIOUS
      <4>4. \A j \in c + 1 .. end - 1 : j \in Nat
        BY <1>1
      <4> QED BY <3>3, <4>1, <4>2, <4>3, <4>4
    <3>5. c + 1 \in ListStarts(text)
      BY <1>1, NextStart DEF c
    <3>6. Passed(text, code, c + 1)
      <4>1. \A i \in ListStarts(text) : i \in Nat /\ c < i
        BY <1>1, StartFacts DEF c
      <4>2. \A i \in ListStarts(text) : ~ (i < c + 1)
        BY <1>1, <4>1
      <4> QED BY <4>2 DEF Passed
    <3>7. Sound(text, code, c + 1)
      BY <3>5, <3>6, StartSound
    <3> QED BY <3>2, <3>4, <3>7, SameRun DEF end
  <2> QED BY <1>1, <1>3, <1>4, <2>2, <2>3
<1> QED BY <1>6, <1>7

LEMMA RoundsAreSound ==
  ASSUME NEW text \in Text, NEW code \in Code, IsTable(text, code), NEW k, ScansAt(text, code, k)
  PROVE  Sound(text, code, k)
BY NameSound, StartSound, LabelSound DEF ScansAt

-----------------------------------------------------------------------------
(* The scan in the life of a tag. *)

LEMMA ScanIsRound ==
  ASSUME Scan
  PROVE  /\ pc = "scan" /\ UNCHANGED <<tag, failed, server, description, value, row>>
         /\ Ends(description, at) /\ SegmentEnd(description, at) > Len(description) =>
              pc' = "report" /\ label' = label
         /\ Ends(description, at) /\ ~ (SegmentEnd(description, at) > Len(description)) =>
              at' = SegmentEnd(description, at) + 1 /\ pc' = pc /\ label' = label
         /\ ~ Ends(description, at) /\ Finds(description, StatusCode(value), at) =>
              pc' = "report" /\ label' = LabelOf(description, at)
         /\ ~ Ends(description, at) /\ ~ Finds(description, StatusCode(value), at) =>
              at' = After(description, at) + 1 /\ pc' = pc /\ label' = label
<1>1. pc = "scan" /\ UNCHANGED <<tag, failed, server, description, value, row>>
  BY Zenon DEF Scan
<1>2. IF Run(description, at) = {} \/ Rest(description, at) = {}
      THEN NextSegment(SegmentEnd(description, at))
      ELSE IF description[After(description, at)] \notin Delimiter
      THEN NoDelimiter(After(description, at), SegmentEnd(description, at))
      ELSE IF SubSeq(description, From(description, at), To(description, at) - 1) = StatusCode(value)
              /\ LabelOf(description, at) # <<>>
      THEN pc' = "report" /\ label' = LabelOf(description, at) /\ UNCHANGED at
      ELSE at' = After(description, at) + 1 /\ UNCHANGED <<pc, label>>
  BY Zenon DEF Scan, LabelOf, Run, From, To, Rest, After, Space
<1> QED BY <1>1, <1>2 DEF NextSegment, NoDelimiter, Finds, Ends, HasCode, NumberAt

LEMMA OneWord == ASSUME NEW S, NEW x \in S PROVE <<x>> \in Seq(S)
OBVIOUS

LEMMA CodeIsText ==
  ASSUME NEW v \in Value
  PROVE  StatusCode(v) \in Code
<1>1. v.text \in Text
  BY DEF Value
<1>2. Trimmed(v.text) \in Code
  BY <1>1, TrimmedFacts, TextIsCode
<1>3. "1" \in Symbol /\ "0" \in Symbol
  BY DEF Symbol
<1>4. <<"1">> \in Code /\ <<"0">> \in Code
  BY <1>3, OneWord, Zenon DEF Code
<1> QED BY <1>2, <1>4, Zenon DEF StatusCode

Looked == IF label = <<>> THEN Unlisted(description, StatusCode(value))
                          ELSE label \in Labels(description, StatusCode(value))

TableInv ==
  /\ server \in Text /\ description \in Text
  /\ row # NoRow => pc = "update" /\ value # NoValue
  /\ pc \in {"scan", "report"} => value \in tag.values
  /\ IsTable(description, StatusCode(value)) =>
       /\ pc = "scan" => label = <<>> /\ ScansAt(description, StatusCode(value), at)
       /\ pc = "report" /\ HasTable(tag) => Looked
  /\ ReportsTheTable

WithoutRow == server = <<>> /\ description = <<>> /\ row = NoRow /\ pc = FirstStep(tag)

LEMMA StartsWithoutRow == WithoutRow => TableInv
<1>1. <<>> \in Text
  BY DEF Text
<1> QED BY <1>1 DEF WithoutRow, TableInv, FirstStep, ReportsTheTable

LEMMA StartsWithoutRowNext == WithoutRow' => TableInv'
BY StartsWithoutRow, PTL

LEMMA ReportSaysIt ==
  ASSUME TableInv, DescriptionInv, Report
  PROVE  ReportsTheTable'
<1> DEFINE code == StatusCode(value)
<1>1. /\ pc = "report" /\ tag' = tag /\ description' = description /\ value' = value
      /\ row' = [value  |-> IF label = <<>> THEN NumericFlag(value)
                            ELSE IF label \in NonAlarm THEN "0" ELSE "1",
                 remark |-> IF label # <<>> /\ StatusPrefix(Shown(description)) # <<>>
                            THEN StatusPrefix(Shown(description)) \o label ELSE Shown(description)]
  BY DEF Report
<1> SUFFICES ASSUME HasTable(tag), IsTable(description, code)
             PROVE  LET listed == Labels(description, code)
                    IN  IF listed = {}
                        THEN row' = [value |-> NumericFlag(value), remark |-> description]
                        ELSE \E l \in listed :
                               row' = [value  |-> IF l \in NonAlarm THEN "0" ELSE "1",
                                       remark |-> StatusPrefix(description) \o l]
  BY <1>1, Zenon DEF ReportsTheTable, code
<1>2. StatusPrefix(description) # <<>> /\ Shown(description) = description
  BY PrefixEnds DEF TableInv, IsTable, SafeName
<1>3. Looked
  BY <1>1 DEF TableInv
<1>4. CASE label = <<>>
  <2>1. Unlisted(description, code)
    BY <1>3, <1>4 DEF Looked
  <2>2. Labels(description, code) = {}
    BY <2>1 DEF Labels, Unlisted
  <2> QED BY <1>1, <1>2, <1>4, <2>2
<1>5. CASE label # <<>>
  <2>1. label \in Labels(description, code)
    BY <1>3, <1>5 DEF Looked
  <2>2. row' = [value  |-> IF label \in NonAlarm THEN "0" ELSE "1",
                remark |-> StatusPrefix(description) \o label]
    BY <1>1, <1>2, <1>5
  <2> HIDE DEF code
  <2> QED BY <2>1, <2>2
<1> QED BY <1>4, <1>5

LEMMA UpdateBegins ==
  ASSUME TableInv, DescriptionInv, Update
  PROVE  TableInv'
<1>1. /\ row = NoRow /\ row' = NoRow /\ value' \in tag.values /\ at' = 1 /\ label' = <<>>
      /\ pc' = IF HasTable(tag) THEN "scan" ELSE "report"
      /\ tag' = tag /\ server' = server /\ description' = description
  BY DEF TableInv, Update
<1>2. ASSUME IsTable(description, StatusCode(value'))
      PROVE  ScansAt(description, StatusCode(value'), 1)
  <2>1. description \in Text /\ Len(description) \in Nat
    BY DEF TableInv, Text
  <2>2. FirstColon(description) \in Nat /\ 1 <= FirstColon(description)
    BY <1>2, <2>1, PrefixEnds DEF IsTable, SafeName
  <2> QED BY <2>1, <2>2 DEF ScansAt
<1>3. ReportsTheTable'
  BY <1>1 DEF ReportsTheTable
<1>4. IsTable(description', StatusCode(value')) =>
        /\ pc' = "scan" => label' = <<>> /\ ScansAt(description', StatusCode(value'), at')
        /\ pc' = "report" => ~ HasTable(tag')
  BY <1>1, <1>2
<1> QED BY <1>1, <1>3, <1>4 DEF TableInv

LEMMA ScanGoesOn ==
  ASSUME TableInv, DescriptionInv, Scan
  PROVE  TableInv'
<1> DEFINE code == StatusCode(value)
<1>1. /\ pc = "scan" /\ tag' = tag /\ server' = server /\ description' = description
      /\ value' = value /\ row' = row
  BY ScanIsRound
<1>2. row = NoRow /\ value \in tag.values /\ description \in Text
  BY <1>1 DEF TableInv
<1>3. code \in Code
  BY <1>2, CodeIsText DEF DescriptionInv, IsTag
<1>4. pc' \in {"scan", "report"}
  BY <1>1, ScanIsRound
<1>5. ASSUME IsTable(description, code)
      PROVE  /\ pc' = "scan" => label' = <<>> /\ ScansAt(description, code, at')
             /\ pc' = "report" => IF label' = <<>> THEN Unlisted(description, code)
                                  ELSE label' \in Labels(description, code)
  <2>1. label = <<>> /\ ScansAt(description, code, at)
    BY <1>1, <1>5 DEF TableInv
  <2>2. Sound(description, code, at)
    BY <1>2, <1>3, <1>5, <2>1, RoundsAreSound
  <2>3. CASE Ends(description, at) /\ SegmentEnd(description, at) > Len(description)
    BY <1>1, <2>1, <2>2, <2>3, ScanIsRound DEF Sound
  <2>4. CASE Ends(description, at) /\ ~ (SegmentEnd(description, at) > Len(description))
    <3>1. SegmentEnd(description, at) <= Len(description)
      <4>1. Len(description) \in Nat /\ at \in Nat /\ 1 <= at /\ at <= Len(description) + 1
        BY <1>2, <2>1 DEF ScansAt, Text
      <4>2. SegmentEnd(description, at) \in Nat
        BY <1>2, <4>1, SegmentEndFacts
      <4> QED BY <2>4, <4>1, <4>2
    <3>2. ScansAt(description, code, SegmentEnd(description, at) + 1)
      BY <2>2, <2>4, <3>1 DEF Sound
    <3> QED BY <1>1, <2>1, <2>4, <3>2, ScanIsRound
  <2>5. CASE ~ Ends(description, at) /\ Finds(description, code, at)
    <3>1. LabelOf(description, at) \in Labels(description, code)
      BY <2>2, <2>5 DEF Sound
    <3>2. pc' = "report" /\ label' = LabelOf(description, at) /\ LabelOf(description, at) # <<>>
      BY <2>5, ScanIsRound DEF Finds
    <3> QED BY <3>1, <3>2
  <2>6. CASE ~ Ends(description, at) /\ ~ Finds(description, code, at)
    <3>1. ScansAt(description, code, After(description, at) + 1)
      BY <2>2, <2>6 DEF Sound
    <3> QED BY <1>1, <2>1, <2>6, <3>1, ScanIsRound
  <2> QED BY <2>3, <2>4, <2>5, <2>6
<1>6. Looked' = IF label' = <<>> THEN Unlisted(description', StatusCode(value'))
                ELSE label' \in Labels(description', StatusCode(value'))
  BY Zenon DEF Looked
<1>7. ReportsTheTable'
  BY <1>1, <1>2 DEF ReportsTheTable
<1>8. IsTable(description', StatusCode(value')) =>
        /\ pc' = "scan" => label' = <<>> /\ ScansAt(description', StatusCode(value'), at')
        /\ pc' = "report" => Looked'
  BY <1>1, <1>5, <1>6
<1> HIDE DEF code
<1> QED BY <1>1, <1>2, <1>4, <1>7, <1>8 DEF TableInv

LEMMA NextTableInv ==
  TableInv /\ DescriptionInv /\ [RowsNext]_<<vars, rowVars>> => TableInv'
<1> SUFFICES ASSUME TableInv, DescriptionInv, [RowsNext]_<<vars, rowVars>> PROVE TableInv'
  OBVIOUS
<1>1. CASE UNCHANGED vars
  BY <1>1 DEF TableInv, Looked, ReportsTheTable, vars
<1>2. ASSUME row' = NoRow, server' \in Text, description' \in Text, pc' \notin {"scan", "report"}
      PROVE  TableInv'
  BY <1>2 DEF TableInv, ReportsTheTable
<1>3. IsTag(tag)
  BY DEF DescriptionInv
<1>4. ASSUME NEW source, NEW text \in Text, Read(source, text) PROVE server' \in Text
  BY <1>4, TrimmedFacts DEF Read, TableInv
<1>5. CASE ReadKepware
  <2>1. server' \in Text
    BY <1>3, <1>4, <1>5 DEF ReadKepware, IsTag, TableInv
  <2> QED BY <1>2, <1>5, <2>1 DEF ReadKepware, TableInv
<1>6. CASE ReadAttribute
  <2>1. server' \in Text
    BY <1>3, <1>4, <1>6 DEF ReadAttribute, IsTag, TableInv
  <2> QED BY <1>2, <1>6, <2>1 DEF ReadAttribute, TableInv
<1>7. CASE BuildDescription
  <2>1. Mapped(tag) \in Text
    <3>1. <<>> \in Text
      BY DEF Text
    <3> QED BY <1>3, <3>1, TrimmedFacts DEF Mapped, IsTag
  <2>2. description' \in Text
    BY <1>3, <1>7, <2>1 DEF BuildDescription, IsTag, TableInv
  <2> QED BY <1>2, <1>7, <2>2 DEF BuildDescription, TableInv
<1>8. CASE Update
  BY <1>8, UpdateBegins
<1>9. CASE Scan
  BY <1>9, ScanGoesOn
<1>10. CASE Send
  <2>1. Report
    BY <1>10 DEF Send
  <2>2. ReportsTheTable'
    BY <2>1, ReportSaysIt
  <2>3. /\ pc = "report" /\ pc' = "update" /\ value' = value
        /\ server' = server /\ description' = description
    BY <2>1 DEF Report
  <2>4. value # NoValue
    <3>1. value \in Value
      BY <1>3, <2>3 DEF TableInv, IsTag
    <3> QED BY <3>1 DEF Value, NoValue
  <2> QED BY <2>2, <2>3, <2>4 DEF TableInv
<1>11. CASE \E s \in sent : Deliver(s)
  BY <1>1, <1>11 DEF Deliver
<1>12. CASE \E change \in Changes : change[1] = tag /\ RestartAs(change[2])
  <2>1. WithoutRow'
    BY <1>12 DEF RestartAs, WithoutRow
  <2> QED BY <2>1, StartsWithoutRowNext
<1>13. CASE UNCHANGED <<vars, rowVars>>
  BY <1>1, <1>13
<1> QED BY <1>5, <1>6, <1>7, <1>8, <1>9, <1>10, <1>11, <1>12, <1>13 DEF RowsNext, DescriptionStep

(* The row of a sorter's tag shows what its description's table gives the  *)
(* value, for every description in the documented form: the scan of        *)
(* description_label_for_code never takes a number of the name or of a     *)
(* label for a code, never skips an entry, and stops at one with the code. *)
THEOREM TablesAreReported == RowsSpec => []ReportsTheTable
<1>1. RowsInit => TableInv
  BY StartsWithoutRow DEF RowsInit, Init, WithoutRow
<1>2. RowsInit => DescriptionInv
  BY InitDescriptionInv
<1>3. DescriptionInv /\ [RowsNext]_<<vars, rowVars>> => DescriptionInv'
  BY NextDescriptionInv
<1>4. TableInv => ReportsTheTable
  BY DEF TableInv
<1> QED BY <1>1, <1>2, <1>3, <1>4, NextTableInv, PTL DEF RowsSpec
=============================================================================
