----------------------------- MODULE Users_proofs ------------------------------
(***************************************************************************)
(* Proofs about the users: what the storage keeps of them (UserStorage)    *)
(* and what the one at the console gets (UserInterface).                   *)
(*                                                                         *)
(* The storage, for any users and certificates: whatever the comparison of *)
(* IDs does, keys are with administrators alone; and where it does not     *)
(* tell equal IDs apart, though it may never come back, a user has one     *)
(* record, and the two vectors with what the thread answers are the        *)
(* directory of UserDirectory.  An entry is what the vectors say of one    *)
(* user; each operation changes the entry of one, and lookups find the     *)
(* entries there are.                                                      *)
(*                                                                         *)
(* The console, for any lines, users and modules that ask: once it is told *)
(* to stop, the reading thread takes one more line at most, though both it *)
(* and the constructor clear the flag on their way; and the echoes shown   *)
(* are those of the lines typed, each once and in their order.             *)
(***************************************************************************)
EXTENDS UserStorage, UserInterface, Lemmas, SequenceTheorems, TLAPS

Distinct(v)  == \A i, j \in DOMAIN v : v[i].id = v[j].id => i = j
Listed(v, u) == \E i \in DOMAIN v : v[i].id = u
Keyed(v)     == \A i \in DOMAIN v : v[i].adminCerts # <<>>
Keyless(v)   == \A i \in DOMAIN v : v[i].adminCerts = <<>>

\* The two vectors together list each user once, and keys are with
\* administrators.
Sound(ps, ads) == /\ ps \in Seq(Record) /\ ads \in Seq(Record)
                  /\ Distinct(ps) /\ Distinct(ads)
                  /\ \A u : ~(Listed(ps, u) /\ Listed(ads, u))
                  /\ Keyed(ads) /\ Keyless(ps)

\* inductive, where equal IDs are not told apart
IInv == /\ Sound(users, admins)
        /\ status \in {"up", "assert", "throw", "stuck"}
        /\ answer \in Answer \cup {NoAnswer}

\* inductive, whatever the comparison does
StorageInv == /\ users \in Seq(Record) /\ admins \in Seq(Record)
              /\ Keyed(admins) /\ Keyless(users)
              /\ EqualIDsNeverDiffer => Sound(users, admins)
              /\ status \in {"up", "assert", "throw", "stuck"}
              /\ answer \in Answer \cup {NoAnswer}

\* What the two vectors say of u: it is k, with record r.
Entry(ps, ads, u, k, r) ==
  \/ k = "user" /\ r.id = u /\ \E i \in DOMAIN ps : ps[i] = r
  \/ k = "admin" /\ r.id = u /\ \E i \in DOMAIN ads : ads[i] = r
  \/ k = "unknown" /\ r = NewUser(u) /\ ~Listed(ps, u) /\ ~Listed(ads, u)

\* Only what is said of u has changed.
Changed(ps, ads, ps2, ads2, u, k, r) ==
  /\ Sound(ps2, ads2)
  /\ Entry(ps2, ads2, u, k, r)
  /\ \A w \in Users : w # u => \A l, q : Entry(ps, ads, w, l, q) => Entry(ps2, ads2, w, l, q)
--------------------------------------------------------------------------------
(* Vectors of records. *)

LEMMA IsRecordOf == \A v \in Seq(Record) : \A i \in DOMAIN v : v[i] \in Record
OBVIOUS

\* Where equal IDs are not told apart, HasUser is what it says.
LEMMA HasUserIs ==
  ASSUME EqualIDsNeverDiffer, NEW v, NEW u
  PROVE  HasUser(v, u) <=> Listed(v, u)
BY DEF HasUser, Same, Listed

\* Lookups find the record there is (string_user_storage.cpp:7-27, 402-428).
LEMMA FindFound ==
  ASSUME EqualIDsNeverDiffer, NEW v \in Seq(Record), Distinct(v), NEW i \in DOMAIN v
  PROVE  Find(v, v[i].id) = i
<1>1. DOMAIN v = 1..Len(v) /\ Len(v) \in Nat
  OBVIOUS
<1>2. \A j \in 1..(i - 1) : v[j].id # v[i].id
  BY <1>1 DEF Distinct
<1>3. \A j \in DOMAIN v : v[j].id = v[i].id => j = i
  BY DEF Distinct
<1>. QED
  BY <1>2, <1>3 DEF Find, Same

\* There is an entry for each user ...
LEMMA EntryExists ==
  ASSUME NEW ps, NEW ads, NEW u
  PROVE  \E k, r : Entry(ps, ads, u, k, r)
BY DEF Entry, Listed

\* ... and lookups find it.
LEMMA LooksUp ==
  ASSUME EqualIDsNeverDiffer, NEW ps, NEW ads, Sound(ps, ads), NEW u \in Users,
         NEW k, NEW r, Entry(ps, ads, u, k, r)
  PROVE  /\ r \in Record /\ r.id = u
         /\ HasUser(ps, u) <=> k = "user"
         /\ HasUser(ads, u) <=> k = "admin"
         /\ k \in {"user", "admin", "unknown"}
         /\ k = "user"  => Find(ps, u) \in DOMAIN ps /\ ps[Find(ps, u)] = r /\ r.adminCerts = <<>>
         /\ k = "admin" => Find(ads, u) \in DOMAIN ads /\ ads[Find(ads, u)] = r /\ r.adminCerts # <<>>
         /\ k = "unknown" => r = NewUser(u)
<1>1. ps \in Seq(Record) /\ ads \in Seq(Record) /\ Distinct(ps) /\ Distinct(ads)
      /\ ~(Listed(ps, u) /\ Listed(ads, u))
  BY DEF Sound
<1>2. HasUser(ps, u) <=> Listed(ps, u)
  BY HasUserIs
<1>3. HasUser(ads, u) <=> Listed(ads, u)
  BY HasUserIs
<1>4. CASE k = "user"
  <2>1. PICK i \in DOMAIN ps : ps[i] = r /\ r.id = u
    BY <1>4 DEF Entry
  <2>2. Find(ps, u) = i
    BY <1>1, <2>1, FindFound
  <2>3. r \in Record /\ r.adminCerts = <<>>
    BY <1>1, <2>1 DEF Sound, Keyless
  <2>4. Listed(ps, u)
    BY <2>1 DEF Listed
  <2>. QED
    BY <1>1, <1>2, <1>3, <1>4, <2>1, <2>2, <2>3, <2>4
<1>5. CASE k = "admin"
  <2>1. PICK i \in DOMAIN ads : ads[i] = r /\ r.id = u
    BY <1>5 DEF Entry
  <2>2. Find(ads, u) = i
    BY <1>1, <2>1, FindFound
  <2>3. r \in Record /\ r.adminCerts # <<>>
    <3>1. ads[i] \in Record
      BY <1>1, IsRecordOf
    <3>2. ads[i].adminCerts # <<>>
      BY DEF Sound, Keyed
    <3>. QED
      BY <2>1, <3>1, <3>2
  <2>4. Listed(ads, u)
    BY <2>1 DEF Listed
  <2>. QED
    BY <1>1, <1>2, <1>3, <1>5, <2>1, <2>2, <2>3, <2>4
<1>6. CASE k = "unknown"
  <2>1. r = NewUser(u) /\ ~Listed(ps, u) /\ ~Listed(ads, u)
    BY <1>6 DEF Entry
  <2>2. r \in Record /\ r.id = u
    BY <2>1 DEF NewUser, Record
  <2>. QED
    BY <1>2, <1>3, <1>6, <2>1, <2>2
<1>. QED
  BY <1>4, <1>5, <1>6 DEF Entry

\* push_back of a record.
LEMMA Appended ==
  ASSUME NEW v \in Seq(Record), Distinct(v), NEW r \in Record, ~Listed(v, r.id)
  PROVE  LET w == Append(v, r) IN
         /\ w \in Seq(Record) /\ Distinct(w)
         /\ \A u : Listed(w, u) <=> Listed(v, u) \/ u = r.id
         /\ \E i \in DOMAIN w : w[i] = r
         /\ \A i \in DOMAIN v : i \in DOMAIN w /\ w[i] = v[i]
         /\ \A i \in DOMAIN w : w[i] = r \/ (i \in DOMAIN v /\ w[i] = v[i])
<1>. DEFINE w == Append(v, r)
<1>1. /\ w \in Seq(Record)
      /\ DOMAIN v = 1..Len(v) /\ Len(v) \in Nat
      /\ DOMAIN w = 1..(Len(v) + 1)
      /\ \A i \in 1..Len(v) : w[i] = v[i]
      /\ w[Len(v) + 1] = r
  OBVIOUS
<1>. HIDE DEF w
<1>2. Distinct(w)
  BY <1>1 DEF Distinct, Listed
<1>3. ASSUME NEW u PROVE Listed(w, u) <=> Listed(v, u) \/ u = r.id
  BY <1>1 DEF Listed
<1>4. \E i \in DOMAIN w : w[i] = r
  <2>1. Len(v) + 1 \in DOMAIN w
    BY <1>1
  <2>. QED
    BY <1>1, <2>1
<1>5. \A i \in DOMAIN v : i \in DOMAIN w /\ w[i] = v[i]
  BY <1>1
<1>6. \A i \in DOMAIN w : w[i] = r \/ (i \in DOMAIN v /\ w[i] = v[i])
  <2>1. \A i \in DOMAIN w : i = Len(v) + 1 \/ i \in 1..Len(v)
    BY <1>1
  <2>. QED
    BY <1>1, <2>1
<1>. QED
  BY <1>1, <1>2, <1>3, <1>4, <1>5, <1>6 DEF w

\* erase of a record.
LEMMA Erased ==
  ASSUME NEW v \in Seq(Record), Distinct(v), NEW p \in DOMAIN v
  PROVE  LET w == Erase(v, p) IN
         /\ w \in Seq(Record) /\ Distinct(w)
         /\ \A u : Listed(w, u) <=> Listed(v, u) /\ u # v[p].id
         /\ \A i \in DOMAIN v : i # p => \E j \in DOMAIN w : w[j] = v[i]
         /\ \A j \in DOMAIN w : \E i \in DOMAIN v : w[j] = v[i]
<1>. DEFINE w == Erase(v, p)
            at(k) == IF k < p THEN k ELSE k + 1
<1>2. DOMAIN v = 1..Len(v) /\ Len(v) \in Nat /\ p \in 1..Len(v)
  OBVIOUS
<1>3. w = RemoveAt(v, p)
  BY DEF Erase
<1>4. /\ w \in Seq(Record) /\ DOMAIN w = 1..(Len(v) - 1)
      /\ \A k \in DOMAIN w : w[k] = v[at(k)]
  BY <1>2, <1>3, RemoveAtProperties
<1>. HIDE DEF w
<1>5. \A k \in DOMAIN w : at(k) \in DOMAIN v /\ at(k) # p
  BY <1>2, <1>4
<1>6. \A j, k \in DOMAIN w : at(j) = at(k) => j = k
  BY <1>2, <1>4
<1>7. \A j \in DOMAIN v : j # p => \E k \in DOMAIN w : at(k) = j
  <2>. SUFFICES ASSUME NEW j \in DOMAIN v, j # p
                PROVE  \E k \in DOMAIN w : at(k) = j
    OBVIOUS
  <2>1. CASE j < p
    BY <1>2, <1>4, <2>1
  <2>2. CASE j > p
    <3>1. j - 1 \in DOMAIN w /\ at(j - 1) = j
      BY <1>2, <1>4, <2>2
    <3>. QED
      BY <3>1
  <2>. QED
    BY <1>2, <2>1, <2>2
<1>. HIDE DEF at
<1>8. Distinct(w)
  BY <1>4, <1>5, <1>6 DEF Distinct
<1>9. ASSUME NEW u PROVE Listed(w, u) <=> Listed(v, u) /\ u # v[p].id
  BY <1>4, <1>5, <1>7 DEF Listed, Distinct
<1>. QED
  BY <1>4, <1>5, <1>7, <1>8, <1>9 DEF w

\* A record is changed where it is.
LEMMA Rewritten ==
  ASSUME NEW v \in Seq(Record), Distinct(v), NEW p \in DOMAIN v,
         NEW r \in Record, r.id = v[p].id
  PROVE  LET w == [v EXCEPT ![p] = r] IN
         /\ w \in Seq(Record) /\ Distinct(w)
         /\ \A u : Listed(w, u) <=> Listed(v, u)
         /\ DOMAIN w = DOMAIN v /\ w[p] = r
         /\ \A i \in DOMAIN v : i # p => w[i] = v[i]
<1>. DEFINE w == [v EXCEPT ![p] = r]
<1>1. w \in Seq(Record) /\ DOMAIN w = DOMAIN v /\ w[p] = r /\ \A i \in DOMAIN v : i # p => w[i] = v[i]
  OBVIOUS
<1>. HIDE DEF w
<1>2. \A i \in DOMAIN v : w[i].id = v[i].id
  BY <1>1
<1>3. Distinct(w) /\ \A u : Listed(w, u) <=> Listed(v, u)
  BY <1>1, <1>2 DEF Distinct, Listed
<1>. QED
  BY <1>1, <1>3 DEF w
--------------------------------------------------------------------------------
(* What the operations on the storage change. *)

LEMMA UserAdded ==
  ASSUME NEW ps, NEW ads, Sound(ps, ads), NEW r \in Record, r.adminCerts = <<>>,
         ~Listed(ps, r.id), ~Listed(ads, r.id)
  PROVE  Changed(ps, ads, Append(ps, r), ads, r.id, "user", r)
<1>. DEFINE w == Append(ps, r)
<1>1. /\ ps \in Seq(Record) /\ ads \in Seq(Record) /\ Distinct(ps) /\ Distinct(ads)
      /\ Keyed(ads) /\ Keyless(ps) /\ \A u : ~(Listed(ps, u) /\ Listed(ads, u))
  BY DEF Sound
<1>2. /\ w \in Seq(Record) /\ Distinct(w)
      /\ \A u : Listed(w, u) <=> Listed(ps, u) \/ u = r.id
      /\ \E i \in DOMAIN w : w[i] = r
      /\ \A i \in DOMAIN ps : i \in DOMAIN w /\ w[i] = ps[i]
      /\ \A i \in DOMAIN w : w[i] = r \/ (i \in DOMAIN ps /\ w[i] = ps[i])
  BY <1>1, Appended
<1>. HIDE DEF w
<1>3. Keyless(w)
  BY <1>1, <1>2 DEF Keyless
<1>4. Sound(w, ads)
  BY <1>1, <1>2, <1>3 DEF Sound
<1>5. Entry(w, ads, r.id, "user", r)
  BY <1>2 DEF Entry
<1>6. ASSUME NEW u \in Users, u # r.id, NEW l, NEW q, Entry(ps, ads, u, l, q)
      PROVE  Entry(w, ads, u, l, q)
  BY <1>2, <1>6 DEF Entry
<1>. QED
  BY <1>4, <1>5, <1>6 DEF Changed, w

LEMMA UserChanged ==
  ASSUME NEW ps, NEW ads, Sound(ps, ads), NEW p \in DOMAIN ps,
         NEW r \in Record, r.id = ps[p].id, r.adminCerts = <<>>
  PROVE  Changed(ps, ads, [ps EXCEPT ![p] = r], ads, r.id, "user", r)
<1>. DEFINE w == [ps EXCEPT ![p] = r]
<1>1. /\ ps \in Seq(Record) /\ ads \in Seq(Record) /\ Distinct(ps) /\ Distinct(ads)
      /\ Keyed(ads) /\ Keyless(ps) /\ \A u : ~(Listed(ps, u) /\ Listed(ads, u))
  BY DEF Sound
<1>2. /\ w \in Seq(Record) /\ Distinct(w)
      /\ \A u : Listed(w, u) <=> Listed(ps, u)
      /\ DOMAIN w = DOMAIN ps /\ w[p] = r
      /\ \A i \in DOMAIN ps : i # p => w[i] = ps[i]
  BY <1>1, Rewritten
<1>. HIDE DEF w
<1>3. Keyless(w)
  BY <1>1, <1>2 DEF Keyless
<1>4. Sound(w, ads)
  BY <1>1, <1>2, <1>3 DEF Sound
<1>5. Entry(w, ads, r.id, "user", r)
  BY <1>2 DEF Entry
<1>6. ASSUME NEW u \in Users, u # r.id, NEW l, NEW q, Entry(ps, ads, u, l, q)
      PROVE  Entry(w, ads, u, l, q)
  BY <1>2, <1>6 DEF Entry
<1>. QED
  BY <1>4, <1>5, <1>6 DEF Changed, w

LEMMA AdminChanged ==
  ASSUME NEW ps, NEW ads, Sound(ps, ads), NEW p \in DOMAIN ads,
         NEW r \in Record, r.id = ads[p].id, r.adminCerts # <<>>
  PROVE  Changed(ps, ads, ps, [ads EXCEPT ![p] = r], r.id, "admin", r)
<1>. DEFINE w == [ads EXCEPT ![p] = r]
<1>1. /\ ps \in Seq(Record) /\ ads \in Seq(Record) /\ Distinct(ps) /\ Distinct(ads)
      /\ Keyed(ads) /\ Keyless(ps) /\ \A u : ~(Listed(ps, u) /\ Listed(ads, u))
  BY DEF Sound
<1>2. /\ w \in Seq(Record) /\ Distinct(w)
      /\ \A u : Listed(w, u) <=> Listed(ads, u)
      /\ DOMAIN w = DOMAIN ads /\ w[p] = r
      /\ \A i \in DOMAIN ads : i # p => w[i] = ads[i]
  BY <1>1, Rewritten
<1>. HIDE DEF w
<1>3. Keyed(w)
  BY <1>1, <1>2 DEF Keyed
<1>4. Sound(ps, w)
  BY <1>1, <1>2, <1>3 DEF Sound
<1>5. Entry(ps, w, r.id, "admin", r)
  BY <1>2 DEF Entry
<1>6. ASSUME NEW u \in Users, u # r.id, NEW l, NEW q, Entry(ps, ads, u, l, q)
      PROVE  Entry(ps, w, u, l, q)
  BY <1>2, <1>6 DEF Entry
<1>. QED
  BY <1>4, <1>5, <1>6 DEF Changed, w

LEMMA AdminAdded ==
  ASSUME NEW ps, NEW ads, Sound(ps, ads), NEW r \in Record, r.adminCerts # <<>>,
         ~Listed(ps, r.id), ~Listed(ads, r.id)
  PROVE  Changed(ps, ads, ps, Append(ads, r), r.id, "admin", r)
<1>. DEFINE w == Append(ads, r)
<1>1. /\ ps \in Seq(Record) /\ ads \in Seq(Record) /\ Distinct(ps) /\ Distinct(ads)
      /\ Keyed(ads) /\ Keyless(ps) /\ \A u : ~(Listed(ps, u) /\ Listed(ads, u))
  BY DEF Sound
<1>2. /\ w \in Seq(Record) /\ Distinct(w)
      /\ \A u : Listed(w, u) <=> Listed(ads, u) \/ u = r.id
      /\ \E i \in DOMAIN w : w[i] = r
      /\ \A i \in DOMAIN ads : i \in DOMAIN w /\ w[i] = ads[i]
      /\ \A i \in DOMAIN w : w[i] = r \/ (i \in DOMAIN ads /\ w[i] = ads[i])
  BY <1>1, Appended
<1>. HIDE DEF w
<1>3. Keyed(w)
  BY <1>1, <1>2 DEF Keyed
<1>4. Sound(ps, w)
  BY <1>1, <1>2, <1>3 DEF Sound
<1>5. Entry(ps, w, r.id, "admin", r)
  BY <1>2 DEF Entry
<1>6. ASSUME NEW u \in Users, u # r.id, NEW l, NEW q, Entry(ps, ads, u, l, q)
      PROVE  Entry(ps, w, u, l, q)
  BY <1>2, <1>6 DEF Entry
<1>. QED
  BY <1>4, <1>5, <1>6 DEF Changed, w

\* A peer becomes an administrator: its record goes, a new one comes.
LEMMA Promoted ==
  ASSUME NEW ps, NEW ads, Sound(ps, ads), NEW p \in DOMAIN ps,
         NEW r \in Record, r.id = ps[p].id, r.adminCerts # <<>>
  PROVE  Changed(ps, ads, Erase(ps, p), Append(ads, r), r.id, "admin", r)
<1>. DEFINE x == Erase(ps, p)
            w == Append(ads, r)
<1>1. /\ ps \in Seq(Record) /\ ads \in Seq(Record) /\ Distinct(ps) /\ Distinct(ads)
      /\ Keyed(ads) /\ Keyless(ps) /\ \A u : ~(Listed(ps, u) /\ Listed(ads, u))
  BY DEF Sound
<1>2. /\ x \in Seq(Record) /\ Distinct(x)
      /\ \A u : Listed(x, u) <=> Listed(ps, u) /\ u # r.id
      /\ \A i \in DOMAIN ps : i # p => \E j \in DOMAIN x : x[j] = ps[i]
      /\ \A j \in DOMAIN x : \E i \in DOMAIN ps : x[j] = ps[i]
  BY <1>1, Erased
<1>3. ~Listed(ads, r.id)
  BY <1>1 DEF Listed
<1>4. /\ w \in Seq(Record) /\ Distinct(w)
      /\ \A u : Listed(w, u) <=> Listed(ads, u) \/ u = r.id
      /\ \E i \in DOMAIN w : w[i] = r
      /\ \A i \in DOMAIN ads : i \in DOMAIN w /\ w[i] = ads[i]
      /\ \A i \in DOMAIN w : w[i] = r \/ (i \in DOMAIN ads /\ w[i] = ads[i])
  BY <1>1, <1>3, Appended
<1>. HIDE DEF w, x
<1>5. Keyed(w) /\ Keyless(x)
  <2>1. Keyed(w)
    BY <1>1, <1>4 DEF Keyed
  <2>2. Keyless(x)
    BY <1>1, <1>2 DEF Keyless
  <2>. QED
    BY <2>1, <2>2
<1>6. Sound(x, w)
  BY <1>1, <1>2, <1>4, <1>5 DEF Sound
<1>7. Entry(x, w, r.id, "admin", r)
  BY <1>4 DEF Entry
<1>8. ASSUME NEW u \in Users, u # r.id, NEW l, NEW q, Entry(ps, ads, u, l, q)
      PROVE  Entry(x, w, u, l, q)
  <2>1. CASE l = "user"
    <3>1. PICK i \in DOMAIN ps : ps[i] = q /\ q.id = u
      BY <1>8, <2>1 DEF Entry
    <3>2. i # p
      BY <1>8, <3>1
    <3>3. \E j \in DOMAIN x : x[j] = q
      BY <1>2, <3>1, <3>2
    <3>. QED
      BY <2>1, <3>1, <3>3 DEF Entry
  <2>2. CASE l = "admin"
    <3>1. PICK i \in DOMAIN ads : ads[i] = q /\ q.id = u
      BY <1>8, <2>2 DEF Entry
    <3>2. i \in DOMAIN w /\ w[i] = q
      BY <1>4, <3>1
    <3>. QED
      BY <2>2, <3>1, <3>2 DEF Entry
  <2>3. CASE l = "unknown"
    BY <1>2, <1>4, <1>8, <2>3 DEF Entry
  <2>. QED
    BY <1>8, <2>1, <2>2, <2>3 DEF Entry
<1>. QED
  BY <1>6, <1>7, <1>8 DEF Changed, x, w
--------------------------------------------------------------------------------
(* What the directory sees. *)

\* The directory has what the entries say, before a step and after it.
LEMMA DirectorySees ==
  ASSUME EqualIDsNeverDiffer, IInv, NEW u \in Users, NEW k, NEW r, Entry(users, admins, u, k, r)
  PROVE  RecordOf(u) = r /\ KnownAs[u] = k /\ KnownCerts[u] = Range(r.certs)
         /\ KnownKeys[u] = Range(r.adminCerts)
<1>1. /\ HasUser(users, u) <=> k = "user"
      /\ HasUser(admins, u) <=> k = "admin"
      /\ k \in {"user", "admin", "unknown"}
      /\ k = "user"  => users[Find(users, u)] = r
      /\ k = "admin" => admins[Find(admins, u)] = r
      /\ k = "unknown" => r = NewUser(u)
  BY LooksUp DEF IInv
<1>2. RecordOf(u) = r
  BY <1>1 DEF RecordOf, Everywhere
<1>. QED
  BY <1>1, <1>2 DEF KnownAs, KnownCerts, KnownKeys

LEMMA DirectoryWillSee ==
  ASSUME EqualIDsNeverDiffer, Sound(users', admins'), NEW u \in Users, NEW k, NEW r,
         Entry(users', admins', u, k, r)
  PROVE  KnownAs'[u] = k /\ KnownCerts'[u] = Range(r.certs) /\ KnownKeys'[u] = Range(r.adminCerts)
<1>1. PICK ps, ads : ps = users' /\ ads = admins'
  OBVIOUS
<1>2. Sound(ps, ads) /\ Entry(ps, ads, u, k, r)
  BY <1>1
<1>3. /\ HasUser(ps, u) <=> k = "user"
      /\ HasUser(ads, u) <=> k = "admin"
      /\ k \in {"user", "admin", "unknown"}
      /\ k = "user"  => ps[Find(ps, u)] = r
      /\ k = "admin" => ads[Find(ads, u)] = r
      /\ k = "unknown" => r = NewUser(u)
  BY <1>2, LooksUp
<1>4. RecordOf(u)' = r
  BY <1>1, <1>3 DEF RecordOf, Everywhere
<1>5. KnownAs'[u] = k
  BY <1>1, <1>3 DEF KnownAs
<1>. QED
  BY <1>4, <1>5 DEF KnownCerts, KnownKeys

\* A step that changes what is said of one user.
LEMMA Update ==
  ASSUME EqualIDsNeverDiffer, IInv, NEW u \in Users, NEW k, NEW r,
         Changed(users, admins, users', admins', u, k, r)
  PROVE  /\ Sound(users', admins')
         /\ KnownAs' = [KnownAs EXCEPT ![u] = k]
         /\ KnownCerts' = [KnownCerts EXCEPT ![u] = Range(r.certs)]
         /\ KnownKeys' = [KnownKeys EXCEPT ![u] = Range(r.adminCerts)]
<1>1. Sound(users', admins') /\ Entry(users', admins', u, k, r)
  BY DEF Changed
<1>2. KnownAs'[u] = k /\ KnownCerts'[u] = Range(r.certs) /\ KnownKeys'[u] = Range(r.adminCerts)
  BY <1>1, DirectoryWillSee
<1>3. ASSUME NEW w \in Users, w # u
      PROVE  KnownAs'[w] = KnownAs[w] /\ KnownCerts'[w] = KnownCerts[w] /\ KnownKeys'[w] = KnownKeys[w]
  <2>1. PICK l, q : Entry(users, admins, w, l, q)
    BY EntryExists
  <2>2. Entry(users', admins', w, l, q)
    BY <1>3, <2>1 DEF Changed
  <2>3. KnownAs[w] = l /\ KnownCerts[w] = Range(q.certs) /\ KnownKeys[w] = Range(q.adminCerts)
    BY <2>1, DirectorySees
  <2>4. KnownAs'[w] = l /\ KnownCerts'[w] = Range(q.certs) /\ KnownKeys'[w] = Range(q.adminCerts)
    BY <1>1, <2>2, DirectoryWillSee
  <2>. QED
    BY <2>3, <2>4
<1>4. /\ KnownAs = [w \in Users |-> KnownAs[w]] /\ KnownAs' = [w \in Users |-> KnownAs'[w]]
      /\ KnownCerts = [w \in Users |-> KnownCerts[w]]
      /\ KnownCerts' = [w \in Users |-> KnownCerts'[w]]
      /\ KnownKeys = [w \in Users |-> KnownKeys[w]] /\ KnownKeys' = [w \in Users |-> KnownKeys'[w]]
  BY DEF KnownAs, KnownCerts, KnownKeys
<1>5. KnownAs' = [KnownAs EXCEPT ![u] = k]
  BY <1>2, <1>3, <1>4
<1>6. KnownCerts' = [KnownCerts EXCEPT ![u] = Range(r.certs)]
  BY <1>2, <1>3, <1>4
<1>7. KnownKeys' = [KnownKeys EXCEPT ![u] = Range(r.adminCerts)]
  BY <1>2, <1>3, <1>4
<1>. QED
  BY <1>1, <1>5, <1>6, <1>7

\* A step that leaves both vectors alone: every failure and every answer.
LEMMA Unmoved ==
  ASSUME UNCHANGED <<users, admins>>
  PROVE  (Sound(users, admins) => Sound(users', admins')) /\ UNCHANGED <<KnownAs, KnownCerts, KnownKeys>>
<1>1. \A u : RecordOf(u)' = RecordOf(u)
  BY DEF RecordOf, Everywhere
<1>2. Sound(users, admins) => Sound(users', admins')
  OBVIOUS
<1>. QED
  BY <1>1, <1>2 DEF KnownAs, KnownCerts, KnownKeys

\* The thread ends.
LEMMA ThreadEnds ==
  ASSUME IInv, status = "up", NEW why \in {"assert", "throw", "stuck"}, Ends(why)
  PROVE  IInv' /\ Directory!Ends
<1>1. UNCHANGED <<users, admins, answer>> /\ status' = why
  BY DEF Ends
<1>2. Sound(users', admins') /\ UNCHANGED <<KnownAs, KnownCerts, KnownKeys>>
  BY <1>1, Unmoved DEF IInv
<1>5. IInv'
  BY <1>1, <1>2 DEF IInv
<1>3. UNCHANGED Answered
  BY <1>1 DEF Answered
<1>4. (status = "up")' = FALSE
  BY <1>1
<1>. QED
  BY <1>2, <1>3, <1>4, <1>5 DEF Directory!Ends, Directory!Entry

\* The storage has changed what it says of u.
LEMMA Stored ==
  ASSUME EqualIDsNeverDiffer, IInv, status = "up", NEW u \in Users, NEW k, NEW r, NEW ps, NEW ads,
         Stores(ps, ads), Changed(users, admins, ps, ads, u, k, r)
  PROVE  /\ IInv' /\ Directory!Serves /\ UNCHANGED Answered
         /\ KnownAs' = [KnownAs EXCEPT ![u] = k]
         /\ KnownCerts' = [KnownCerts EXCEPT ![u] = Range(r.certs)]
         /\ KnownKeys' = [KnownKeys EXCEPT ![u] = Range(r.adminCerts)]
<1>1. users' = ps /\ admins' = ads /\ UNCHANGED <<status, answer>>
  BY DEF Stores
<1>2. Changed(users, admins, users', admins', u, k, r)
  BY <1>1
<1>3. /\ Sound(users', admins')
      /\ KnownAs' = [KnownAs EXCEPT ![u] = k]
      /\ KnownCerts' = [KnownCerts EXCEPT ![u] = Range(r.certs)]
      /\ KnownKeys' = [KnownKeys EXCEPT ![u] = Range(r.adminCerts)]
  BY <1>2, Update
<1>4. UNCHANGED Answered
  BY <1>1 DEF Answered
<1>5. Directory!Serves
  BY <1>1 DEF Directory!Serves
<1>6. IInv'
  BY <1>1, <1>3 DEF IInv
<1>. QED
  BY <1>3, <1>4, <1>5, <1>6

\* What is found in a sequence is what is in it.
LEMMA FoundIs ==
  ASSUME EqualIDsNeverDiffer, NEW s \in Seq(Certs)
  PROVE  /\ Found(s) = Range(s) /\ Range(s) \subseteq Certs
         /\ \A c : Has(s, c) <=> c \in Range(s)
<1>1. \A c : Has(s, c) <=> c \in Range(s)
  BY DEF Has, Same, Range
<1>2. Range(s) \subseteq Certs
  BY DEF Range
<1>. QED
  BY <1>1, <1>2 DEF Found

LEMMA HasCertIs ==
  ASSUME EqualIDsNeverDiffer, NEW r \in Record
  PROVE  \A c : HasCert(r, c) <=> c \in Range(r.certs) \cup Range(r.adminCerts)
<1>1. r.certs \in Seq(Certs) /\ r.adminCerts \in Seq(Certs)
  BY DEF Record
<1>. QED
  BY <1>1, FoundIs DEF HasCert

LEMMA EmptyHasNone == Range(<<>>) = {} /\ \A c : Range(<<c>>) = {c}
<1>1. Range(<<>>) = {}
  BY DEF Range
<1>2. ASSUME NEW c PROVE Range(<<c>>) = {c}
  <2>1. DOMAIN <<c>> = {1} /\ <<c>>[1] = c
    OBVIOUS
  <2>. QED
    BY <2>1 DEF Range
<1>. QED
  BY <1>1, <1>2

LEMMA EmptyIs == \A s \in Seq(Certs) : s = <<>> <=> Range(s) = {}
<1>1. ASSUME NEW s \in Seq(Certs), s # <<>> PROVE Range(s) # {}
  <2>1. 1 \in DOMAIN s
    BY <1>1
  <2>. QED
    BY <2>1 DEF Range
<1>. QED
  BY <1>1, EmptyHasNone

\* CombineUserCertAdmins adds keys and drops what they replace (string_user_admin.cpp:231).
LEMMA CombinedAdminsIs ==
  ASSUME EqualIDsNeverDiffer, NEW r \in Record, NEW e \in Record
  PROVE  LET q == CombinedAdmins(r, e) IN
         /\ q \in Record /\ q.id = r.id
         /\ Range(q.certs) = Range(r.certs) \ Range(e.adminCerts)
         /\ Range(q.adminCerts) = Range(r.adminCerts) \cup Range(e.adminCerts)
<1>. DEFINE X == Without(r.certs, Found(e.adminCerts))
            K == r.adminCerts \o e.adminCerts
<1>1. r.certs \in Seq(Certs) /\ e.adminCerts \in Seq(Certs) /\ r.adminCerts \in Seq(Certs)
  BY DEF Record
<1>2. X \in Seq(Certs) /\ Range(X) = Range(r.certs) \ Range(e.adminCerts)
  <2>1. Found(e.adminCerts) = Range(e.adminCerts)
    BY <1>1, FoundIs
  <2>2. X \in Seq(Certs) /\ ToSet(X) = ToSet(r.certs) \ Range(e.adminCerts)
    BY <1>1, <2>1, WithoutProperties
  <2>. QED
    BY <2>2 DEF ToSet, Range
<1>3. K \in Seq(Certs) /\ Range(K) = Range(r.adminCerts) \cup Range(e.adminCerts)
  <2>1. K \in Seq(Certs) /\ ToSet(K) = ToSet(r.adminCerts) \cup ToSet(e.adminCerts)
    BY <1>1, ConcatSet
  <2>. QED
    BY <2>1 DEF ToSet, Range
<1>4. CombinedAdmins(r, e) = [r EXCEPT !.certs = X, !.adminCerts = K]
  BY DEF CombinedAdmins
<1>. HIDE DEF X, K
<1>. DEFINE q == [r EXCEPT !.certs = X, !.adminCerts = K]
<1>5. q \in Record /\ q.id = r.id /\ q.certs = X /\ q.adminCerts = K
  BY <1>2, <1>3 DEF Record
<1>. HIDE DEF q
<1>. QED
  BY <1>2, <1>3, <1>4, <1>5 DEF q
--------------------------------------------------------------------------------
(* The steps of the thread are steps of the directory. *)

LEMMA RegisterStep ==
  ASSUME EqualIDsNeverDiffer, IInv, NEW u \in Users, Register(u)
  PROVE  IInv' /\ Directory!Register(u)
<1>0. status = "up" /\ Sound(users, admins)
  BY DEF Register, IInv
<1>1. PICK k, r : Entry(users, admins, u, k, r)
  BY EntryExists
<1>2. /\ r \in Record /\ r.id = u
      /\ HasUser(users, u) <=> k = "user"
      /\ HasUser(admins, u) <=> k = "admin"
      /\ k \in {"user", "admin", "unknown"}
      /\ k = "admin" => /\ Find(admins, u) \in DOMAIN admins /\ admins[Find(admins, u)] = r
                        /\ r.adminCerts # <<>>
  BY <1>0, <1>1, LooksUp
<1>3. KnownAs[u] = k /\ KnownCerts[u] = Range(r.certs) /\ KnownKeys[u] = Range(r.adminCerts)
  BY <1>1, DirectorySees
<1>4. KnownAs = [KnownAs EXCEPT ![u] = KnownAs[u]] /\ KnownCerts = [KnownCerts EXCEPT ![u] = KnownCerts[u]]
      /\ KnownKeys = [KnownKeys EXCEPT ![u] = KnownKeys[u]]
  BY DEF KnownAs, KnownCerts, KnownKeys
<1>5. CASE k = "user"
  <2>1. Ends("assert")
    BY <1>2, <1>5 DEF Register
  <2>. QED
    BY <1>0, <1>3, <1>5, <2>1, ThreadEnds DEF Directory!Register
<1>6. CASE k = "admin"
  <2>1. Stores(users, admins)
    BY <1>2, <1>6 DEF Register
  <2>2. UNCHANGED <<users, admins, status, answer>>
    BY <2>1 DEF Stores
  <2>3. Sound(users', admins') /\ UNCHANGED <<KnownAs, KnownCerts, KnownKeys>>
    BY <1>0, <2>2, Unmoved
  <2>4. IInv'
    BY <2>2, <2>3 DEF IInv
  <2>5. UNCHANGED Answered /\ Directory!Serves
    BY <1>0, <2>2 DEF Answered, Directory!Serves
  <2>6. KnownAs' = [KnownAs EXCEPT ![u] = IF KnownAs[u] = "unknown" THEN "user" ELSE KnownAs[u]]
    BY <1>3, <1>4, <1>6, <2>3
  <2>. QED
    BY <1>3, <1>6, <2>3, <2>4, <2>5, <2>6 DEF Directory!Register
<1>7. CASE k = "unknown"
  <2>. DEFINE q == NewUser(u)
              ps == Append(users, q)
  <2>1. Stores(ps, admins)
    BY <1>2, <1>7 DEF Register
  <2>2. r = q /\ ~Listed(users, u) /\ ~Listed(admins, u)
    BY <1>1, <1>7 DEF Entry
  <2>3. q \in Record /\ q.id = u /\ q.adminCerts = <<>>
    BY DEF NewUser, Record
  <2>. HIDE DEF q
  <2>4. Changed(users, admins, ps, admins, u, "user", q)
    BY <1>0, <2>2, <2>3, UserAdded
  <2>. HIDE DEF ps
  <2>5. /\ IInv' /\ Directory!Serves /\ UNCHANGED Answered
        /\ KnownAs' = [KnownAs EXCEPT ![u] = "user"]
        /\ KnownCerts' = [KnownCerts EXCEPT ![u] = Range(q.certs)]
        /\ KnownKeys' = [KnownKeys EXCEPT ![u] = Range(q.adminCerts)]
    BY <1>0, <2>1, <2>4, Stored
  <2>6. UNCHANGED <<KnownCerts, KnownKeys>>
    BY <1>3, <1>4, <2>2, <2>5
  <2>. QED
    BY <1>3, <1>7, <2>5, <2>6 DEF Directory!Register
<1>. QED
  BY <1>2, <1>5, <1>6, <1>7

\* A certificate, or a key, put behind those of a record.
LEMMA CertAppended ==
  ASSUME NEW r \in Record, NEW c \in Certs
  PROVE  /\ LET q == [r EXCEPT !.certs = Append(@, c)] IN
            /\ q \in Record /\ q.id = r.id /\ q.adminCerts = r.adminCerts
            /\ Range(q.certs) = Range(r.certs) \cup {c}
         /\ LET q == [r EXCEPT !.adminCerts = Append(@, c)] IN
            /\ q \in Record /\ q.id = r.id /\ q.certs = r.certs
            /\ Range(q.adminCerts) = Range(r.adminCerts) \cup {c}
<1>1. r.certs \in Seq(Certs) /\ r.adminCerts \in Seq(Certs)
  BY DEF Record
<1>. DEFINE C == Append(r.certs, c)
            K == Append(r.adminCerts, c)
<1>2. C \in Seq(Certs) /\ Range(C) = Range(r.certs) \cup {c}
  <2>1. C \in Seq(Certs) /\ ToSet(C) = ToSet(r.certs) \cup {c}
    BY <1>1, AppendSet
  <2>. QED
    BY <2>1 DEF ToSet, Range
<1>3. K \in Seq(Certs) /\ Range(K) = Range(r.adminCerts) \cup {c}
  <2>1. K \in Seq(Certs) /\ ToSet(K) = ToSet(r.adminCerts) \cup {c}
    BY <1>1, AppendSet
  <2>. QED
    BY <2>1 DEF ToSet, Range
<1>. HIDE DEF C, K
<1>4. LET q == [r EXCEPT !.certs = C] IN
      q \in Record /\ q.id = r.id /\ q.certs = C /\ q.adminCerts = r.adminCerts
  BY <1>2 DEF Record
<1>5. LET q == [r EXCEPT !.adminCerts = K] IN
      q \in Record /\ q.id = r.id /\ q.certs = r.certs /\ q.adminCerts = K
  BY <1>3 DEF Record
<1>6. [r EXCEPT !.certs = Append(@, c)] = [r EXCEPT !.certs = C]
      /\ [r EXCEPT !.adminCerts = Append(@, c)] = [r EXCEPT !.adminCerts = K]
  BY DEF C, K
<1>. QED
  BY <1>2, <1>3, <1>4, <1>5, <1>6

LEMMA AddCertStep ==
  ASSUME EqualIDsNeverDiffer, IInv, NEW c \in Certs, AddCert(c)
  PROVE  IInv' /\ Directory!AddCert(c)
<1>. DEFINE u == Owner[c]
<1>0. status = "up" /\ Sound(users, admins) /\ u \in Users
  BY CertAssumption DEF AddCert, IInv
<1>. HIDE DEF u
<1>1. PICK k, r : Entry(users, admins, u, k, r)
  BY EntryExists
<1>2. /\ r \in Record /\ r.id = u
      /\ HasUser(users, u) <=> k = "user"
      /\ HasUser(admins, u) <=> k = "admin"
      /\ k \in {"user", "admin", "unknown"}
      /\ k = "user"  => /\ Find(users, u) \in DOMAIN users /\ users[Find(users, u)] = r
                        /\ r.adminCerts = <<>>
      /\ k = "admin" => /\ Find(admins, u) \in DOMAIN admins /\ admins[Find(admins, u)] = r
                        /\ r.adminCerts # <<>>
      /\ k = "unknown" => r = NewUser(u)
  BY <1>0, <1>1, LooksUp
<1>3. KnownAs[u] = k /\ KnownCerts[u] = Range(r.certs) /\ KnownKeys[u] = Range(r.adminCerts)
  BY <1>0, <1>1, DirectorySees
<1>4. KnownAs = [KnownAs EXCEPT ![u] = KnownAs[u]] /\ KnownKeys = [KnownKeys EXCEPT ![u] = KnownKeys[u]]
  BY DEF KnownAs, KnownKeys
<1>5. HasCert(r, c) <=> c \in KnownCerts[u] \cup KnownKeys[u]
  BY <1>2, <1>3, HasCertIs
<1>6. CASE k # "unknown" /\ HasCert(r, c)
  <2>1. Ends("assert")
    BY <1>2, <1>6 DEF AddCert, u
  <2>2. IInv' /\ Directory!Ends
    BY <1>0, <2>1, ThreadEnds
  <2>. QED
    BY <1>5, <1>6, <2>2 DEF Directory!AddCert, u
<1>. DEFINE q == [r EXCEPT !.certs = Append(@, c)]
<1>7. /\ q \in Record /\ q.id = u /\ q.adminCerts = r.adminCerts
      /\ Range(q.certs) = Range(r.certs) \cup {c}
  BY <1>2, CertAppended
<1>8. ASSUME NEW ps, NEW ads, Stores(ps, ads), ~HasCert(r, c),
             NEW l, Changed(users, admins, ps, ads, u, l, q),
             l = IF k = "unknown" THEN "user" ELSE k
      PROVE  IInv' /\ Directory!AddCert(c)
  <2>. HIDE DEF q
  <2>1. /\ IInv' /\ Directory!Serves /\ UNCHANGED Answered
        /\ KnownAs' = [KnownAs EXCEPT ![u] = l]
        /\ KnownCerts' = [KnownCerts EXCEPT ![u] = Range(q.certs)]
        /\ KnownKeys' = [KnownKeys EXCEPT ![u] = Range(q.adminCerts)]
    BY <1>0, <1>8, Stored
  <2>2. UNCHANGED KnownKeys
    BY <1>3, <1>4, <1>7, <2>1
  <2>3. KnownCerts' = [KnownCerts EXCEPT ![u] = KnownCerts[u] \cup {c}]
    BY <1>3, <1>7, <2>1
  <2>4. c \notin KnownCerts[u] \cup KnownKeys[u]
    BY <1>5, <1>8
  <2>5. KnownAs' = [KnownAs EXCEPT ![u] = IF KnownAs[u] = "unknown" THEN "user" ELSE KnownAs[u]]
    BY <1>3, <1>8, <2>1
  <2>. QED
    BY <2>1, <2>2, <2>3, <2>4, <2>5 DEF Directory!AddCert, u
<1>9. CASE k = "user" /\ ~HasCert(r, c)
  <2>. DEFINE p == Find(users, u)
              ps == [users EXCEPT ![p] = q]
  <2>1. Stores(WithCert(users, p, c), admins)
    BY <1>2, <1>9 DEF AddCert, u
  <2>2. WithCert(users, p, c) = ps
    BY <1>2, <1>9 DEF WithCert
  <2>. HIDE DEF q
  <2>3. Changed(users, admins, ps, admins, u, "user", q)
    BY <1>0, <1>2, <1>7, <1>9, UserChanged
  <2>. HIDE DEF ps
  <2>. QED
    BY <1>8, <1>9, <2>1, <2>2, <2>3
<1>10. CASE k = "admin" /\ ~HasCert(r, c)
  <2>. DEFINE p == Find(admins, u)
              ads == [admins EXCEPT ![p] = q]
  <2>1. Stores(users, WithCert(admins, p, c))
    BY <1>2, <1>10 DEF AddCert, u
  <2>2. WithCert(admins, p, c) = ads
    BY <1>2, <1>10 DEF WithCert
  <2>. HIDE DEF q
  <2>3. Changed(users, admins, users, ads, u, "admin", q)
    BY <1>0, <1>2, <1>7, <1>10, AdminChanged
  <2>. HIDE DEF ads
  <2>. QED
    BY <1>8, <1>10, <2>1, <2>2, <2>3
<1>11. CASE k = "unknown"
  <2>. DEFINE n == [id |-> u, certs |-> <<c>>, adminCerts |-> <<>>]
              ps == Append(users, n)
  <2>1. Stores(ps, admins)
    BY <1>2, <1>11 DEF AddCert, u
  <2>2. n = q
    <3>1. Append(<<>>, c) = <<c>>
      OBVIOUS
    <3>. QED
      BY <1>2, <1>11, <3>1 DEF NewUser
  <2>3. ~Listed(users, u) /\ ~Listed(admins, u)
    BY <1>1, <1>11 DEF Entry
  <2>4. q.adminCerts = <<>> /\ ~HasCert(r, c)
    BY <1>2, <1>3, <1>5, <1>7, <1>11, EmptyHasNone DEF NewUser
  <2>. HIDE DEF q, n
  <2>5. Changed(users, admins, ps, admins, u, "user", q)
    BY <1>0, <1>7, <2>2, <2>3, <2>4, UserAdded
  <2>. HIDE DEF ps
  <2>. QED
    BY <1>8, <1>11, <2>1, <2>4, <2>5
<1>. QED
  BY <1>2, <1>6, <1>9, <1>10, <1>11

LEMMA AddAdminCertStep ==
  ASSUME EqualIDsNeverDiffer, IInv, NEW c \in Certs, AddAdminCert(c)
  PROVE  IInv' /\ Directory!AddAdminCert(c)
<1>. DEFINE u == Owner[c]
<1>0. status = "up" /\ Sound(users, admins) /\ u \in Users
  BY CertAssumption DEF AddAdminCert, IInv
<1>. HIDE DEF u
<1>1. PICK k, r : Entry(users, admins, u, k, r)
  BY EntryExists
<1>2. /\ r \in Record /\ r.id = u
      /\ HasUser(users, u) <=> k = "user"
      /\ HasUser(admins, u) <=> k = "admin"
      /\ k \in {"user", "admin", "unknown"}
      /\ k = "user"  => /\ Find(users, u) \in DOMAIN users /\ users[Find(users, u)] = r
                        /\ r.adminCerts = <<>>
      /\ k = "admin" => /\ Find(admins, u) \in DOMAIN admins /\ admins[Find(admins, u)] = r
                        /\ r.adminCerts # <<>>
      /\ k = "unknown" => r = NewUser(u)
  BY <1>0, <1>1, LooksUp
<1>3. KnownAs[u] = k /\ KnownCerts[u] = Range(r.certs) /\ KnownKeys[u] = Range(r.adminCerts)
  BY <1>0, <1>1, DirectorySees
<1>4. r.certs \in Seq(Certs) /\ r.adminCerts \in Seq(Certs)
  BY <1>2 DEF Record
<1>5. Has(r.adminCerts, c) <=> c \in KnownKeys[u]
  BY <1>3, <1>4, FoundIs
<1>6. k # "admin" => KnownKeys[u] = {}
  BY <1>2, <1>3, EmptyHasNone DEF NewUser
<1>7. CASE k = "admin" /\ Has(r.adminCerts, c)
  <2>1. Ends("assert")
    BY <1>2, <1>7 DEF AddAdminCert, FindUserAdmin, u
  <2>2. IInv' /\ Directory!Ends
    BY <1>0, <2>1, ThreadEnds
  <2>. QED
    BY <1>5, <1>7, <2>2 DEF Directory!AddAdminCert, u
<1>8. ASSUME NEW ps, NEW ads, Stores(ps, ads), c \notin KnownKeys[u],
             NEW q, Changed(users, admins, ps, ads, u, "admin", q),
             Range(q.adminCerts) = KnownKeys[u] \cup {c},
             Range(q.certs) = IF k = "user" THEN KnownCerts[u] \ {c} ELSE KnownCerts[u]
      PROVE  IInv' /\ Directory!AddAdminCert(c)
  <2>1. /\ IInv' /\ Directory!Serves /\ UNCHANGED Answered
        /\ KnownAs' = [KnownAs EXCEPT ![u] = "admin"]
        /\ KnownCerts' = [KnownCerts EXCEPT ![u] = Range(q.certs)]
        /\ KnownKeys' = [KnownKeys EXCEPT ![u] = Range(q.adminCerts)]
    BY <1>0, <1>8, Stored
  <2>2. KnownKeys' = [KnownKeys EXCEPT ![u] = KnownKeys[u] \cup {c}]
    BY <1>8, <2>1
  <2>3. KnownCerts' = [KnownCerts EXCEPT ![u] = IF KnownAs[u] = "user" THEN KnownCerts[u] \ {c}
                                                ELSE KnownCerts[u]]
    BY <1>3, <1>8, <2>1
  <2>. QED
    BY <1>8, <2>1, <2>2, <2>3 DEF Directory!AddAdminCert, u
<1>9. CASE k = "admin" /\ ~Has(r.adminCerts, c)
  <2>. DEFINE p == Find(admins, u)
              q == [r EXCEPT !.adminCerts = Append(@, c)]
              ads == [admins EXCEPT ![p] = q]
  <2>1. Stores(users, WithAdminCert(admins, p, c))
    BY <1>2, <1>9 DEF AddAdminCert, FindUserAdmin, u
  <2>2. WithAdminCert(admins, p, c) = ads
    BY <1>2, <1>9 DEF WithAdminCert
  <2>3. /\ q \in Record /\ q.id = u /\ q.certs = r.certs
        /\ Range(q.adminCerts) = Range(r.adminCerts) \cup {c}
    BY <1>2, CertAppended
  <2>. HIDE DEF q
  <2>4. q.adminCerts # <<>>
    BY <2>3, EmptyHasNone
  <2>5. Changed(users, admins, users, ads, u, "admin", q)
    BY <1>0, <1>2, <1>9, <2>3, <2>4, AdminChanged
  <2>. HIDE DEF ads
  <2>6. c \notin KnownKeys[u] /\ Range(q.adminCerts) = KnownKeys[u] \cup {c}
        /\ Range(q.certs) = IF k = "user" THEN KnownCerts[u] \ {c} ELSE KnownCerts[u]
    BY <1>3, <1>5, <1>9, <2>3
  <2>. QED
    BY <1>8, <2>1, <2>2, <2>5, <2>6
<1>. DEFINE n == NewUserAdmin(c)
<1>10. /\ n \in Record /\ n.id = u /\ Range(n.certs) = {} /\ Range(n.adminCerts) = {c}
       /\ n.adminCerts # <<>>
  <2>1. n = [id |-> u, certs |-> <<>>, adminCerts |-> <<c>>]
    BY DEF NewUserAdmin, u
  <2>2. <<c>> \in Seq(Certs) /\ <<c>> # <<>>
    OBVIOUS
  <2>3. n \in Record
    BY <1>0, <2>1, <2>2 DEF Record
  <2>. QED
    BY <2>1, <2>2, <2>3, EmptyHasNone
<1>11. CASE k = "user"
  <2>. DEFINE p == Find(users, u)
              q == CombinedAdmins(r, n)
              ads == Append(admins, q)
  <2>1. Stores(Erase(users, p), ads)
    BY <1>2, <1>11 DEF AddAdminCert, FindUserAdmin, u
  <2>. HIDE DEF n
  <2>2. /\ q \in Record /\ q.id = u /\ Range(q.certs) = Range(r.certs) \ {c}
        /\ Range(q.adminCerts) = Range(r.adminCerts) \cup {c}
    <3>1. /\ q \in Record /\ q.id = r.id
          /\ Range(q.certs) = Range(r.certs) \ Range(n.adminCerts)
          /\ Range(q.adminCerts) = Range(r.adminCerts) \cup Range(n.adminCerts)
      BY <1>2, <1>10, CombinedAdminsIs
    <3>. HIDE DEF q
    <3>. QED
      BY <1>2, <1>10, <3>1
  <2>. HIDE DEF q
  <2>3. q.adminCerts # <<>>
    BY <2>2, EmptyHasNone
  <2>4. Changed(users, admins, Erase(users, p), ads, u, "admin", q)
    BY <1>0, <1>2, <1>11, <2>2, <2>3, Promoted
  <2>. HIDE DEF ads
  <2>5. c \notin KnownKeys[u] /\ Range(q.adminCerts) = KnownKeys[u] \cup {c}
        /\ Range(q.certs) = IF k = "user" THEN KnownCerts[u] \ {c} ELSE KnownCerts[u]
    BY <1>3, <1>6, <1>11, <2>2
  <2>. QED
    BY <1>8, <2>1, <2>4, <2>5
<1>12. CASE k = "unknown"
  <2>. DEFINE ads == Append(admins, n)
  <2>1. Stores(users, ads)
    BY <1>2, <1>12 DEF AddAdminCert, FindUserAdmin, u
  <2>2. ~Listed(users, u) /\ ~Listed(admins, u)
    BY <1>1, <1>12 DEF Entry
  <2>3. KnownCerts[u] = {}
    BY <1>2, <1>3, <1>12, EmptyHasNone DEF NewUser
  <2>. HIDE DEF n
  <2>4. Changed(users, admins, users, ads, u, "admin", n)
    BY <1>0, <1>10, <2>2, AdminAdded
  <2>. HIDE DEF ads
  <2>5. c \notin KnownKeys[u] /\ Range(n.adminCerts) = KnownKeys[u] \cup {c}
        /\ Range(n.certs) = IF k = "user" THEN KnownCerts[u] \ {c} ELSE KnownCerts[u]
    BY <1>6, <1>10, <1>12, <2>3
  <2>. QED
    BY <1>8, <2>1, <2>4, <2>5
<1>. QED
  BY <1>2, <1>7, <1>9, <1>11, <1>12

--------------------------------------------------------------------------------
(* Chains of issuers. *)

\* Every chain of issuers ends (ChainAssumption), in the form the lemmas on
\* climbing take.
LEMMA Ranked ==
  /\ Cardinality(Certs) \in Nat
  /\ \A c \in Certs : Issuer[c] \in Certs <=> Issuer[c] # NoCert
  /\ \E rank \in [Certs -> 0..Cardinality(Certs)] :
        \A c \in Certs : Issuer[c] \in Certs => rank[Issuer[c]] < rank[c]
<1>1. Cardinality(Certs) \in Nat
  BY ChainAssumption, FS_CardinalityType
<1>2. \A c \in Certs : Issuer[c] \in Certs <=> Issuer[c] # NoCert
  BY CertAssumption
<1>3. PICK rank \in [Certs -> 0..Cardinality(Certs)] :
            \A c \in Certs : Issuer[c] # NoCert => rank[Issuer[c]] < rank[c]
  BY ChainAssumption
<1>. QED
  BY <1>1, <1>2, <1>3

\* The recursive definition of IssuersOf has a solution ...
LEMMA IssuersOfSteps ==
  IssuersOf = [c \in Certs |-> IF Issuer[c] = NoCert THEN <<>>
                               ELSE <<Issuer[c]>> \o IssuersOf[Issuer[c]]]
<1>. DEFINE F(f) == [c \in Certs |-> IF Issuer[c] = NoCert THEN <<>> ELSE <<Issuer[c]>> \o f[Issuer[c]]]
            T == Seq(Certs)
            g == [a \in Certs \X T |-> IF Issuer[a[1]] \in Certs THEN <<Issuer[a[1]]>> \o a[2] ELSE <<>>]
<1>1. \E f : f = F(f)
  <2>1. <<>> \in T
    OBVIOUS
  <2>2. g \in [Certs \X T -> T]
    <3>1. ASSUME NEW a \in Certs \X T, Issuer[a[1]] \in Certs PROVE <<Issuer[a[1]]>> \o a[2] \in T
      <4>1. a[2] \in Seq(Certs) /\ <<Issuer[a[1]]>> \in Seq(Certs)
        BY <3>1
      <4>. QED
        BY <4>1
    <3>. HIDE DEF T
    <3>. QED
      BY <2>1, <3>1
  <2>3. \A c \in Certs, t \in T : Issuer[c] \in Certs => g[<<c, t>>] = <<Issuer[c]>> \o t
    OBVIOUS
  <2>. HIDE DEF g, T
  <2>4. PICK rank \in [Certs -> 0..Cardinality(Certs)] :
              \A c \in Certs : Issuer[c] \in Certs => rank[Issuer[c]] < rank[c]
    BY Ranked
  <2>5. PICK h \in [Certs -> T] : Climbs(h, Certs, Issuer, <<>>, g)
    BY <2>1, <2>2, <2>4, Ranked, ClimbsExist
  <2>6. \A c \in Certs : h[c] = IF Issuer[c] = NoCert THEN <<>> ELSE <<Issuer[c]>> \o h[Issuer[c]]
    BY <2>3, <2>5, Ranked DEF Climbs
  <2>7. h = F(h)
    BY <2>5, <2>6
  <2>. QED
    BY <2>7
<1>2. IssuersOf = CHOOSE f : f = F(f)
  BY DEF IssuersOf
<1>. QED
  BY <1>1, <1>2

\* ... and so has the directory's.
LEMMA IssuersSteps ==
  Directory!Issuers = [c \in Certs |-> IF Issuer[c] = NoCert THEN {}
                                       ELSE {Issuer[c]} \cup Directory!Issuers[Issuer[c]]]
<1>. DEFINE F(f) == [c \in Certs |-> IF Issuer[c] = NoCert THEN {} ELSE {Issuer[c]} \cup f[Issuer[c]]]
            T == SUBSET Certs
            g == [a \in Certs \X T |-> IF Issuer[a[1]] \in Certs THEN {Issuer[a[1]]} \cup a[2] ELSE {}]
<1>1. \E f : f = F(f)
  <2>1. {} \in T
    OBVIOUS
  <2>2. g \in [Certs \X T -> T]
    OBVIOUS
  <2>3. \A c \in Certs, t \in T : Issuer[c] \in Certs => g[<<c, t>>] = {Issuer[c]} \cup t
    OBVIOUS
  <2>. HIDE DEF g, T
  <2>4. PICK rank \in [Certs -> 0..Cardinality(Certs)] :
              \A c \in Certs : Issuer[c] \in Certs => rank[Issuer[c]] < rank[c]
    BY Ranked
  <2>5. PICK h \in [Certs -> T] : Climbs(h, Certs, Issuer, {}, g)
    BY <2>1, <2>2, <2>4, Ranked, ClimbsExist
  <2>6. \A c \in Certs : h[c] = IF Issuer[c] = NoCert THEN {} ELSE {Issuer[c]} \cup h[Issuer[c]]
    BY <2>3, <2>5, Ranked DEF Climbs
  <2>7. h = F(h)
    BY <2>5, <2>6
  <2>. QED
    BY <2>7
<1>2. Directory!Issuers = CHOOSE f : f = F(f)
  BY DEF Directory!Issuers
<1>. QED
  BY <1>1, <1>2

\* The chain above a certificate is finite, and the directory sees the
\* certificates in it.
LEMMA Chains ==
  /\ IssuersOf \in [Certs -> Seq(Certs)]
  /\ \A c \in Certs : Directory!Issuers[c] = Range(IssuersOf[c])
  /\ \A c \in Certs : IssuersOf[c] = <<>> <=> Issuer[c] = NoCert
<1>. DEFINE G == {c \in Certs : /\ IssuersOf[c] \in Seq(Certs)
                                /\ Directory!Issuers[c] = Range(IssuersOf[c])}
<1>1. \A c \in Certs : /\ Issuer[c] = NoCert => IssuersOf[c] = <<>> /\ Directory!Issuers[c] = {}
                       /\ Issuer[c] # NoCert =>
                             /\ IssuersOf[c] = <<Issuer[c]>> \o IssuersOf[Issuer[c]]
                             /\ Directory!Issuers[c] = {Issuer[c]} \cup Directory!Issuers[Issuer[c]]
  <2>1. \A c \in Certs : IssuersOf[c] = IF Issuer[c] = NoCert THEN <<>>
                                        ELSE <<Issuer[c]>> \o IssuersOf[Issuer[c]]
    BY IssuersOfSteps
  <2>2. \A c \in Certs : Directory!Issuers[c] = IF Issuer[c] = NoCert THEN {}
                                        ELSE {Issuer[c]} \cup Directory!Issuers[Issuer[c]]
    BY IssuersSteps
  <2>. QED
    BY <2>1, <2>2
<1>2. ASSUME NEW c \in Certs, Issuer[c] \in Certs => Issuer[c] \in G
      PROVE  c \in G
  <2>1. CASE Issuer[c] = NoCert
    <3>1. <<>> \in Seq(Certs)
      OBVIOUS
    <3>. QED
      BY <1>1, <2>1, <3>1, EmptyHasNone
  <2>2. CASE Issuer[c] # NoCert
    <3>. DEFINE d == Issuer[c]
                s == IssuersOf[d]
                one == <<d>>
    <3>1. d \in Certs /\ s \in Seq(Certs) /\ Directory!Issuers[d] = Range(s)
      BY <1>2, <2>2, Ranked
    <3>2. one \in Seq(Certs) /\ Range(one) = {d}
      BY <3>1, EmptyHasNone
    <3>3. IssuersOf[c] = one \o s /\ Directory!Issuers[c] = {d} \cup Range(s)
      BY <1>1, <2>2, <3>1
    <3>. HIDE DEF d, s, one
    <3>4. one \o s \in Seq(Certs) /\ ToSet(one \o s) = ToSet(one) \cup ToSet(s)
      BY <3>1, <3>2, ConcatSet
    <3>5. Range(one \o s) = Range(one) \cup Range(s)
      BY <3>4 DEF ToSet, Range
    <3>. QED
      BY <3>2, <3>3, <3>4, <3>5
  <2>. QED
    BY <2>1, <2>2
<1>3. PICK rank \in [Certs -> 0..Cardinality(Certs)] :
            \A c \in Certs : Issuer[c] \in Certs => rank[Issuer[c]] < rank[c]
  BY Ranked
<1>. HIDE DEF G
<1>4. Certs \subseteq G
  BY <1>2, <1>3, Ranked, ClimbsInduct
<1>5. \A c \in Certs : IssuersOf[c] \in Seq(Certs) /\ Directory!Issuers[c] = Range(IssuersOf[c])
  BY <1>4 DEF G
<1>6. IssuersOf \in [Certs -> Seq(Certs)]
  BY <1>5, IssuersOfSteps
<1>7. ASSUME NEW c \in Certs PROVE IssuersOf[c] = <<>> <=> Issuer[c] = NoCert
  <2>1. ASSUME Issuer[c] # NoCert PROVE Issuer[c] \in Range(IssuersOf[c])
    <3>1. Directory!Issuers[c] = {Issuer[c]} \cup Directory!Issuers[Issuer[c]]
      BY <1>1, <2>1
    <3>2. Directory!Issuers[c] = Range(IssuersOf[c])
      BY <1>5
    <3>. QED
      BY <3>1, <3>2
  <2>. QED
    BY <1>1, <2>1, EmptyHasNone
<1>. QED
  BY <1>5, <1>6, <1>7
--------------------------------------------------------------------------------
(* Answers. *)

\* What AddIssuerCertificateChain adds: nothing (string_user_storage.cpp:501).
LEMMA NoIssuersAdded ==
  ASSUME EqualIDsNeverDiffer, NEW r \in Record
  PROVE  IssuersAdded(r) = {}
<1>1. Range(r.certs) \subseteq Certs /\ Range(r.adminCerts) \subseteq Certs
  BY FoundIs DEF Record
<1>2. \A d : HasIssuer(d) => ~HasCert(r, Issuer[d])
  BY <1>1, HasCertIs, CertAssumption DEF HasIssuer, Same
<1>. QED
  BY <1>2 DEF IssuersAdded

\* An answer is an answer of the directory.
LEMMA Given ==
  ASSUME IInv, status = "up", NEW a \in Answer, Sends(a)
  PROVE  IInv' /\ Directory!Answers(AsSets(a))
<1>1. UNCHANGED <<users, admins, status>> /\ answer' = a
  BY DEF Sends
<1>2. Sound(users', admins') /\ UNCHANGED <<KnownAs, KnownCerts, KnownKeys>>
  BY <1>1, Unmoved DEF IInv
<1>5. IInv'
  BY <1>1, <1>2 DEF IInv
<1>3. Answered' = AsSets(a)
  <2>1. a # NoAnswer
    BY AnswerAssumption
  <2>. QED
    BY <1>1, <2>1 DEF Answered, AsSets
<1>4. (status = "up")' = TRUE
  BY <1>1
<1>. QED
  BY <1>2, <1>3, <1>4, <1>5 DEF Directory!Answers, Directory!Serves, Directory!Entry

\* The directory keeps no order of certificates.
LEMMA AsSetsIs ==
  ASSUME NEW r, r = [reason |-> r.reason, granted |-> r.granted, id |-> r.id, certs |-> r.certs,
                     adminCerts |-> r.adminCerts, issuers |-> r.issuers]
  PROVE  AsSets(r) = [reason |-> r.reason, granted |-> r.granted, id |-> r.id,
                      certs |-> Range(r.certs), adminCerts |-> Range(r.adminCerts),
                      issuers |-> r.issuers]
<1>1. PICK reason, granted, u, s, t, issuers, S, K :
            /\ reason = r.reason /\ granted = r.granted /\ u = r.id /\ s = r.certs
            /\ t = r.adminCerts /\ issuers = r.issuers /\ S = Range(s) /\ K = Range(t)
  OBVIOUS
<1>. DEFINE a == [reason |-> reason, granted |-> granted, id |-> u, certs |-> s,
                  adminCerts |-> t, issuers |-> issuers]
            b == [reason |-> reason, granted |-> granted, id |-> u, certs |-> S,
                  adminCerts |-> t, issuers |-> issuers]
<1>2. r = a
  BY <1>1
<1>3. AsSets(r) = [a EXCEPT !.certs = S, !.adminCerts = K]
  <2>. HIDE DEF a
  <2>. QED
    BY <1>1, <1>2 DEF AsSets
<1>4. [a EXCEPT !.certs = S] = b
  BY ONLY TRUE
<1>5. [b EXCEPT !.adminCerts = K]
        = [reason |-> reason, granted |-> granted, id |-> u, certs |-> S,
           adminCerts |-> K, issuers |-> issuers]
  BY ONLY TRUE
<1>6. [a EXCEPT !.certs = S, !.adminCerts = K] = [[a EXCEPT !.certs = S] EXCEPT !.adminCerts = K]
  BY ONLY TRUE
<1>. QED
  BY <1>1, <1>3, <1>4, <1>5, <1>6

LEMMA AnswerIs ==
  ASSUME NEW reason \in Reasons, NEW granted \in BOOLEAN, NEW u \in Users,
         NEW s \in Seq(Certs), NEW t \in Seq(Certs)
  PROVE  LET a == [reason |-> reason, granted |-> granted, id |-> u, certs |-> s,
                   adminCerts |-> t, issuers |-> {}] IN
         /\ a \in Answer
         /\ AsSets(a) = [reason |-> reason, granted |-> granted, id |-> u, certs |-> Range(s),
                         adminCerts |-> Range(t), issuers |-> {}]
<1>. DEFINE a == [reason |-> reason, granted |-> granted, id |-> u, certs |-> s,
                  adminCerts |-> t, issuers |-> {}]
<1>1. a \in Answer
  BY DEF Answer
<1>2. AsSets(a) = [reason |-> reason, granted |-> granted, id |-> u, certs |-> Range(s),
                   adminCerts |-> Range(t), issuers |-> {}]
  <2>1. /\ a.reason = reason /\ a.granted = granted /\ a.id = u /\ a.certs = s
        /\ a.adminCerts = t /\ a.issuers = {}
        /\ a = [reason |-> a.reason, granted |-> a.granted, id |-> a.id, certs |-> a.certs,
                adminCerts |-> a.adminCerts, issuers |-> a.issuers]
    OBVIOUS
  <2>. HIDE DEF a
  <2>2. AsSets(a) = [reason |-> a.reason, granted |-> a.granted, id |-> a.id,
                     certs |-> Range(a.certs), adminCerts |-> Range(a.adminCerts),
                     issuers |-> a.issuers]
    BY <2>1, AsSetsIs
  <2>. QED
    BY <2>1, <2>2
<1>. QED
  BY <1>1, <1>2

\* The thread shows the record r, or nothing.
LEMMA RecordShown ==
  ASSUME EqualIDsNeverDiffer, IInv, status = "up", NEW reason \in Reasons, NEW r \in Record,
         Shows(reason, r)
  PROVE  /\ IInv'
         /\ Directory!Answers([reason |-> reason, granted |-> TRUE, id |-> r.id,
                               certs |-> Range(r.certs), adminCerts |-> Range(r.adminCerts),
                               issuers |-> {}])
<1>1. r.id \in Users /\ r.certs \in Seq(Certs) /\ r.adminCerts \in Seq(Certs)
  BY DEF Record
<1>. DEFINE a == [reason |-> reason, granted |-> TRUE, id |-> r.id, certs |-> r.certs,
                  adminCerts |-> r.adminCerts, issuers |-> {}]
<1>2. Sends(a)
  BY NoIssuersAdded DEF Shows
<1>3. /\ a \in Answer
      /\ AsSets(a) = [reason |-> reason, granted |-> TRUE, id |-> r.id, certs |-> Range(r.certs),
                      adminCerts |-> Range(r.adminCerts), issuers |-> {}]
  BY <1>1, AnswerIs
<1>. HIDE DEF a
<1>4. IInv' /\ Directory!Answers(AsSets(a))
  BY <1>2, <1>3, Given
<1>. QED
  BY <1>3, <1>4

LEMMA Refused ==
  ASSUME IInv, status = "up", NEW reason \in Reasons, NEW u \in Users, Refuses(reason, u)
  PROVE  /\ IInv'
         /\ Directory!Answers([reason |-> reason, granted |-> FALSE, id |-> u,
                               certs |-> {}, adminCerts |-> {}, issuers |-> {}])
<1>. DEFINE a == [reason |-> reason, granted |-> FALSE, id |-> u, certs |-> <<>>,
                  adminCerts |-> <<>>, issuers |-> {}]
<1>1. Sends(a)
  BY DEF Refuses
<1>2. /\ a \in Answer
      /\ AsSets(a) = [reason |-> reason, granted |-> FALSE, id |-> u, certs |-> {},
                      adminCerts |-> {}, issuers |-> {}]
  <2>1. <<>> \in Seq(Certs)
    OBVIOUS
  <2>2. Range(<<>>) = {}
    BY EmptyHasNone
  <2>3. /\ a \in Answer
        /\ AsSets(a) = [reason |-> reason, granted |-> FALSE, id |-> u, certs |-> Range(<<>>),
                        adminCerts |-> Range(<<>>), issuers |-> {}]
    BY <2>1, AnswerIs
  <2>. QED
    BY <2>2, <2>3
<1>. HIDE DEF a
<1>3. IInv' /\ Directory!Answers(AsSets(a))
  BY <1>1, <1>2, Given
<1>. QED
  BY <1>2, <1>3

\* Each record is the entry of its user.
LEMMA IsEntry ==
  /\ \A i \in DOMAIN users : Entry(users, admins, users[i].id, "user", users[i])
  /\ \A i \in DOMAIN admins : Entry(users, admins, admins[i].id, "admin", admins[i])
BY DEF Entry

\* GetUserStringAdminBegin finds an administrator if there is one.
LEMMA FirstAdmin ==
  ASSUME EqualIDsNeverDiffer, IInv
  PROVE  /\ admins = <<>> => \A u \in Users : KnownAs[u] # "admin"
         /\ admins # <<>> => LET r == admins[1] IN
               /\ r \in Record /\ r.id \in Users /\ r.adminCerts # <<>>
               /\ Entry(users, admins, r.id, "admin", r)
               /\ KnownAs[r.id] = "admin" /\ KnownCerts[r.id] = Range(r.certs)
               /\ KnownKeys[r.id] = Range(r.adminCerts)
<1>1. admins \in Seq(Record) /\ Keyed(admins)
  BY DEF IInv, Sound
<1>2. ASSUME admins = <<>>, NEW u \in Users PROVE KnownAs[u] # "admin"
  BY <1>2 DEF KnownAs, HasUser
<1>3. ASSUME admins # <<>>
      PROVE  LET r == admins[1] IN
             /\ r \in Record /\ r.id \in Users /\ r.adminCerts # <<>>
             /\ Entry(users, admins, r.id, "admin", r)
             /\ KnownAs[r.id] = "admin" /\ KnownCerts[r.id] = Range(r.certs)
             /\ KnownKeys[r.id] = Range(r.adminCerts)
  <2>. DEFINE r == admins[1]
  <2>1. 1 \in DOMAIN admins
    BY <1>1, <1>3
  <2>2. r \in Record
    BY <1>1, <2>1, IsRecordOf
  <2>3. r.id \in Users
    BY <2>2 DEF Record
  <2>4. r.adminCerts # <<>>
    BY <1>1, <2>1 DEF Keyed
  <2>5. Entry(users, admins, r.id, "admin", r)
    BY <2>1, IsEntry
  <2>. HIDE DEF r
  <2>6. KnownAs[r.id] = "admin" /\ KnownCerts[r.id] = Range(r.certs)
        /\ KnownKeys[r.id] = Range(r.adminCerts)
    BY <2>3, <2>5, DirectorySees
  <2>. QED
    BY <2>2, <2>3, <2>4, <2>5, <2>6 DEF r
<1>. QED
  BY <1>2, <1>3

LEMMA AuthenticateStep ==
  ASSUME EqualIDsNeverDiffer, IInv, Authenticate
  PROVE  IInv' /\ Directory!Authenticate
<1>1. status = "up"
  BY DEF Authenticate
<1>2. CASE admins = <<>>
  <2>1. Ends("assert")
    BY <1>2 DEF Authenticate
  <2>2. IInv' /\ Directory!Ends
    BY <1>1, <2>1, ThreadEnds
  <2>. QED
    BY <1>2, <2>2, FirstAdmin DEF Directory!Authenticate
<1>3. CASE admins # <<>>
  <2>. DEFINE r == admins[1]
  <2>1. Shows("authentication", r)
    BY <1>3 DEF Authenticate
  <2>2. /\ r \in Record /\ r.id \in Users
        /\ KnownAs[r.id] = "admin" /\ KnownCerts[r.id] = Range(r.certs)
        /\ KnownKeys[r.id] = Range(r.adminCerts)
    BY <1>3, FirstAdmin
  <2>. HIDE DEF r
  <2>3. "authentication" \in Reasons
    BY DEF Reasons
  <2>4. /\ IInv'
        /\ Directory!Answers([reason |-> "authentication", granted |-> TRUE, id |-> r.id,
                              certs |-> Range(r.certs), adminCerts |-> Range(r.adminCerts),
                              issuers |-> {}])
    BY <1>1, <2>1, <2>2, <2>3, RecordShown
  <2>. QED
    BY <2>2, <2>4 DEF Directory!Authenticate
<1>. QED
  BY <1>2, <1>3

LEMMA VerifyStep ==
  ASSUME EqualIDsNeverDiffer, IInv, NEW u \in Users, Verify(u)
  PROVE  IInv' /\ Directory!Verify(u)
<1>0. status = "up" /\ Sound(users, admins)
  BY DEF Verify, IInv
<1>1. PICK k, r : Entry(users, admins, u, k, r)
  BY EntryExists
<1>2. /\ r \in Record /\ r.id = u
      /\ HasUser(users, u) <=> k = "user"
      /\ HasUser(admins, u) <=> k = "admin"
      /\ k \in {"user", "admin", "unknown"}
      /\ k = "unknown" => r = NewUser(u)
  BY <1>0, <1>1, LooksUp
<1>3. RecordOf(u) = r /\ KnownAs[u] = k /\ KnownCerts[u] = Range(r.certs)
  BY <1>1, DirectorySees
<1>4. "verification" \in Reasons
  BY DEF Reasons
<1>5. CASE k # "unknown"
  <2>. DEFINE q == [r EXCEPT !.adminCerts = <<>>]
  <2>1. Everywhere(u) = r
    BY <1>2, <1>3, <1>5 DEF RecordOf
  <2>2. Shows("verification", q)
    BY <1>2, <1>5, <2>1 DEF Verify
  <2>3. q \in Record /\ q.id = u /\ q.certs = r.certs /\ q.adminCerts = <<>>
    <3>1. <<>> \in Seq(Certs)
      OBVIOUS
    <3>. QED
      BY <1>2, <3>1 DEF Record
  <2>. HIDE DEF q
  <2>4. /\ IInv'
        /\ Directory!Answers([reason |-> "verification", granted |-> TRUE, id |-> q.id,
                              certs |-> Range(q.certs), adminCerts |-> Range(q.adminCerts),
                              issuers |-> {}])
    BY <1>0, <1>4, <2>2, <2>3, RecordShown
  <2>5. Range(q.adminCerts) = {} /\ Range(q.certs) = KnownCerts[u] /\ (KnownAs[u] # "unknown") = TRUE
    BY <1>3, <1>5, <2>3, EmptyHasNone
  <2>. QED
    BY <2>3, <2>4, <2>5 DEF Directory!Verify
<1>6. CASE k = "unknown"
  <2>1. Refuses("verification", u)
    BY <1>2, <1>6 DEF Verify
  <2>2. /\ IInv'
        /\ Directory!Answers([reason |-> "verification", granted |-> FALSE, id |-> u,
                              certs |-> {}, adminCerts |-> {}, issuers |-> {}])
    BY <1>0, <1>4, <2>1, Refused
  <2>3. KnownCerts[u] = {} /\ (KnownAs[u] # "unknown") = FALSE
    BY <1>2, <1>3, <1>6, EmptyHasNone DEF NewUser
  <2>. QED
    BY <2>2, <2>3 DEF Directory!Verify
<1>. QED
  BY <1>5, <1>6

\* FindUserCertEverywhere finds what the directory knows.
LEMMA HeldIsKnown ==
  ASSUME EqualIDsNeverDiffer, IInv, NEW c
  PROVE  Holds(users, c) \/ Holds(admins, c) <=> c \in Directory!Known
<1>0. Sound(users, admins) /\ users \in Seq(Record) /\ admins \in Seq(Record)
  BY DEF IInv, Sound
<1>1. ASSUME NEW k, NEW r \in Record, Entry(users, admins, r.id, k, r), HasCert(r, c)
      PROVE  c \in Directory!Known
  <2>1. r.id \in Users
    BY DEF Record
  <2>2. c \in KnownCerts[r.id] \cup KnownKeys[r.id]
    BY <1>1, <2>1, DirectorySees, HasCertIs
  <2>. QED
    BY <2>1, <2>2 DEF Directory!Known
<1>2. ASSUME Holds(users, c) PROVE c \in Directory!Known
  <2>1. PICK i \in DOMAIN users : HasCert(users[i], c)
    BY <1>2 DEF Holds
  <2>2. users[i] \in Record /\ Entry(users, admins, users[i].id, "user", users[i])
    BY <1>0, IsRecordOf, IsEntry
  <2>. QED
    BY <1>1, <2>1, <2>2
<1>3. ASSUME Holds(admins, c) PROVE c \in Directory!Known
  <2>1. PICK i \in DOMAIN admins : HasCert(admins[i], c)
    BY <1>3 DEF Holds
  <2>2. admins[i] \in Record /\ Entry(users, admins, admins[i].id, "admin", admins[i])
    BY <1>0, IsRecordOf, IsEntry
  <2>. QED
    BY <1>1, <2>1, <2>2
<1>4. ASSUME c \in Directory!Known PROVE Holds(users, c) \/ Holds(admins, c)
  <2>1. PICK u \in Users : c \in KnownCerts[u] \cup KnownKeys[u]
    BY <1>4 DEF Directory!Known
  <2>2. PICK k, r : Entry(users, admins, u, k, r)
    BY EntryExists
  <2>3. /\ r \in Record /\ k \in {"user", "admin", "unknown"}
        /\ k = "user"  => Find(users, u) \in DOMAIN users /\ users[Find(users, u)] = r
        /\ k = "admin" => Find(admins, u) \in DOMAIN admins /\ admins[Find(admins, u)] = r
        /\ k = "unknown" => r = NewUser(u)
    BY <1>0, <2>2, LooksUp
  <2>4. KnownCerts[u] = Range(r.certs) /\ KnownKeys[u] = Range(r.adminCerts)
    BY <2>2, DirectorySees
  <2>5. HasCert(r, c)
    BY <2>1, <2>3, <2>4, HasCertIs
  <2>6. k # "unknown"
    BY <2>1, <2>3, <2>4, EmptyHasNone DEF NewUser
  <2>. QED
    BY <2>3, <2>5, <2>6 DEF Holds
<1>. QED
  BY <1>2, <1>3, <1>4

\* A chain is found for the keys of an administrator for which the directory
\* knows every issuer (string_user_storage.cpp:233-300).
LEMMA ChainFoundIs ==
  ASSUME EqualIDsNeverDiffer, IInv, NEW u \in Users, NEW c \in Certs
  PROVE  ChainFound(u, c) <=> /\ KnownAs[u] = "admin" /\ c \in KnownKeys[u]
                              /\ Directory!Issuers[c] \subseteq Directory!Known
<1>0. Sound(users, admins)
  BY DEF IInv
<1>1. PICK k, r : Entry(users, admins, u, k, r)
  BY EntryExists
<1>2. /\ r \in Record
      /\ HasUser(admins, u) <=> k = "admin"
      /\ k = "admin" => admins[Find(admins, u)] = r
  BY <1>0, <1>1, LooksUp
<1>3. KnownAs[u] = k /\ KnownKeys[u] = Range(r.adminCerts)
  BY <1>1, DirectorySees
<1>4. Has(r.adminCerts, c) <=> c \in KnownKeys[u]
  <2>1. r.adminCerts \in Seq(Certs)
    BY <1>2 DEF Record
  <2>. QED
    BY <1>3, <2>1, FoundIs
<1>5. (\A i \in DOMAIN IssuersOf[c] : Holds(users, IssuersOf[c][i]) \/ Holds(admins, IssuersOf[c][i]))
        <=> Directory!Issuers[c] \subseteq Directory!Known
  <2>. DEFINE s == IssuersOf[c]
  <2>1. Directory!Issuers[c] = Range(s)
    BY Chains
  <2>2. \A d : Holds(users, d) \/ Holds(admins, d) <=> d \in Directory!Known
    BY HeldIsKnown
  <2>3. \A d : d \in Range(s) <=> \E i \in DOMAIN s : s[i] = d
    BY DEF Range
  <2>. HIDE DEF s
  <2>4. (\A i \in DOMAIN s : Holds(users, s[i]) \/ Holds(admins, s[i])) <=> Range(s) \subseteq Directory!Known
    BY <2>2, <2>3
  <2>. QED
    BY <2>1, <2>4 DEF s
<1>6. ChainFound(u, c) <=> /\ k = "admin" /\ Has(r.adminCerts, c)
                           /\ \A i \in DOMAIN IssuersOf[c] :
                                 Holds(users, IssuersOf[c][i]) \/ Holds(admins, IssuersOf[c][i])
  BY <1>2 DEF ChainFound, FindUserAdmin
<1>. QED
  BY <1>3, <1>4, <1>5, <1>6

LEMMA AuthenticateTLSStep ==
  ASSUME EqualIDsNeverDiffer, IInv, AuthenticateTLS
  PROVE  IInv' /\ Directory!AuthenticateTLS
<1>1. status = "up"
  BY DEF AuthenticateTLS
<1>2. CASE admins = <<>>
  <2>1. Ends("assert")
    BY <1>2 DEF AuthenticateTLS
  <2>2. IInv' /\ Directory!Ends
    BY <1>1, <2>1, ThreadEnds
  <2>. QED
    BY <1>2, <2>2, FirstAdmin DEF Directory!AuthenticateTLS
<1>3. CASE admins # <<>>
  <2>. DEFINE r == admins[1]
              own == r.adminCerts
              proofs == [k \in DOMAIN own |-> IssuersOf[own[k]]]
              u == r.id
  <2>1. /\ r \in Record /\ u \in Users /\ own # <<>> /\ KnownAs[u] = "admin" /\ KnownKeys[u] = Range(own)
    BY <1>3, FirstAdmin
  <2>2. own \in Seq(Certs) /\ Range(own) \subseteq Certs
    BY <2>1, FoundIs DEF Record
  <2>3. (\E k \in DOMAIN own : ~ChainFound(u, own[k])) <=> ~Directory!Provable(u)
    <3>. HIDE DEF own, u
    <3>1. \A c \in Range(own) : ChainFound(u, c) <=> Directory!Issuers[c] \subseteq Directory!Known
      BY <2>1, <2>2, ChainFoundIs
    <3>2. \A c : c \in Range(own) <=> \E k \in DOMAIN own : own[k] = c
      BY DEF Range
    <3>3. Directory!Provable(u) <=> \A c \in Range(own) : Directory!Issuers[c] \subseteq Directory!Known
      BY <2>1 DEF Directory!Provable
    <3>. QED
      BY <3>1, <3>2, <3>3
  <2>4. CASE ~Directory!Provable(u)
    <3>1. Ends("throw")
      BY <1>3, <2>1, <2>3, <2>4 DEF AuthenticateTLS
    <3>2. IInv' /\ Directory!Ends
      BY <1>1, <3>1, ThreadEnds
    <3>. HIDE DEF u
    <3>. QED
      BY <2>1, <2>4, <3>2 DEF Directory!AuthenticateTLS
  <2>5. CASE Directory!Provable(u)
    <3>. DEFINE flat == FlattenSeq(proofs)
    <3>1. Sends([reason |-> "tls_authentication", granted |-> TRUE, id |-> u,
                 certs |-> flat, adminCerts |-> own, issuers |-> {}])
      BY <1>3, <2>1, <2>3, <2>5 DEF AuthenticateTLS
    <3>2. flat \in Seq(Certs) /\ Range(flat) = UNION {Directory!Issuers[c] : c \in KnownKeys[u]}
      <4>. HIDE DEF own, u
      <4>1. DOMAIN own = 1..Len(own) /\ Len(own) \in Nat /\ \A k \in DOMAIN own : own[k] \in Certs
        BY <2>2
      <4>2. proofs \in Seq(Seq(Certs)) /\ Len(proofs) = Len(own)
            /\ \A k \in 1..Len(own) : proofs[k] = IssuersOf[own[k]]
        <5>1. \A k \in 1..Len(own) : IssuersOf[own[k]] \in Seq(Certs)
          BY <4>1, Chains
        <5>2. proofs = [k \in 1..Len(own) |-> IssuersOf[own[k]]]
          BY <4>1
        <5>. DEFINE T == Seq(Certs)
        <5>. HIDE DEF proofs, T
        <5>3. proofs \in [1..Len(own) -> T]
          BY <5>1, <5>2 DEF T
        <5>4. proofs \in Seq(T) /\ Len(proofs) = Len(own)
          BY <4>1, <5>3
        <5>. QED
          BY <5>2, <5>4 DEF T
      <4>. HIDE DEF proofs
      <4>3. flat \in Seq(Certs) /\ ToSet(flat) = UNION {ToSet(proofs[k]) : k \in 1..Len(proofs)}
        BY <4>2, FlattenedSet
      <4>4. \A k \in 1..Len(own) : ToSet(proofs[k]) = Directory!Issuers[own[k]]
        <5>1. \A k \in 1..Len(own) : Directory!Issuers[own[k]] = Range(proofs[k])
          BY <4>1, <4>2, Chains
        <5>. QED
          BY <5>1 DEF ToSet, Range
      <4>. HIDE DEF flat
      <4>5. ToSet(flat) = UNION {Directory!Issuers[own[k]] : k \in 1..Len(own)}
        BY <4>2, <4>3, <4>4
      <4>6. Range(flat) = ToSet(flat)
        BY DEF ToSet, Range
      <4>7. Range(own) = {own[k] : k \in 1..Len(own)}
        BY <4>1 DEF Range
      <4>. QED
        BY <2>1, <4>3, <4>5, <4>6, <4>7
    <3>. HIDE DEF flat
    <3>. DEFINE a == [reason |-> "tls_authentication", granted |-> TRUE, id |-> u,
                      certs |-> flat, adminCerts |-> own, issuers |-> {}]
    <3>. HIDE DEF own, u
    <3>3. /\ a \in Answer
          /\ AsSets(a) = [reason |-> "tls_authentication", granted |-> TRUE, id |-> u,
                          certs |-> Range(flat), adminCerts |-> Range(own), issuers |-> {}]
      <4>1. "tls_authentication" \in Reasons
        BY DEF Reasons
      <4>. QED
        BY <2>1, <2>2, <3>2, <4>1, AnswerIs
    <3>. HIDE DEF a
    <3>4. Sends(a)
      BY <3>1 DEF a
    <3>5. IInv' /\ Directory!Answers(AsSets(a))
      BY <1>1, <3>3, <3>4, Given
    <3>. QED
      BY <2>1, <2>5, <3>2, <3>3, <3>5 DEF Directory!AuthenticateTLS
  <2>. QED
    BY <2>4, <2>5
<1>. QED
  BY <1>2, <1>3

LEMMA VerifyTLSStep ==
  ASSUME EqualIDsNeverDiffer, IInv, NEW u \in Users, NEW c \in Certs, VerifyTLS(u, c)
  PROVE  IInv' /\ Directory!VerifyTLS(u, c)
<1>0. status = "up" /\ Sound(users, admins)
  BY DEF VerifyTLS, IInv
<1>1. TrustAdded(IssuersOf[c]) <=> Issuer[c] = NoCert
  <2>1. IssuersOf[c] \in Seq(Certs)
    BY Chains
  <2>2. Len(IssuersOf[c]) = 0 <=> IssuersOf[c] = <<>>
    BY <2>1
  <2>. QED
    BY <2>2, Chains DEF TrustAdded
<1>2. Issuer[c] = NoCert => Directory!Issuers[c] = {}
  BY Chains, EmptyHasNone
<1>3. c \in KnownKeys[u] => KnownAs[u] = "admin"
  <2>1. PICK k, r : Entry(users, admins, u, k, r)
    BY EntryExists
  <2>2. /\ k \in {"user", "admin", "unknown"}
        /\ k = "user" => r.adminCerts = <<>>
        /\ k = "unknown" => r = NewUser(u)
    BY <1>0, <2>1, LooksUp
  <2>3. KnownAs[u] = k /\ KnownKeys[u] = Range(r.adminCerts)
    BY <2>1, DirectorySees
  <2>. QED
    BY <2>2, <2>3, EmptyHasNone DEF NewUser
<1>4. ChainFound(u, c) /\ TrustAdded(IssuersOf[c]) <=> c \in KnownKeys[u] /\ Issuer[c] = NoCert
  BY <1>1, <1>2, <1>3, ChainFoundIs
<1>5. CASE ChainFound(u, c) /\ TrustAdded(IssuersOf[c])
  <2>1. Refuses("tls_verification", u)
    BY <1>5 DEF VerifyTLS
  <2>2. "tls_verification" \in Reasons
    BY DEF Reasons
  <2>3. /\ IInv'
        /\ Directory!Answers([reason |-> "tls_verification", granted |-> FALSE, id |-> u,
                              certs |-> {}, adminCerts |-> {}, issuers |-> {}])
    BY <1>0, <2>1, <2>2, Refused
  <2>. QED
    BY <1>4, <1>5, <2>3 DEF Directory!VerifyTLS
<1>6. CASE ~(ChainFound(u, c) /\ TrustAdded(IssuersOf[c]))
  <2>1. Ends("throw")
    BY <1>6 DEF VerifyTLS
  <2>2. IInv' /\ Directory!Ends
    BY <1>0, <2>1, ThreadEnds
  <2>. QED
    BY <1>4, <1>6, <2>2 DEF Directory!VerifyTLS
<1>. QED
  BY <1>5, <1>6

\* A comparison that does not come back: there is a user to be compared with.
LEMMA HangsStep ==
  ASSUME EqualIDsNeverDiffer, IInv, Hangs
  PROVE  IInv' /\ Directory!Hangs
<1>1. status = "up" /\ ComparisonHangs /\ Ends("stuck") /\ (users # <<>> \/ admins # <<>>)
  BY DEF Hangs
<1>2. IInv' /\ Directory!Ends
  BY <1>1, ThreadEnds
<1>3. users \in Seq(Record) /\ admins \in Seq(Record)
  BY DEF IInv, Sound
<1>4. \E u \in Users : KnownAs[u] # "unknown"
  <2>1. CASE users # <<>>
    <3>1. 1 \in DOMAIN users
      BY <1>3, <2>1
    <3>2. users[1] \in Record /\ Entry(users, admins, users[1].id, "user", users[1])
      BY <1>3, <3>1, IsRecordOf, IsEntry
    <3>3. users[1].id \in Users
      BY <3>2 DEF Record
    <3>4. KnownAs[users[1].id] = "user"
      BY <3>2, <3>3, DirectorySees
    <3>. QED
      BY <3>3, <3>4
  <2>2. CASE admins # <<>>
    <3>1. admins[1].id \in Users /\ KnownAs[admins[1].id] = "admin"
      BY <2>2, FirstAdmin
    <3>. QED
      BY <3>1
  <2>. QED
    BY <1>1, <2>1, <2>2
<1>. QED
  BY <1>1, <1>2, <1>4 DEF Directory!Hangs
--------------------------------------------------------------------------------
(* The storage. *)

LEMMA Initially ==
  ASSUME EqualIDsNeverDiffer, Init
  PROVE  IInv /\ Directory!Init
<1>1. users = <<>> /\ admins = <<>> /\ status = "up" /\ answer = NoAnswer
  BY DEF Init
<1>2. Sound(users, admins)
  <2>1. <<>> \in Seq(Record) /\ DOMAIN <<>> = {}
    OBVIOUS
  <2>. QED
    BY <1>1, <2>1 DEF Sound, Distinct, Listed, Keyed, Keyless
<1>3. IInv
  BY <1>1, <1>2 DEF IInv
<1>4. ASSUME NEW u \in Users
      PROVE  KnownAs[u] = "unknown" /\ KnownCerts[u] = {} /\ KnownKeys[u] = {}
  <2>1. Entry(users, admins, u, "unknown", NewUser(u))
    BY <1>1 DEF Entry, Listed
  <2>2. NewUser(u).certs = <<>> /\ NewUser(u).adminCerts = <<>>
    BY DEF NewUser
  <2>. QED
    BY <1>3, <2>1, <2>2, DirectorySees, EmptyHasNone
<1>5. KnownAs = [u \in Users |-> "unknown"] /\ KnownCerts = [u \in Users |-> {}]
      /\ KnownKeys = [u \in Users |-> {}]
  BY <1>4 DEF KnownAs, KnownCerts, KnownKeys
<1>6. Answered = NoAnswer /\ (status = "up") = TRUE
  BY <1>1 DEF Answered
<1>. QED
  BY <1>3, <1>5, <1>6 DEF Directory!Init

LEMMA Step ==
  ASSUME EqualIDsNeverDiffer, IInv, [Next]_vars
  PROVE  IInv' /\ [Directory!Next]_(Directory!vars)
<1>1. CASE UNCHANGED vars
  <2>1. UNCHANGED <<users, admins, status, answer>>
    BY <1>1 DEF vars
  <2>2. Sound(users', admins') /\ UNCHANGED <<KnownAs, KnownCerts, KnownKeys>>
    BY <2>1, Unmoved DEF IInv
  <2>3. IInv'
    BY <2>1, <2>2 DEF IInv
  <2>4. UNCHANGED Answered /\ UNCHANGED (status = "up")
    BY <2>1 DEF Answered
  <2>. QED
    BY <2>2, <2>3, <2>4 DEF Directory!vars
<1>2. ASSUME NEW u \in Users, Register(u) PROVE IInv' /\ Directory!Next
  BY <1>2, RegisterStep DEF Directory!Next
<1>3. ASSUME NEW u \in Users, Verify(u) PROVE IInv' /\ Directory!Next
  BY <1>3, VerifyStep DEF Directory!Next
<1>4. ASSUME NEW c \in Certs, AddCert(c) PROVE IInv' /\ Directory!Next
  BY <1>4, AddCertStep DEF Directory!Next
<1>5. ASSUME NEW c \in Certs, AddAdminCert(c) PROVE IInv' /\ Directory!Next
  BY <1>5, AddAdminCertStep DEF Directory!Next
<1>6. ASSUME Hangs PROVE IInv' /\ Directory!Next
  BY <1>6, HangsStep DEF Directory!Next
<1>7. ASSUME Authenticate PROVE IInv' /\ Directory!Next
  BY <1>7, AuthenticateStep DEF Directory!Next
<1>8. ASSUME AuthenticateTLS PROVE IInv' /\ Directory!Next
  BY <1>8, AuthenticateTLSStep DEF Directory!Next
<1>9. ASSUME NEW u \in Users, NEW c \in Certs, VerifyTLS(u, c) PROVE IInv' /\ Directory!Next
  BY <1>9, VerifyTLSStep DEF Directory!Next
<1>. QED
  BY <1>1, <1>2, <1>3, <1>4, <1>5, <1>6, <1>7, <1>8, <1>9 DEF Next

\* Where equal IDs are told apart nobody is found: registrations and new
\* certificates make new records, and the requests for a known user fail.
LEMMA NothingFound ==
  ASSUME ~EqualIDsNeverDiffer
  PROVE  /\ \A s, x : ~Has(s, x)
         /\ \A v, u : ~HasUser(v, u)
         /\ \A u, c : ~ChainFound(u, c)
         /\ \A r : IssuersAdded(r) = {}
<1>1. \A a, b : ~Same(a, b)
  BY DEF Same
<1>2. (\A s, x : ~Has(s, x)) /\ (\A v, u : ~HasUser(v, u))
  BY <1>1 DEF Has, HasUser
<1>3. \A u, c : ~ChainFound(u, c)
  BY <1>2 DEF ChainFound
<1>4. \A r : IssuersAdded(r) = {}
  BY <1>1 DEF IssuersAdded, HasIssuer
<1>. QED
  BY <1>2, <1>3, <1>4

\* push_back of a record, with or without a key.
LEMMA RecordAppended ==
  ASSUME NEW v \in Seq(Record), NEW r \in Record
  PROVE  /\ Append(v, r) \in Seq(Record)
         /\ Keyless(v) /\ r.adminCerts = <<>> => Keyless(Append(v, r))
         /\ Keyed(v) /\ r.adminCerts # <<>> => Keyed(Append(v, r))
<1>. DEFINE w == Append(v, r)
<1>1. /\ w \in Seq(Record)
      /\ \A i \in DOMAIN w : w[i] = r \/ (i \in DOMAIN v /\ w[i] = v[i])
  OBVIOUS
<1>. HIDE DEF w
<1>2. Keyless(v) /\ r.adminCerts = <<>> => Keyless(w)
  BY <1>1 DEF Keyless
<1>3. Keyed(v) /\ r.adminCerts # <<>> => Keyed(w)
  BY <1>1 DEF Keyed
<1>. QED
  BY <1>1, <1>2, <1>3 DEF w

LEMMA BlindStep ==
  ASSUME ~EqualIDsNeverDiffer, StorageInv, [Next]_vars
  PROVE  StorageInv'
<1>0. /\ users \in Seq(Record) /\ admins \in Seq(Record) /\ Keyed(admins) /\ Keyless(users)
      /\ status \in {"up", "assert", "throw", "stuck"} /\ answer \in Answer \cup {NoAnswer}
  BY DEF StorageInv
<1>1. ASSUME NEW why \in {"assert", "throw", "stuck"}, Ends(why) PROVE StorageInv'
  BY <1>0, <1>1 DEF Ends, StorageInv
<1>2. ASSUME NEW a \in Answer, Sends(a) PROVE StorageInv'
  BY <1>0, <1>2 DEF Sends, StorageInv
<1>3. ASSUME NEW r \in Record, r.adminCerts = <<>>, Stores(Append(users, r), admins)
      PROVE  StorageInv'
  <2>1. Append(users, r) \in Seq(Record) /\ Keyless(Append(users, r))
    BY <1>0, <1>3, RecordAppended
  <2>. QED
    BY <1>0, <1>3, <2>1 DEF Stores, StorageInv
<1>4. ASSUME NEW r \in Record, r.adminCerts # <<>>, Stores(users, Append(admins, r))
      PROVE  StorageInv'
  <2>1. Append(admins, r) \in Seq(Record) /\ Keyed(Append(admins, r))
    BY <1>0, <1>4, RecordAppended
  <2>. QED
    BY <1>0, <1>4, <2>1 DEF Stores, StorageInv
<1>5. ASSUME UNCHANGED vars PROVE StorageInv'
  BY <1>0, <1>5 DEF vars, StorageInv
<1>6. ASSUME NEW reason \in Reasons, NEW granted \in BOOLEAN, NEW u \in Users,
             NEW s \in Seq(Certs), NEW t \in Seq(Certs)
      PROVE  [reason |-> reason, granted |-> granted, id |-> u, certs |-> s,
              adminCerts |-> t, issuers |-> {}] \in Answer
  BY AnswerIs
<1>7. ASSUME NEW reason \in Reasons, NEW r \in Record, Shows(reason, r) PROVE StorageInv'
  <2>1. r.id \in Users /\ r.certs \in Seq(Certs) /\ r.adminCerts \in Seq(Certs)
    BY DEF Record
  <2>2. [reason |-> reason, granted |-> TRUE, id |-> r.id, certs |-> r.certs,
         adminCerts |-> r.adminCerts, issuers |-> {}] \in Answer
    BY <1>6, <2>1
  <2>3. Sends([reason |-> reason, granted |-> TRUE, id |-> r.id, certs |-> r.certs,
               adminCerts |-> r.adminCerts, issuers |-> {}])
    BY <1>7, NothingFound DEF Shows
  <2>. QED
    BY <1>2, <2>2, <2>3
<1>8. ASSUME NEW u \in Users, Register(u) PROVE StorageInv'
  <2>1. Stores(Append(users, NewUser(u)), admins)
    BY <1>8, NothingFound DEF Register
  <2>2. NewUser(u) \in Record /\ NewUser(u).adminCerts = <<>>
    BY DEF NewUser, Record
  <2>. QED
    BY <1>3, <2>1, <2>2
<1>9. ASSUME NEW c \in Certs PROVE <<c>> \in Seq(Certs) /\ <<>> \in Seq(Certs) /\ <<c>> # <<>>
  OBVIOUS
<1>10. ASSUME NEW c \in Certs, AddCert(c) PROVE StorageInv'
  <2>. DEFINE r == [id |-> Owner[c], certs |-> <<c>>, adminCerts |-> <<>>]
  <2>1. Stores(Append(users, r), admins)
    BY <1>10, NothingFound DEF AddCert
  <2>2. r \in Record /\ r.adminCerts = <<>>
    BY <1>9, CertAssumption DEF Record
  <2>. HIDE DEF r
  <2>. QED
    BY <1>3, <2>1, <2>2
<1>11. ASSUME NEW c \in Certs, AddAdminCert(c) PROVE StorageInv'
  <2>1. Stores(users, Append(admins, NewUserAdmin(c)))
    BY <1>11, NothingFound DEF AddAdminCert
  <2>2. NewUserAdmin(c) \in Record /\ NewUserAdmin(c).adminCerts # <<>>
    BY <1>9, CertAssumption DEF NewUserAdmin, Record
  <2>. QED
    BY <1>4, <2>1, <2>2
<1>12. ASSUME Authenticate PROVE StorageInv'
  <2>1. CASE admins = <<>>
    BY <1>1, <1>12, <2>1 DEF Authenticate
  <2>2. CASE admins # <<>>
    <3>1. 1 \in DOMAIN admins
      BY <1>0, <2>2
    <3>2. admins[1] \in Record
      BY <1>0, <3>1, IsRecordOf
    <3>3. Shows("authentication", admins[1]) /\ "authentication" \in Reasons
      BY <1>12, <2>2 DEF Authenticate, Reasons
    <3>. QED
      BY <1>7, <3>2, <3>3
  <2>. QED
    BY <2>1, <2>2
<1>13. ASSUME NEW u \in Users, Verify(u) PROVE StorageInv'
  <2>. DEFINE a == [reason |-> "verification", granted |-> FALSE, id |-> u, certs |-> <<>>,
                    adminCerts |-> <<>>, issuers |-> {}]
  <2>1. Sends(a)
    BY <1>13, NothingFound DEF Verify, Refuses
  <2>2. a \in Answer
    <3>1. "verification" \in Reasons /\ <<>> \in Seq(Certs)
      BY DEF Reasons
    <3>. QED
      BY <1>6, <3>1
  <2>. HIDE DEF a
  <2>. QED
    BY <1>2, <2>1, <2>2
<1>14. ASSUME AuthenticateTLS PROVE StorageInv'
  <2>1. CASE admins = <<>>
    BY <1>1, <1>14, <2>1 DEF AuthenticateTLS
  <2>2. CASE admins # <<>>
    <3>1. 1 \in DOMAIN admins
      BY <1>0, <2>2
    <3>2. admins[1].adminCerts # <<>> /\ admins[1].adminCerts \in Seq(Certs)
      BY <1>0, <3>1, IsRecordOf DEF Keyed, Record
    <3>3. 1 \in DOMAIN admins[1].adminCerts
      BY <3>2
    <3>4. Ends("throw")
      BY <1>14, <2>2, <3>2, <3>3, NothingFound DEF AuthenticateTLS
    <3>. QED
      BY <1>1, <3>4
  <2>. QED
    BY <2>1, <2>2
<1>15. ASSUME NEW u \in Users, NEW c \in Certs, VerifyTLS(u, c) PROVE StorageInv'
  BY <1>1, <1>15, NothingFound DEF VerifyTLS
<1>16. ASSUME Hangs PROVE StorageInv'
  BY <1>1, <1>16 DEF Hangs
<1>. QED
  BY <1>5, <1>8, <1>10, <1>11, <1>12, <1>13, <1>14, <1>15, <1>16 DEF Next

\* The inductive invariant holds, whatever the comparison of IDs does: types,
\* keys with administrators alone, and, where equal IDs are not told apart, one
\* record per user.
THEOREM StorageInvariant == Spec => []StorageInv
<1>1. Init => StorageInv
  <2>1. ASSUME Init PROVE StorageInv
    <3>1. users = <<>> /\ admins = <<>> /\ status = "up" /\ answer = NoAnswer
      BY <2>1 DEF Init
    <3>2. <<>> \in Seq(Record) /\ DOMAIN <<>> = {}
      OBVIOUS
    <3>. QED
      BY <3>1, <3>2 DEF StorageInv, Sound, Distinct, Listed, Keyed, Keyless
  <2>. QED
    BY <2>1
<1>2. StorageInv /\ [Next]_vars => StorageInv'
  <2>1. ASSUME EqualIDsNeverDiffer, StorageInv, [Next]_vars PROVE StorageInv'
    <3>1. IInv
      BY <2>1 DEF StorageInv, IInv
    <3>2. IInv'
      BY <2>1, <3>1, Step
    <3>. QED
      BY <3>2 DEF StorageInv, IInv, Sound
  <2>. QED
    BY <2>1, BlindStep
<1>. QED
  BY <1>1, <1>2, PTL DEF Spec

\* Certificates, keys and answers are what they are taken for: no vector holds
\* anything else, whatever the comparison of IDs does.
THEOREM Types == Spec => []TypeOK
<1>1. StorageInv => TypeOK
  BY DEF StorageInv, TypeOK, StorageOK
<1>. QED
  BY <1>1, StorageInvariant, PTL

\* An administrator has a key, and nobody else has one (string_thread.cpp:160),
\* whatever the comparison of IDs does.
THEOREM Keys == Spec => []AdminsHaveKeys
<1>1. StorageInv => AdminsHaveKeys
  BY DEF StorageInv, AdminsHaveKeys, Keyed, Keyless
<1>. QED
  BY <1>1, StorageInvariant, PTL

\* A user has one record (string_user_storage.cpp:173-231), as long as equal IDs
\* are not told apart, which the comparison as it is written never does: it may
\* still never come back.
THEOREM OneRecord == ASSUME EqualIDsNeverDiffer PROVE Spec => []OneRecordPerUser
<1>1. StorageInv => OneRecordPerUser
  <2>. SUFFICES ASSUME StorageInv, NEW k \in DOMAIN (users \o admins), NEW l \in DOMAIN (users \o admins),
                       (users \o admins)[k].id = (users \o admins)[l].id
                PROVE  k = l
    BY DEF OneRecordPerUser
  <2>1. /\ users \in Seq(Record) /\ admins \in Seq(Record)
        /\ Distinct(users) /\ Distinct(admins) /\ \A u : ~(Listed(users, u) /\ Listed(admins, u))
    BY DEF StorageInv, Sound
  <2>2. /\ DOMAIN (users \o admins) = 1..(Len(users) + Len(admins))
        /\ Len(users) \in Nat /\ Len(admins) \in Nat
        /\ DOMAIN users = 1..Len(users) /\ DOMAIN admins = 1..Len(admins)
        /\ \A n \in DOMAIN (users \o admins) :
              (users \o admins)[n] = IF n <= Len(users) THEN users[n] ELSE admins[n - Len(users)]
    BY <2>1, ConcatProperties
  <2>3. \A n \in DOMAIN users, m \in DOMAIN admins : users[n].id # admins[m].id
    BY <2>1 DEF Listed
  <2>4. CASE k <= Len(users) /\ l <= Len(users)
    BY <2>1, <2>2, <2>4 DEF Distinct
  <2>5. CASE k > Len(users) /\ l > Len(users)
    <3>1. k - Len(users) \in DOMAIN admins /\ l - Len(users) \in DOMAIN admins
      BY <2>2, <2>5
    <3>2. admins[k - Len(users)].id = admins[l - Len(users)].id
      BY <2>2, <2>5
    <3>3. k - Len(users) = l - Len(users)
      BY <2>1, <3>1, <3>2 DEF Distinct
    <3>. QED
      BY <2>2, <3>3
  <2>6. CASE k <= Len(users) /\ l > Len(users)
    <3>1. k \in DOMAIN users /\ l - Len(users) \in DOMAIN admins
      BY <2>2, <2>6
    <3>. QED
      BY <2>2, <2>3, <2>6, <3>1
  <2>7. CASE k > Len(users) /\ l <= Len(users)
    <3>1. l \in DOMAIN users /\ k - Len(users) \in DOMAIN admins
      BY <2>2, <2>7
    <3>. QED
      BY <2>2, <2>3, <2>7, <3>1
  <2>. QED
    BY <2>2, <2>4, <2>5, <2>6, <2>7
<1>. QED
  BY <1>1, StorageInvariant, PTL

\* The two vectors are a directory: what registrations, additions and upgrades
\* (string_user_storage.cpp:173-231) do to the entry of their user, what every
\* answer says, and when the thread ends, is what UserDirectory says.  As for
\* OneRecord, equal IDs are not told apart, and a comparison may never come back.
THEOREM StorageIsDirectory == ASSUME EqualIDsNeverDiffer PROVE Spec => ImplementsDirectory
<1>1. Init => IInv /\ Directory!Init
  BY Initially
<1>2. IInv /\ [Next]_vars => IInv' /\ [Directory!Next]_(Directory!vars)
  BY Step
<1>. QED
  BY <1>1, <1>2, PTL DEF Spec, ImplementsDirectory, Directory!Spec
--------------------------------------------------------------------------------
(* The console. *)

\* The types of what the proof is about.
ReaderTypes ==
  /\ reader \in {"starting", "reading", "pushing", "checking", "ended"}
  /\ owner \in {"constructing", "running", "waiting", "destroyed"}
  /\ stopThread \in BOOLEAN
  /\ late \in Nat

\* Until the constructor is through nobody can tell a thread that runs to stop;
\* a line read after that is on its way to the end of the loop, with the flag
\* still set.
LateSound ==
  /\ owner = "constructing" /\ reader # "starting" => ~stopThread
  /\ late > 0 => /\ late = 1 /\ stopThread /\ owner # "constructing"
                 /\ reader \in {"pushing", "checking", "ended"}

ConsoleInv == ReaderTypes /\ LateSound
--------------------------------------------------------------------------------
LEMMA ConsoleInitInv == ConsoleInit => ConsoleInv
BY DEF ConsoleInit, ConsoleInv, ReaderTypes, LateSound

LEMMA ConsoleNextInv == ConsoleInv /\ [ConsoleNext]_consoleVars => ConsoleInv'
<1>1. SUFFICES ASSUME ConsoleInv, [ConsoleNext]_consoleVars PROVE ConsoleInv'
  OBVIOUS
<1>2. CASE ReaderNext
  <2>1. CASE Start
    BY <1>1, <2>1 DEF ConsoleInv, ReaderTypes, LateSound, Start
  <2>2. CASE Push
    BY <1>1, <2>2 DEF ConsoleInv, ReaderTypes, LateSound, Push
  <2>3. CASE Check
    BY <1>1, <2>3 DEF ConsoleInv, ReaderTypes, LateSound, Check
  <2>4. CASE \E l \in Lines \cup {EmptyLine} : Read(l)
    BY <1>1, <2>4 DEF ConsoleInv, ReaderTypes, LateSound, Read
  <2>5. QED
    BY <1>2, <2>1, <2>2, <2>3, <2>4 DEF ReaderNext
<1>3. CASE OwnerNext
  BY <1>1, <1>3 DEF ConsoleInv, ReaderTypes, LateSound, OwnerNext, OwnerStep, Construct, StopThread,
     Destroy, Destroyed
<1>4. CASE QueueNext
  BY <1>1, <1>4 DEF ConsoleInv, ReaderTypes, LateSound, QueueNext, Forward, HandleIO, HandleRead,
     readerVars
<1>5. CASE EndOfInput \/ \E s \in Askers, u \in Applicants : Ask(s, u)
  BY <1>1, <1>5 DEF ConsoleInv, ReaderTypes, LateSound, EndOfInput, Ask, readerVars
<1>6. CASE UNCHANGED consoleVars
  BY <1>1, <1>6 DEF ConsoleInv, ReaderTypes, LateSound, consoleVars, readerVars
<1>7. QED
  BY <1>1, <1>2, <1>3, <1>4, <1>5, <1>6 DEF ConsoleNext

\* A stop is not taken back once the thread runs and the constructor has
\* returned, and of all the lines the user may type one more is read.
THEOREM OneMoreLine == ConsoleSpec => []AtMostOneMoreLine
<1>1. ConsoleInit => ConsoleInv
  BY ConsoleInitInv
<1>2. ConsoleInv /\ [ConsoleNext]_consoleVars => ConsoleInv'
  BY ConsoleNextInv
<1>3. ConsoleInv => AtMostOneMoreLine
  BY DEF ConsoleInv, ReaderTypes, LateSound, AtMostOneMoreLine
<1>4. QED
  BY <1>1, <1>2, <1>3, PTL DEF ConsoleSpec
--------------------------------------------------------------------------------
(* What the parser writes. *)

\* What a line makes it write, and that only an echo writes an echo.
LEMMA ShownTypes ==
  ASSUME requests \in Seq([user : Applicants, modules : Seq(Askers)]), NEW l \in Line
  PROVE  /\ Shown(l) \in Seq(Displays)
         /\ l.command # "echo" => \A i \in DOMAIN Shown(l) : Shown(l)[i].kind # "echo"
<1>1. CASE l.command = "echo"
  <2>1. [kind |-> "echo", what |-> l.argument] \in Displays
    BY DEF Displays, Words, Line
  <2>. QED
    BY <1>1, <2>1 DEF Shown
<1>2. CASE l.command = "listrequests"
  <2>. DEFINE list == [i \in DOMAIN requests |-> [kind |-> "request", what |-> requests[i].user]]
  <2>1. \A i \in 1..Len(requests) : list[i] \in Displays /\ list[i].kind = "request"
    <3>. DEFINE R == [user : Applicants, modules : Seq(Askers)]
    <3>3. requests \in Seq(R) /\ \A r \in R : r.user \in Applicants
      OBVIOUS
    <3>. HIDE DEF R
    <3>1. DOMAIN requests = 1..Len(requests) /\ \A i \in 1..Len(requests) : requests[i].user \in Applicants
      BY <3>3
    <3>2. \A u \in Applicants : [kind |-> "request", what |-> u] \in Displays
      BY DEF Displays, Words
    <3>. QED
      BY <3>1, <3>2
  <2>4. Len(requests) \in Nat /\ list = [i \in 1..Len(requests) |-> list[i]]
    OBVIOUS
  <2>2. list \in Seq(Displays) /\ DOMAIN list = 1..Len(requests)
    BY <2>1, <2>4, IsASeq
  <2>. HIDE DEF list
  <2>3. Shown(l) = list
    BY <1>2 DEF Shown, list
  <2>. QED
    BY <2>1, <2>2, <2>3
<1>3. CASE l.command = "grantrequests" /\ l.argument = "text"
  <2>1. [kind |-> "error", what |-> "Invalid argument"] \in Displays
    BY DEF Displays, Words
  <2>. DEFINE error == [kind |-> "error", what |-> "Invalid argument"]
  <2>2. error.kind = "error"
    OBVIOUS
  <2>3. Shown(l) = <<error>>
    BY <1>3 DEF Shown
  <2>. HIDE DEF error
  <2>. QED
    <3>1. <<error>> \in Seq(Displays) /\ \A i \in DOMAIN <<error>> : <<error>>[i] = error
      <4>1. error \in Displays
        BY <2>1 DEF error
      <4>. QED
        BY <4>1
    <3>. QED
      BY <2>2, <2>3, <3>1
<1>4. CASE ~(l.command = "echo") /\ ~(l.command = "listrequests") /\ ~(l.command = "grantrequests" /\ l.argument = "text")
  <2>1. Shown(l) = <<>>
    BY <1>4 DEF Shown
  <2>. QED
    BY <2>1
<1>. QED
  BY <1>1, <1>2, <1>3, <1>4
--------------------------------------------------------------------------------
(* The lines on their way to the parser. *)

Requests == {m \in Messages : m.receiver # CLIReadID}
LinesOf(queue) == Without(queue, Requests)

\* what was typed and the parser has not had yet, the oldest first
Pushed   == IF reader = "pushing" THEN <<LineMessage(inHand)>> ELSE <<>>
UnderWay == (LinesOf(cli) \o LinesOf(global)) \o Pushed

\* After n lines that the parser has had come those that are under way.
Follows(n) ==
  /\ n \in Nat /\ Len(read) = n + Len(UnderWay)
  /\ \A i \in 1..Len(UnderWay) : UnderWay[i].data = read[n + i]

\* The echoes shown are those of the first n lines.
Echoed(shown, asked) ==
  Len(shown) = Len(asked) /\ \A i \in 1..Len(shown) : shown[i].what = asked[i].argument
ShownFor(n) == Echoed(EchoesShown, Without(SubSeq(read, 1, n), OtherLines))

FlowInv == \E n \in 0..Len(read) : Follows(n) /\ ShownFor(n)

\* Every step keeps the types.
LEMMA NextTypes == ConsoleTypeOK /\ [ConsoleNext]_consoleVars => ConsoleTypeOK'
<1>. SUFFICES ASSUME ConsoleTypeOK, [ConsoleNext]_consoleVars PROVE ConsoleTypeOK'
  OBVIOUS
<1>. USE DEF ConsoleTypeOK
<1>1. \A l \in Line : LineMessage(l) \in Messages
  BY DEF LineMessage, Messages
<1>2. \A s \in Askers, u \in Applicants : RequestMessage(s, u) \in Messages
  BY DEF RequestMessage, Messages
<1>3. EmptyLine \in Line /\ Lines \subseteq Line
  BY LinesAssumption DEF EmptyLine, Line
<1>4. CASE ReaderNext
  <2>1. CASE Start
    BY <2>1 DEF Start, ReaderOnly, queues, parserVars
  <2>2. CASE Push
    BY <1>1, <2>2 DEF Push, Sent, parserVars
  <2>3. CASE Check
    BY <2>3 DEF Check, ReaderOnly, queues, parserVars
  <2>4. ASSUME NEW l \in Line, Read(l) PROVE ConsoleTypeOK'
    BY <2>4 DEF Read, ReaderOnly, queues, parserVars
  <2>. QED
    BY <1>3, <1>4, <2>1, <2>2, <2>3, <2>4 DEF ReaderNext
<1>5. CASE OwnerNext
  BY <1>5 DEF OwnerNext, OwnerStep, Construct, StopThread, Destroy, Destroyed, ReaderOnly, queues,
     parserVars
<1>6. CASE Forward
  <2>1. Head(global) \in Messages /\ Tail(global) \in Seq(Messages)
    BY <1>6 DEF Forward
  <2>. QED
    BY <1>6, <2>1 DEF Forward, readerVars, parserVars
<1>7. CASE HandleIO
  <2>1. Head(io) \in Messages /\ Tail(io) \in Seq(Messages)
    BY <1>7 DEF HandleIO
  <2>2. requests' \in Seq([user : Applicants, modules : Seq(Askers)])
    <3>1. CheckMessageDataType(Head(io), RegistrationID) => Head(io).data \in Applicants /\ Head(io).sender \in Askers
      BY <2>1 DEF CheckMessageDataType, Messages, CLIReadID, RegistrationID
    <3>2. ASSUME NEW m, m.data \in Applicants, m.sender \in Askers
          PROVE  Recorded(m) \in Seq([user : Applicants, modules : Seq(Askers)])
      <4>. DEFINE R == [user : Applicants, modules : Seq(Askers)]
                  more(i) == IF requests[i].user = m.data /\ ~Contains(requests[i].modules, m.sender)
                             THEN [requests[i] EXCEPT !.modules = Append(@, m.sender)]
                             ELSE requests[i]
                  list == [i \in DOMAIN requests |-> more(i)]
      <4>1. requests \in Seq(R) /\ DOMAIN requests = 1..Len(requests) /\ Len(requests) \in Nat
        OBVIOUS
      <4>2. ASSUME NEW r \in R PROVE [r EXCEPT !.modules = Append(@, m.sender)] \in R
        <5>1. r.user \in Applicants /\ r.modules \in Seq(Askers)
          OBVIOUS
        <5>2. Append(r.modules, m.sender) \in Seq(Askers)
          BY <3>2, <5>1
        <5>. QED
          BY <5>1, <5>2
      <4>3. ASSUME NEW i \in 1..Len(requests) PROVE more(i) \in R
        <5>. HIDE DEF R
        <5>1. requests[i] \in R
          BY <4>1
        <5>. QED
          BY <4>2, <5>1
      <4>. HIDE DEF more
      <4>4. list \in Seq(R)
        BY <4>1, <4>3, IsASeq
      <4>5. Append(requests, [user |-> m.data, modules |-> <<m.sender>>]) \in Seq(R)
        BY <3>2, <4>1
      <4>6. Recorded(m) \in {list, Append(requests, [user |-> m.data, modules |-> <<m.sender>>])}
        BY DEF Recorded, more
      <4>. QED
        BY <4>4, <4>5, <4>6
    <3>. QED
      BY <1>7, <3>1, <3>2 DEF HandleIO
  <2>. QED
    BY <1>7, <2>1, <2>2 DEF HandleIO, readerVars
<1>8. CASE HandleRead
  <2>1. Head(cli) \in Messages /\ Tail(cli) \in Seq(Messages)
    BY <1>8 DEF HandleRead
  <2>2. Head(cli).receiver = CLIReadID => Head(cli).data \in Line
    BY <2>1 DEF Messages, CLIReadID, RegistrationID
  <2>3. ASSUME NEW l \in Line PROVE Shown(l) \in Seq(Displays)
    BY ShownTypes
  <2>4. output' \in Seq(Displays) /\ parser' \in {"up", "threw", "crashed"}
    <3>1. CASE Head(cli).receiver = CLIReadID
      <4>1. ParseInput(Head(cli).data) /\ parser = "up"
        BY <1>8, <3>1 DEF HandleRead
      <4>2. output \in Seq(Displays) /\ Shown(Head(cli).data) \in Seq(Displays)
        BY <2>2, <2>3, <3>1
      <4>3. output \o Shown(Head(cli).data) \in Seq(Displays)
        BY <4>2, ConcatProperties
      <4>. QED
        BY <4>1, <4>2, <4>3 DEF ParseInput
    <3>2. CASE Head(cli).receiver # CLIReadID
      BY <1>8, <3>2 DEF HandleRead, MisreadRequest
    <3>. QED
      BY <3>1, <3>2
  <2>. QED
    BY <1>8, <2>1, <2>4 DEF HandleRead, readerVars
<1>9. CASE EndOfInput
  BY <1>9 DEF EndOfInput, ReaderOnly, queues, parserVars
<1>10. ASSUME NEW s \in Askers, NEW u \in Applicants, Ask(s, u) PROVE ConsoleTypeOK'
  BY <1>2, <1>10, BoundsAssumption DEF Ask, readerVars, parserVars
<1>11. CASE UNCHANGED consoleVars
  BY <1>11 DEF consoleVars, readerVars, queues, parserVars
<1>. QED
  BY <1>4, <1>5, <1>6, <1>7, <1>8, <1>9, <1>10, <1>11 DEF ConsoleNext, QueueNext

\* The lines under way are messages; requests are none of them.
LEMMA LineTypes ==
  ASSUME ConsoleTypeOK
  PROVE  /\ LinesOf(cli) \in Seq(Messages) /\ LinesOf(global) \in Seq(Messages)
         /\ Pushed \in Seq(Messages) /\ UnderWay \in Seq(Messages)
<1>1. LineMessage(inHand) \in Messages
  BY DEF ConsoleTypeOK, LineMessage, Messages
<1>2. Pushed \in Seq(Messages)
  BY <1>1 DEF Pushed
<1>3. LinesOf(cli) \in Seq(Messages) /\ LinesOf(global) \in Seq(Messages)
  BY WithoutProperties DEF LinesOf, ConsoleTypeOK
<1>. QED
  BY <1>2, <1>3, ConcatProperties DEF UnderWay

LEMMA LineOrRequest ==
  ASSUME NEW m \in Messages
  PROVE  /\ m \in Requests <=> m.receiver # CLIReadID
         /\ m \notin Requests => m.data \in Line
         /\ ToCLI(m)
BY DEF Messages, Requests, ToCLI, CLIReadID, RegistrationID

\* What one more message makes of the lines of a queue, and of one that is gone.
LEMMA LinesAppend ==
  ASSUME NEW q \in Seq(Messages), NEW m \in Messages
  PROVE  LinesOf(Append(q, m)) = IF m \in Requests THEN LinesOf(q) ELSE Append(LinesOf(q), m)
BY WithoutAppend DEF LinesOf

LEMMA LinesHead ==
  ASSUME NEW q \in Seq(Messages), q # <<>>
  PROVE  LinesOf(q) = IF Head(q) \in Requests THEN LinesOf(Tail(q))
                      ELSE <<Head(q)>> \o LinesOf(Tail(q))
BY WithoutHead DEF LinesOf

\* Steps that neither read a line nor show one, and keep the lines in order.
LEMMA FlowStays ==
  ASSUME FlowInv, UNCHANGED <<read, output>>, UnderWay' = UnderWay
  PROVE  FlowInv'
<1>1. PICK n \in 0..Len(read) : Follows(n) /\ ShownFor(n)
  BY DEF FlowInv
<1>2. Follows(n)'
  BY <1>1 DEF Follows
<1>3. ShownFor(n)'
  BY <1>1 DEF ShownFor, EchoesShown
<1>. QED
  BY <1>1, <1>2, <1>3 DEF FlowInv

\* A line is read: it is the last.
LEMMA ReadFlow ==
  ASSUME ConsoleTypeOK, FlowInv, NEW l \in Line, Read(l)
  PROVE  FlowInv'
<1>1. PICK n \in 0..Len(read) : Follows(n) /\ ShownFor(n)
  BY DEF FlowInv
<1>2. /\ read \in Seq(Line) /\ read' = Append(read, l) /\ UNCHANGED <<cli, global, output>>
      /\ reader = "reading" /\ reader' = "pushing" /\ inHand' = l
  BY DEF Read, ConsoleTypeOK, ReaderOnly, queues, parserVars
<1>. DEFINE m == LineMessage(l)
<1>3. m \in Messages /\ m.data = l
  BY DEF LineMessage, Messages
<1>4. UnderWay \in Seq(Messages) /\ UnderWay' = Append(UnderWay, m)
  <2>. DEFINE x == LinesOf(cli) \o LinesOf(global)
  <2>1. x \in Seq(Messages) /\ UnderWay = x \o <<>> /\ UnderWay' = x \o <<m>>
    BY <1>2, LineTypes, ConcatProperties DEF UnderWay, Pushed, LinesOf
  <2>. HIDE DEF x, m
  <2>. QED
    BY <1>3, <2>1, ConcatEmptySeq, AppendIsConcat
<1>. HIDE DEF m
<1>5. /\ Len(read') = Len(read) + 1 /\ read'[Len(read) + 1] = l /\ Len(read) \in Nat
      /\ \A i \in 1..Len(read) : read'[i] = read[i]
  BY <1>2
<1>6. /\ Len(UnderWay') = Len(UnderWay) + 1 /\ UnderWay'[Len(UnderWay) + 1] = m
      /\ Len(UnderWay) \in Nat
      /\ \A i \in 1..Len(UnderWay) : UnderWay'[i] = UnderWay[i]
  BY <1>3, <1>4
<1>7. Follows(n)'
  <2>1. n \in Nat /\ Len(read) = n + Len(UnderWay)
    BY <1>1 DEF Follows
  <2>2. ASSUME NEW i \in 1..Len(UnderWay') PROVE UnderWay'[i].data = read'[n + i]
    <3>1. CASE i = Len(UnderWay) + 1
      BY <1>3, <1>5, <1>6, <2>1, <3>1
    <3>2. CASE i \in 1..Len(UnderWay)
      <4>1. n + i \in 1..Len(read)
        BY <1>6, <2>1, <3>2
      <4>. QED
        BY <1>1, <1>5, <1>6, <3>2, <4>1 DEF Follows
    <3>. QED
      BY <1>6, <3>1, <3>2
  <2>. QED
    BY <1>5, <1>6, <2>1, <2>2 DEF Follows
<1>8. ShownFor(n)'
  <2>1. SubSeq(read', 1, n) = SubSeq(read, 1, n)
    BY <1>2, <1>5
  <2>. QED
    BY <1>1, <1>2, <2>1 DEF ShownFor, EchoesShown
<1>. QED
  BY <1>1, <1>5, <1>7, <1>8 DEF FlowInv

\* The line read goes onto the global queue.
LEMMA PushFlow ==
  ASSUME ConsoleTypeOK, FlowInv, Push
  PROVE  FlowInv'
<1>. DEFINE m == LineMessage(inHand)
            c == LinesOf(cli)
            g == LinesOf(global)
<1>1. m \in Messages /\ m \notin Requests
  BY DEF LineMessage, Messages, Requests, ConsoleTypeOK
<1>2. /\ global' = Append(global, m) /\ UNCHANGED <<cli, read, output>>
      /\ reader = "pushing" /\ reader' = "checking"
  BY DEF Push, Sent, parserVars
<1>3. LinesOf(global') = Append(g, m)
  BY <1>1, <1>2, LinesAppend DEF ConsoleTypeOK
<1>4. c \in Seq(Messages) /\ g \in Seq(Messages) /\ <<m>> \in Seq(Messages)
  BY <1>1, LineTypes
<1>5. UnderWay' = (c \o Append(g, m)) \o <<>> /\ UnderWay = (c \o g) \o <<m>>
  BY <1>2, <1>3 DEF UnderWay, Pushed, LinesOf
<1>. HIDE DEF c, g, m
<1>6. (c \o Append(g, m)) \o <<>> = (c \o g) \o <<m>>
  <2>1. Append(g, m) \in Seq(Messages) /\ Append(g, m) = g \o <<m>>
    BY <1>1, <1>4, AppendIsConcat
  <2>2. c \o Append(g, m) \in Seq(Messages)
    BY <1>4, <2>1, ConcatProperties
  <2>3. (c \o g) \o <<m>> = c \o (g \o <<m>>)
    BY <1>4, ConcatAssociative
  <2>. QED
    BY <2>1, <2>2, <2>3, ConcatEmptySeq
<1>. QED
  BY <1>2, <1>5, <1>6, FlowStays

\* The global queue hands a message on.
LEMMA ForwardFlow ==
  ASSUME ConsoleTypeOK, FlowInv, Forward
  PROVE  FlowInv'
<1>. DEFINE m == Head(global)
            c == LinesOf(cli)
            t == LinesOf(Tail(global))
<1>1. global \in Seq(Messages) /\ global # <<>> /\ m \in Messages /\ Tail(global) \in Seq(Messages)
  BY DEF Forward, ConsoleTypeOK
<1>2. /\ cli' = Append(cli, m) /\ global' = Tail(global) /\ UNCHANGED <<read, output, reader, inHand>>
  BY <1>1, LineOrRequest DEF Forward, readerVars, parserVars
<1>3. LinesOf(cli') = IF m \in Requests THEN c ELSE Append(c, m)
  BY <1>1, <1>2, LinesAppend DEF ConsoleTypeOK
<1>4. LinesOf(global) = IF m \in Requests THEN t ELSE <<m>> \o t
  BY <1>1, LinesHead
<1>5. c \in Seq(Messages) /\ t \in Seq(Messages) /\ <<m>> \in Seq(Messages)
  <2>1. t \in Seq(Messages)
    BY <1>1, WithoutProperties DEF LinesOf
  <2>. QED
    BY <1>1, <2>1, LineTypes
<1>6. UnderWay' = (LinesOf(cli') \o t) \o Pushed /\ UnderWay = (c \o LinesOf(global)) \o Pushed
  BY <1>2 DEF UnderWay, Pushed, LinesOf
<1>. HIDE DEF c, t, m
<1>7. LinesOf(cli') \o t = c \o LinesOf(global)
  <2>1. Append(c, m) = c \o <<m>>
    BY <1>1, <1>5, AppendIsConcat
  <2>2. (c \o <<m>>) \o t = c \o (<<m>> \o t)
    BY <1>5, ConcatAssociative
  <2>. QED
    BY <1>3, <1>4, <2>1, <2>2
<1>. QED
  BY <1>2, <1>6, <1>7, FlowStays

\* A request is sent, or comes to the parser: no line moves.
LEMMA AskFlow ==
  ASSUME ConsoleTypeOK, FlowInv, NEW s \in Askers, NEW u \in Applicants, Ask(s, u)
  PROVE  FlowInv'
<1>1. RequestMessage(s, u) \in Messages /\ RequestMessage(s, u) \in Requests
  BY DEF RequestMessage, Messages, Requests, RegistrationID, CLIReadID
<1>2. LinesOf(global') = LinesOf(global)
  BY <1>1, LinesAppend DEF Ask, ConsoleTypeOK
<1>3. UNCHANGED <<read, output, reader, inHand, cli>>
  BY DEF Ask, readerVars, parserVars
<1>4. UnderWay' = UnderWay
  BY <1>2, <1>3 DEF UnderWay, Pushed, LinesOf
<1>. QED
  BY <1>3, <1>4, FlowStays

\* What the parser writes for a line, as far as echoes go.
LEMMA EchoOf ==
  ASSUME ConsoleTypeOK, NEW l \in Line
  PROVE  IF l.command = "echo"
         THEN /\ [kind |-> "echo", what |-> l.argument] \in Displays \ OtherDisplays
              /\ Without(Shown(l), OtherDisplays) = <<[kind |-> "echo", what |-> l.argument]>>
         ELSE Without(Shown(l), OtherDisplays) = <<>>
<1>1. Shown(l) \in Seq(Displays) /\ (l.command # "echo" => \A i \in DOMAIN Shown(l) : Shown(l)[i].kind # "echo")
  BY ShownTypes DEF ConsoleTypeOK
<1>2. CASE l.command = "echo"
  <2>. DEFINE e == [kind |-> "echo", what |-> l.argument]
  <2>1. e \in Displays /\ e \notin OtherDisplays
    BY DEF Displays, OtherDisplays, Words, Line
  <2>2. Shown(l) = <<e>>
    BY <1>2 DEF Shown
  <2>. HIDE DEF e
  <2>3. Without(<<e>>, OtherDisplays) = <<e>>
    BY <2>1, WithoutOne
  <2>. QED
    BY <1>2, <2>1, <2>2, <2>3 DEF e
<1>3. CASE l.command # "echo"
  <2>1. ToSet(Shown(l)) \subseteq OtherDisplays
    <3>1. \A i \in DOMAIN Shown(l) : Shown(l)[i] \in Displays
      BY <1>1
    <3>. QED
      BY <1>1, <1>3, <3>1 DEF ToSet, OtherDisplays
  <2>2. Without(Shown(l), OtherDisplays) \in Seq(Displays) /\ ToSet(Without(Shown(l), OtherDisplays)) = {}
    BY <1>1, <2>1, WithoutProperties
  <2>. DEFINE w == Without(Shown(l), OtherDisplays)
  <2>. HIDE DEF w
  <2>3. w \in Seq(Displays) /\ ToSet(w) = {}
    BY <2>2 DEF w
  <2>4. w = <<>>
    <3>1. DOMAIN w = {}
      BY <2>3 DEF ToSet
    <3>. QED
      BY <2>3, <3>1
  <2>. QED
    BY <1>3, <2>4 DEF w
<1>. QED
  BY <1>2, <1>3

\* The parser has a line: it is the next after those it has had.
LEMMA ParseFlow ==
  ASSUME ConsoleTypeOK, FlowInv, HandleRead, Head(cli).receiver = CLIReadID
  PROVE  FlowInv'
<1>1. PICK n \in 0..Len(read) : Follows(n) /\ ShownFor(n)
  BY DEF FlowInv
<1>2. PICK m \in Messages : m = Head(cli)
  BY DEF HandleRead, ConsoleTypeOK
<1>3. PICK l \in Line : l = m.data
  BY <1>2, LineOrRequest
<1>. DEFINE c == LinesOf(Tail(cli))
            g == LinesOf(global)
            p == Pushed
            next == (c \o g) \o p
<1>4. /\ cli \in Seq(Messages) /\ cli # <<>> /\ Tail(cli) \in Seq(Messages) /\ m \notin Requests
      /\ cli' = Tail(cli) /\ UNCHANGED <<global, reader, inHand, read>> /\ ParseInput(l)
      /\ read \in Seq(Line) /\ output \in Seq(Displays)
  BY <1>2, <1>3, LineOrRequest DEF HandleRead, ConsoleTypeOK, readerVars
<1>5. c \in Seq(Messages) /\ g \in Seq(Messages) /\ p \in Seq(Messages) /\ <<m>> \in Seq(Messages)
  <2>1. c \in Seq(Messages)
    BY <1>4, WithoutProperties DEF LinesOf
  <2>. QED
    BY <2>1, LineTypes
<1>6. LinesOf(cli) = <<m>> \o c
  BY <1>2, <1>4, LinesHead
<1>7. UnderWay' = next /\ UnderWay = ((<<m>> \o c) \o g) \o p
  BY <1>4, <1>6 DEF UnderWay, Pushed, LinesOf
<1>. HIDE DEF c, g, p
<1>8. next \in Seq(Messages) /\ ((<<m>> \o c) \o g) \o p = <<m>> \o next
  <2>1. c \o g \in Seq(Messages) /\ next \in Seq(Messages)
    BY <1>5, ConcatProperties
  <2>2. (<<m>> \o c) \o g = <<m>> \o (c \o g)
    BY <1>5, ConcatAssociative
  <2>3. (<<m>> \o (c \o g)) \o p = <<m>> \o next
    BY <1>5, <2>1, ConcatAssociative
  <2>. QED
    BY <2>1, <2>2, <2>3
<1>. HIDE DEF next
<1>9. /\ Len(UnderWay) = Len(next) + 1 /\ UnderWay[1] = m /\ Len(next) \in Nat
      /\ \A i \in 1..Len(next) : UnderWay[i + 1] = next[i]
  BY <1>7, <1>8, PrependProperties
<1>10. n + 1 \in 1..Len(read) /\ read[n + 1] = l /\ Len(read) \in Nat
  <2>1. n \in Nat /\ Len(read) = n + Len(UnderWay) /\ 1 \in 1..Len(UnderWay)
    BY <1>1, <1>9 DEF Follows
  <2>2. UnderWay[1].data = read[n + 1]
    BY <1>1, <2>1 DEF Follows
  <2>. QED
    BY <1>3, <1>9, <2>1, <2>2
<1>11. Follows(n + 1)'
  <2>1. n \in Nat /\ Len(read) = (n + 1) + Len(next)
    BY <1>1, <1>9 DEF Follows
  <2>2. ASSUME NEW i \in 1..Len(next) PROVE next[i].data = read[(n + 1) + i]
    <3>1. i + 1 \in 1..Len(UnderWay) /\ n + (i + 1) = (n + 1) + i
      <4>1. Len(next) \in Nat /\ Len(UnderWay) = Len(next) + 1
        BY <1>9
      <4>. QED
        BY <2>1, <4>1
    <3>2. UnderWay[i + 1].data = read[n + (i + 1)]
      BY <1>1, <3>1 DEF Follows
    <3>. QED
      BY <1>9, <3>1, <3>2
  <2>. QED
    BY <1>4, <1>7, <2>1, <2>2 DEF Follows
<1>. DEFINE asked == Without(SubSeq(read, 1, n), OtherLines)
            askedNext == Without(SubSeq(read, 1, n + 1), OtherLines)
<1>12. asked \in Seq(Line) /\ askedNext = IF l \in OtherLines THEN asked ELSE Append(asked, l)
  <2>1. SubSeq(read, 1, n) \in Seq(Line) /\ SubSeq(read, 1, n + 1) = Append(SubSeq(read, 1, n), read[n + 1])
    BY <1>4, <1>10
  <2>. DEFINE s == SubSeq(read, 1, n)
  <2>2. asked = Without(s, OtherLines) /\ askedNext = Without(Append(s, l), OtherLines) /\ s \in Seq(Line)
    BY <1>10, <2>1
  <2>. HIDE DEF s, asked, askedNext
  <2>3. Without(Append(s, l), OtherLines)
          = IF l \in OtherLines THEN Without(s, OtherLines) ELSE Append(Without(s, OtherLines), l)
    BY <2>2, WithoutAppend
  <2>4. Without(s, OtherLines) \in Seq(Line)
    BY <2>2, WithoutProperties
  <2>. QED
    BY <2>2, <2>3, <2>4
<1>13. EchoesShown \in Seq(Displays)
  BY <1>4, WithoutProperties DEF EchoesShown
<1>14. Echoed(EchoesShown, asked)
  BY <1>1 DEF ShownFor
<1>. HIDE DEF asked, askedNext
<1>15. Echoed(EchoesShown', askedNext)
  <2>1. CASE Throws(l)
    <3>1. output' = output /\ l \in OtherLines
      BY <1>4, <2>1 DEF ParseInput, Throws, OtherLines
    <3>. QED
      BY <1>12, <1>14, <3>1 DEF EchoesShown
  <2>2. CASE ~Throws(l)
    <3>1. output' = output \o Shown(l) /\ Shown(l) \in Seq(Displays)
      BY <1>4, <2>2, ShownTypes DEF ParseInput, ConsoleTypeOK
    <3>2. Without(output \o Shown(l), OtherDisplays) = EchoesShown \o Without(Shown(l), OtherDisplays)
      BY <1>4, <3>1, WithoutConcat DEF EchoesShown
    <3>3. EchoesShown' = EchoesShown \o Without(Shown(l), OtherDisplays)
      BY <3>1, <3>2 DEF EchoesShown
    <3>4. CASE l.command = "echo"
      <4>. DEFINE e == [kind |-> "echo", what |-> l.argument]
      <4>1. e \in Displays /\ e.what = l.argument /\ Without(Shown(l), OtherDisplays) = <<e>>
        BY <3>4, EchoOf
      <4>2. l \notin OtherLines
        BY <3>4 DEF OtherLines
      <4>. HIDE DEF e
      <4>3. EchoesShown' = Append(EchoesShown, e) /\ askedNext = Append(asked, l)
        BY <1>12, <1>13, <3>3, <4>1, <4>2, AppendIsConcat
      <4>. QED
        BY <1>12, <1>13, <1>14, <4>1, <4>3 DEF Echoed
    <3>5. CASE l.command # "echo"
      <4>1. Without(Shown(l), OtherDisplays) = <<>> /\ l \in OtherLines
        BY <3>5, EchoOf DEF OtherLines
      <4>2. EchoesShown' = EchoesShown
        BY <1>13, <3>3, <4>1, ConcatEmptySeq
      <4>. QED
        BY <1>12, <1>14, <4>1, <4>2
    <3>. QED
      BY <3>4, <3>5
  <2>. QED
    BY <2>1, <2>2
<1>16. ShownFor(n + 1)'
  BY <1>4, <1>15 DEF ShownFor, askedNext
<1>17. n + 1 \in 0..Len(read')
  BY <1>4, <1>10
<1>. QED
  BY <1>11, <1>16, <1>17 DEF FlowInv

LEMMA NextFlow == ConsoleTypeOK /\ FlowInv /\ [ConsoleNext]_consoleVars => FlowInv'
<1>. SUFFICES ASSUME ConsoleTypeOK, FlowInv, [ConsoleNext]_consoleVars PROVE FlowInv'
  OBVIOUS
<1>1. ASSUME UNCHANGED <<cli, global, read, output, inHand>>, reader' = "pushing" <=> reader = "pushing"
      PROVE  FlowInv'
  <2>1. UnderWay' = UnderWay
    BY <1>1 DEF UnderWay, Pushed, LinesOf
  <2>. QED
    BY <1>1, <2>1, FlowStays
<1>2. ASSUME NEW l \in Lines \cup {EmptyLine}, Read(l) PROVE FlowInv'
  <2>1. l \in Line
    BY LinesAssumption DEF EmptyLine, Line
  <2>. QED
    BY <1>2, <2>1, ReadFlow
<1>3. CASE Start \/ Check
  BY <1>1, <1>3 DEF Start, Check, ReaderOnly, queues, parserVars
<1>4. CASE OwnerNext
  BY <1>1, <1>4 DEF OwnerNext, OwnerStep, Construct, StopThread, Destroy, Destroyed, ReaderOnly,
     queues, parserVars
<1>5. CASE HandleIO
  BY <1>1, <1>5 DEF HandleIO, readerVars
<1>6. CASE HandleRead
  <2>1. CASE Head(cli).receiver # CLIReadID
    <3>1. /\ cli \in Seq(Messages) /\ cli # <<>> /\ Head(cli) \in Messages
          /\ cli' = Tail(cli) /\ UNCHANGED <<global, read, output, reader, inHand>>
      BY <1>6, <2>1 DEF HandleRead, MisreadRequest, ConsoleTypeOK, readerVars
    <3>2. LinesOf(cli') = LinesOf(cli)
      BY <2>1, <3>1, LineOrRequest, LinesHead
    <3>3. UnderWay' = UnderWay
      BY <3>1, <3>2 DEF UnderWay, Pushed, LinesOf
    <3>. QED
      BY <3>1, <3>3, FlowStays
  <2>. QED
    BY <1>6, <2>1, ParseFlow
<1>7. CASE EndOfInput \/ UNCHANGED consoleVars
  BY <1>1, <1>7 DEF EndOfInput, ReaderOnly, queues, parserVars, consoleVars, readerVars
<1>. QED
  BY <1>2, <1>3, <1>4, <1>5, <1>6, <1>7, PushFlow, ForwardFlow, AskFlow DEF ConsoleNext,
     ReaderNext, QueueNext

LEMMA InitFlow == ConsoleInit => ConsoleTypeOK /\ FlowInv
<1>. SUFFICES ASSUME ConsoleInit PROVE ConsoleTypeOK /\ FlowInv
  OBVIOUS
<1>1. ConsoleTypeOK
  <2>1. EmptyLine \in Line
    BY DEF EmptyLine, Line
  <2>2. asks \in 0..MaxAsks /\ late \in Nat
    BY BoundsAssumption DEF ConsoleInit
  <2>3. /\ reader = "starting" /\ stopThread \in BOOLEAN /\ owner = "constructing" /\ eof = FALSE
        /\ parser = "up" /\ early = FALSE /\ inHand = EmptyLine
    BY DEF ConsoleInit
  <2>4. /\ global \in Seq(Messages) /\ cli \in Seq(Messages) /\ io \in Seq(Messages)
        /\ output \in Seq(Displays) /\ read \in Seq(Line)
        /\ requests \in Seq([user : Applicants, modules : Seq(Askers)])
    BY DEF ConsoleInit
  <2>. QED
    BY <2>1, <2>2, <2>3, <2>4 DEF ConsoleTypeOK
<1>2. \A T, S : Without(<<>>, S) = <<>>
  <2>. SUFFICES ASSUME NEW T, NEW S PROVE Without(<<>>, S) = <<>>
    OBVIOUS
  <2>1. <<>> \in Seq({}) /\ \A w \in Seq({}) : w = <<>>
    OBVIOUS
  <2>2. Without(<<>>, S) \in Seq({})
    BY <2>1, WithoutProperties
  <2>. QED
    BY <2>1, <2>2
<1>3. UnderWay = <<>>
  BY <1>2 DEF UnderWay, Pushed, LinesOf, ConsoleInit
<1>4. Follows(0) /\ 0 \in 0..Len(read)
  BY <1>3 DEF Follows, ConsoleInit
<1>5. SubSeq(read, 1, 0) = <<>>
  BY DEF ConsoleInit
<1>6. ShownFor(0)
  <2>1. EchoesShown = <<>> /\ Without(SubSeq(read, 1, 0), OtherLines) = <<>>
    BY <1>2, <1>5 DEF EchoesShown, ConsoleInit
  <2>2. Len(<<>>) = 0 /\ 1..0 = {}
    OBVIOUS
  <2>. QED
    BY <2>1, <2>2 DEF ShownFor, Echoed
<1>. QED
  BY <1>1, <1>4, <1>6 DEF FlowInv

\* The echoes shown are the first of those asked for.
LEMMA FlowHolds == ConsoleTypeOK /\ FlowInv => EchoesInOrder
<1>. SUFFICES ASSUME ConsoleTypeOK, FlowInv PROVE EchoesInOrder
  OBVIOUS
<1>1. PICK n \in 0..Len(read) : Follows(n) /\ ShownFor(n)
  BY DEF FlowInv
<1>. DEFINE first == SubSeq(read, 1, n)
            rest == SubSeq(read, n + 1, Len(read))
            asked == Without(first, OtherLines)
            more == Without(rest, OtherLines)
<1>2. first \in Seq(Line) /\ rest \in Seq(Line) /\ read = first \o rest
  <2>1. read \in Seq(Line) /\ Len(read) \in Nat
    BY DEF ConsoleTypeOK
  <2>2. /\ first \in Seq(Line) /\ Len(first) = n /\ \A i \in 1..n : first[i] = read[i]
        /\ rest \in Seq(Line) /\ Len(rest) = Len(read) - n
        /\ \A i \in 1..Len(read) - n : rest[i] = read[n + i]
    BY <2>1
  <2>. HIDE DEF first, rest
  <2>3. /\ first \o rest \in Seq(Line) /\ Len(first \o rest) = Len(read)
        /\ \A i \in 1..Len(read) : (first \o rest)[i] = IF i <= n THEN first[i] ELSE rest[i - n]
    BY <2>1, <2>2, ConcatProperties
  <2>4. ASSUME NEW i \in 1..Len(read) PROVE (first \o rest)[i] = read[i]
    <3>1. CASE i <= n
      BY <2>1, <2>2, <2>3, <3>1
    <3>2. CASE ~(i <= n)
      <4>1. i - n \in 1..Len(read) - n /\ n + (i - n) = i
        BY <2>1, <3>2
      <4>. QED
        BY <2>2, <2>3, <3>2, <4>1
    <3>. QED
      BY <3>1, <3>2
  <2>5. first \o rest = read
    BY <2>1, <2>3, <2>4, SeqEqual
  <2>. QED
    BY <2>2, <2>5
<1>3. EchoesRead = asked \o more /\ asked \in Seq(Line) /\ more \in Seq(Line)
  <2>. HIDE DEF first, rest
  <2>1. Without(first \o rest, OtherLines) = asked \o more
    BY <1>2, WithoutConcat
  <2>2. asked \in Seq(Line) /\ more \in Seq(Line)
    BY <1>2, WithoutProperties
  <2>. QED
    BY <1>2, <2>1, <2>2 DEF EchoesRead
<1>4. Echoed(EchoesShown, asked)
  BY <1>1 DEF ShownFor
<1>5. EchoesShown \in Seq(Displays)
  BY WithoutProperties DEF ConsoleTypeOK, EchoesShown
<1>. HIDE DEF asked, more
<1>. QED
  BY <1>3, <1>4, <1>5, ConcatProperties DEF Echoed, EchoesInOrder

\* Whatever lines are typed and requests sent, and whatever ends the parser: the
\* echoes are those of the lines typed, in their order, each once.
THEOREM EchoesAreInOrder == ConsoleSpec => []EchoesInOrder
<1>1. ConsoleInit => ConsoleTypeOK /\ FlowInv
  BY InitFlow
<1>2. ConsoleTypeOK /\ FlowInv /\ [ConsoleNext]_consoleVars => ConsoleTypeOK' /\ FlowInv'
  BY NextTypes, NextFlow
<1>3. ConsoleTypeOK /\ FlowInv => EchoesInOrder
  BY FlowHolds
<1>. QED
  BY <1>1, <1>2, <1>3, PTL DEF ConsoleSpec
================================================================================
