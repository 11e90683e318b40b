------------------------- MODULE ConfigStorageProofs -------------------------
(***************************************************************************)
(* Proofs about ConfigStorage, for any number of objects, any settings and *)
(* any number of saves and faults.                                         *)
(***************************************************************************)
EXTENDS ConfigStorage, TLAPS

Clean(content) == \A s \in Slots : content[s] \notin Scrap

(* The buffer, or without one the sector, holds what is meant, but for the *)
(* fields a save has put back.                                             *)
Collected == NothingForgotten

(* What an object points at is one of the fields kept as pointers.         *)
Points == \A s \in Slots : active[s] = InFlash => s \in Pointed

(* Torn bytes stay in the sector: until a save collects them they get      *)
(* neither into an object nor into the buffer nor under a checksum.        *)
TornApart == ~exposed => /\ Clean(active)
                         /\ crc # NULL => Clean(crc)
                         /\ wbuf # NULL => Clean(wbuf)

(* What has been settled is in the sector, under a checksum that a start   *)
(* accepts, or is the defaults, beside a mark no start accepts, until the  *)
(* sector is touched.                                                      *)
Settled == /\ settled # NULL => \/ Verified /\ flash = settled
                                \/ ~magic /\ settled = AllOf(Default)
           /\ at \in Committing \ {"erase"} => settled = NULL

(* A commit that is still writing has an object to write.                  *)
Writing == at = "write" => written < Count

IInv == TypeOK /\ Collected /\ Points /\ TornApart /\ Settled /\ Writing

-----------------------------------------------------------------------------

\* Blank, torn and valid bytes are different things.
LEMMA Constants ==
  /\ NULL \notin Content
  /\ Default \in Stored /\ Blank \in Stored /\ Scrap \subseteq Stored
  /\ Default \notin Scrap /\ Blank \notin Scrap
  /\ InFlash \notin Stored /\ InFlash \notin Scrap
  /\ Settings \subseteq Stored /\ Settings \cap Scrap = {}
  /\ AllOf(Blank) \in Content /\ AllOf(Default) \in Content
  /\ \A b \in Scrap : AllOf(b) \in Content
  /\ Clean(AllOf(Blank)) /\ Clean(AllOf(Default))
BY ConfigAssumption DEF Content, Stored, Valid, AllOf, Clean

\* The invariant holds at the start.
LEMMA InitInv == Init => IInv
<1> SUFFICES ASSUME Init PROVE IInv
  OBVIOUS
<1> USE Constants DEF Init
<1>1. TypeOK
  <2>1. magic \in BOOLEAN /\ exposed \in BOOLEAN
    BY Zenon
  <2>2. at \in {"off", "run"} \cup Committing /\ (at \in Committing => wbuf # NULL)
    BY DEF Committing
  <2>3. written \in 0 .. Count /\ saves \in 0 .. MaxSaves /\ faults \in 0 .. MaxFaults
    BY ConfigAssumption
  <2>4. active \in [Slots -> Stored \cup {InFlash}]
    BY DEF AllOf
  <2> QED BY <2>1, <2>2, <2>3, <2>4 DEF TypeOK
<1>2. Collected
  BY DEF Collected, NothingForgotten
<1>3. Points
  BY DEF Points, AllOf
<1>4. TornApart
  BY DEF TornApart
<1>5. Settled
  BY DEF Settled, Committing
<1>6. Writing
  BY DEF Writing
<1> QED BY <1>1, <1>2, <1>3, <1>4, <1>5, <1>6 DEF IInv

-----------------------------------------------------------------------------

(* What a start takes from the sector, what it makes of it, and what the   *)
(* objects get.                                                            *)
Usable(some) == IF Verified THEN Sound(flash) \cup some ELSE {}
Load(some) == [s \in Slots |-> IF s[1] \in Usable(some) THEN flash[s] ELSE Default]
Taken(some) == [s \in Slots |-> IF s \in Pointed /\ s[1] \in Usable(some)
                                THEN InFlash ELSE Load(some)[s]]

\* What a start loads is clean unless exposed, and is the whole sector if all of it is
\* usable.
LEMMA Loaded ==
  ASSUME IInv, NEW some
  PROVE  /\ Load(some) \in Content
         /\ Taken(some) \in [Slots -> Stored \cup {InFlash}]
         /\ \A s \in Slots : Taken(some)[s] = InFlash => s \in Pointed
         /\ ~exposed => Clean(Load(some)) /\ Clean(Taken(some))
         /\ Usable(some) = Objects => Load(some) = flash
<1>1. flash \in [Slots -> Stored] /\ Default \in Stored /\ Default \notin Scrap
  BY Constants DEF IInv, TypeOK, Content
<1>2. Load(some) \in [Slots -> Stored]
  BY <1>1 DEF Load
<1>3. Taken(some) \in [Slots -> Stored \cup {InFlash}]
  BY <1>2 DEF Taken
<1>4. \A s \in Slots : Taken(some)[s] = InFlash => s \in Pointed
  BY <1>2, Constants DEF Taken
<1>5. ASSUME ~exposed PROVE Clean(Load(some))
  <2>1. CASE Verified
    <3>1. crc = flash /\ crc # NULL
      BY <1>1, <2>1, Constants DEF Verified, Content
    <3>2. crc # NULL => Clean(crc)
      BY <1>5, Zenon DEF IInv, TornApart
    <3> QED BY <1>1, <3>1, <3>2 DEF Clean, Load
  <2>2. CASE ~Verified
    BY <1>1, <2>2 DEF Clean, Load, Usable
  <2> QED BY <2>1, <2>2
<1>6. ASSUME ~exposed PROVE Clean(Taken(some))
  BY <1>5, <1>6, Constants DEF Clean, Taken
<1>7. Usable(some) = Objects => Load(some) = flash
  <2> SUFFICES ASSUME Usable(some) = Objects PROVE Load(some) = flash
    OBVIOUS
  <2>1. \A s \in Slots : s[1] \in Objects
    BY DEF Slots
  <2>2. Load(some) = [s \in Slots |-> flash[s]]
    BY <2>1 DEF Load
  <2> QED BY <1>1, <2>2
<1> QED BY <1>2, <1>3, <1>4, <1>5, <1>6, <1>7 DEF Content

\* A start keeps the invariant.
LEMMA BootInv == IInv /\ Boot => IInv'
<1> SUFFICES ASSUME IInv, Boot PROVE IInv'
  OBVIOUS
<1>1. PICK some \in SUBSET (Objects \ Sound(flash)) :
        /\ active' = Taken(some) /\ intent' = Load(some) /\ reverted' = {}
        /\ wbuf' = IF Usable(some) # Objects THEN Load(some) ELSE NULL
        /\ at' = IF [changed \in BOOLEAN |-> changed][Usable(some) # Objects]
                 THEN "erase" ELSE "run"
  BY Zenon DEF Boot, BootWith, Usable, Load, Taken
<1> DEFINE usable == Usable(some)
           loaded == Load(some)
           taken  == Taken(some)
<1>2. /\ active' = taken /\ intent' = loaded /\ reverted' = {}
      /\ usable # Objects => wbuf' = loaded /\ at' = "erase"
      /\ usable = Objects => wbuf' = NULL /\ at' = "run"
  <2>1. [changed \in BOOLEAN |-> changed][usable # Objects] = (usable # Objects)
    BY Zenon
  <2> QED BY <1>1, <2>1
<1>3. UNCHANGED <<flash, crc, magic, written, settled, exposed, saves, faults>>
  BY DEF Boot, BootWith, sector
<1>4. /\ loaded \in Content /\ loaded # NULL
      /\ taken \in [Slots -> Stored \cup {InFlash}]
      /\ \A s \in Slots : taken[s] = InFlash => s \in Pointed
      /\ ~exposed => Clean(loaded) /\ Clean(taken)
      /\ usable = Objects => loaded = flash
  BY Loaded, Constants
<1> HIDE DEF usable, loaded, taken
<1>5. TypeOK'
  <2>1. magic' \in BOOLEAN /\ exposed' \in BOOLEAN
    BY <1>3, Zenon DEF IInv, TypeOK
  <2>2. wbuf' \in Content \cup {NULL} /\ (at' \in Committing => wbuf' # NULL)
    BY <1>2, <1>4 DEF Committing
  <2>3. at' \in {"off", "run"} \cup Committing
    BY <1>2 DEF Committing
  <2> QED BY <1>2, <1>3, <1>4, <2>1, <2>2, <2>3 DEF IInv, TypeOK
<1>6. Collected'
  BY <1>2, <1>3, <1>4 DEF Collected, NothingForgotten, Base
<1>7. Points'
  BY <1>2, <1>4 DEF Points
<1>8. TornApart'
  BY <1>2, <1>3, <1>4 DEF IInv, TornApart
<1>9. Settled'
  BY <1>2, <1>3 DEF IInv, Settled, Committing, Verified
<1>10. Writing'
  BY <1>2 DEF Writing
<1> QED BY <1>5, <1>6, <1>7, <1>8, <1>9, <1>10 DEF IInv

\* A save, which fills the buffer, keeps the invariant.
LEMMA SaveInv == ASSUME IInv, NEW o \in Objects, NEW v \in Changes, Save(o, v) PROVE IInv'
<1> DEFINE given == {o} \X DOMAIN v
           kept  == Of(o) \ given
           put   == [s \in Slots |-> IF s \in given THEN v[s[2]]
                                     ELSE IF s \in kept THEN flash[s] ELSE Base[s]]
           aim   == [s \in Slots |-> IF s \in given THEN v[s[2]] ELSE intent[s]]
<1>1. /\ at = "run" /\ saves' \in 0 .. MaxSaves
      /\ UNCHANGED <<flash, crc, magic, written, active, settled, faults>>
      /\ \/ /\ wbuf' = put /\ intent' = aim
            /\ reverted' = (reverted \ given) \cup {s \in kept : Base[s] # flash[s]}
            /\ exposed' = (exposed \/ \E s \in Slots : wbuf'[s] \in Scrap)
            /\ at' = "erase"
         \/ UNCHANGED <<wbuf, intent, reverted, exposed, at>>
  BY ConfigAssumption DEF IInv, TypeOK, Save, sector, meant
<1>2. flash \in [Slots -> Stored] /\ Base \in [Slots -> Stored] /\ intent \in [Slots -> Stored]
  BY Constants DEF IInv, TypeOK, Base, Content
<1>3. \A s \in given : v[s[2]] \in Stored
  <2>1. PICK fields \in SUBSET Fields : v \in [fields -> Settings]
    BY DEF Changes
  <2> QED BY <2>1, Constants
<1>4. /\ put \in [Slots -> Stored] /\ aim \in [Slots -> Stored]
      /\ kept \subseteq Slots
      /\ \A s \in given : put[s] = aim[s] \/ s \notin Slots
      /\ \A s \in Slots \ given : s \in kept => put[s] = flash[s] /\ aim[s] = intent[s]
      /\ \A s \in Slots \ given : s \notin kept => put[s] = Base[s] /\ aim[s] = intent[s]
  BY <1>2, <1>3 DEF Slots, Of
<1>5. \A s \in Slots \ reverted : Base[s] = intent[s]
  BY <1>1 DEF IInv, Collected, NothingForgotten
<1> HIDE DEF put, aim, kept, given
<1>6. CASE /\ wbuf' = put /\ intent' = aim
           /\ reverted' = (reverted \ given) \cup {s \in kept : Base[s] # flash[s]}
           /\ exposed' = (exposed \/ \E s \in Slots : wbuf'[s] \in Scrap)
           /\ at' = "erase"
  <2>1. wbuf' \in Content /\ wbuf' # NULL /\ intent' \in Content
    BY <1>4, <1>6, Constants DEF Content
  <2>2. TypeOK'
    <3>1. magic' \in BOOLEAN
      BY <1>1, Zenon DEF IInv, TypeOK
    <3>2. exposed' \in BOOLEAN
      BY <1>6, Zenon DEF IInv, TypeOK
    <3>3. reverted' \subseteq Slots
      BY <1>4, <1>6 DEF IInv, TypeOK
    <3>4. at' \in {"off", "run"} \cup Committing
      BY <1>6 DEF Committing
    <3> QED BY <1>1, <2>1, <3>1, <3>2, <3>3, <3>4 DEF IInv, TypeOK
  <2>3. Collected'
    <3> SUFFICES ASSUME NEW s \in Slots \ reverted' PROVE put[s] = aim[s]
      BY <1>6, <2>1 DEF Collected, NothingForgotten, Base
    <3>1. CASE s \in given
      BY <1>4, <3>1
    <3>2. CASE s \notin given
      <4>1. s \notin reverted /\ (s \in kept => Base[s] = flash[s])
        BY <1>6, <3>2
      <4> QED BY <1>4, <1>5, <3>2, <4>1
    <3> QED BY <3>1, <3>2
  <2>4. Points'
    BY <1>1 DEF IInv, Points
  <2>5. TornApart'
    <3> SUFFICES ASSUME ~exposed' PROVE TornApart'
      BY Zenon DEF TornApart
    <3>1. ~exposed /\ Clean(wbuf')
      BY <1>6, Zenon DEF Clean
    <3> QED BY <1>1, <3>1 DEF IInv, TornApart
  <2>6. Settled'
    BY <1>1, <1>6 DEF IInv, Settled, Committing, Verified
  <2>7. Writing'
    BY <1>6 DEF Writing
  <2> QED BY <2>2, <2>3, <2>4, <2>5, <2>6, <2>7 DEF IInv
<1>7. CASE UNCHANGED <<wbuf, intent, reverted, exposed, at>>
  <2>1. TypeOK'
    <3>1. magic' \in BOOLEAN /\ exposed' \in BOOLEAN
      BY <1>1, <1>7, Zenon DEF IInv, TypeOK
    <3> QED BY <1>1, <1>7, <3>1 DEF IInv, TypeOK
  <2> QED
    BY <1>1, <1>7, <2>1
       DEF IInv, Collected, NothingForgotten, Base, Points, TornApart, Settled, Writing, Verified
<1> QED BY <1>1, <1>6, <1>7

-----------------------------------------------------------------------------

(* A fault is spent from those that are left.                              *)
LEMMA FaultSpent == TypeOK /\ (Fault \/ UNCHANGED faults) => faults' \in 0 .. MaxFaults
BY ConfigAssumption DEF TypeOK, Fault

\* Clearing the sector, wholly or in part, leaves bytes and a checksum of their types,
\* and no checksum over torn bytes.
LEMMA ErasedTypes ==
  ASSUME IInv, Erased \/ HalfErased
  PROVE  /\ flash' \in Content /\ crc' \in {crc, NULL} /\ magic' \in BOOLEAN
<1>1. \/ flash' \in {flash, AllOf(Blank)}
      \/ \E b \in Scrap : flash' = AllOf(b)
  BY DEF Erased, HalfErased, sector
<1>2. flash' \in Content
  BY <1>1, Constants DEF IInv, TypeOK
<1>3. crc' \in {crc, NULL}
  BY DEF Erased, HalfErased, sector
<1>4. magic' \in BOOLEAN
  <2>1. CASE Erased
    BY <2>1, Zenon DEF Erased
  <2>2. CASE UNCHANGED <<sector, settled>>
    BY <2>2, Zenon DEF IInv, TypeOK, sector
  <2>3. CASE magic' \in BOOLEAN
    BY <2>3
  <2> QED BY <2>1, <2>2, <2>3, Zenon DEF HalfErased
<1> QED BY <1>2, <1>3, <1>4

\* What an unfinished erase has not settled anew, it has left settled.
LEMMA HalfErasedSettles ==
  ASSUME IInv, HalfErased
  PROVE  /\ settled' \in {settled, NULL}
         /\ settled' # NULL => \/ Verified' /\ flash' = settled'
                               \/ ~magic' /\ settled' = AllOf(Default)
<1>1. CASE UNCHANGED <<sector, settled>>
  BY <1>1 DEF IInv, Settled, Verified, sector
<1>2. CASE settled' = NULL
  BY <1>2
<1> QED BY <1>1, <1>2 DEF HalfErased

\* The erase that begins a commit keeps the invariant.
LEMMA EraseSectorInv == IInv /\ EraseSector => IInv'
<1> SUFFICES ASSUME IInv, EraseSector PROVE IInv'
  OBVIOUS
<1>1. /\ at = "erase" /\ wbuf # NULL /\ written' = 0
      /\ \/ at' = "write" /\ settled' = NULL
         \/ at' = "run" /\ HalfErased
      /\ UNCHANGED <<wbuf, active, intent, reverted, exposed, saves>>
      /\ faults' \in 0 .. MaxFaults
  BY FaultSpent DEF EraseSector, Give, IInv, TypeOK, Committing, meant
<1>2. flash' \in Content /\ crc' \in {crc, NULL} /\ magic' \in BOOLEAN
  BY ErasedTypes DEF EraseSector
<1>3. settled' \in {settled, NULL}
  BY <1>1, HalfErasedSettles
<1>4. TypeOK'
  <2>1. exposed' \in BOOLEAN
    BY <1>1, Zenon DEF IInv, TypeOK
  <2>2. at' \in {"off", "run"} \cup Committing /\ wbuf' # NULL
    BY <1>1 DEF Committing
  <2>3. written' \in 0 .. Count
    BY <1>1, ConfigAssumption
  <2> QED BY <1>1, <1>2, <1>3, <2>1, <2>2, <2>3 DEF IInv, TypeOK
<1>5. Collected'
  BY <1>1 DEF IInv, Collected, NothingForgotten, Base
<1>6. Points'
  BY <1>1 DEF IInv, Points
<1>7. TornApart'
  BY <1>1, <1>2 DEF IInv, TornApart
<1>8. Settled'
  BY <1>1, HalfErasedSettles DEF Settled, Committing
<1>9. Writing'
  BY <1>1, ConfigAssumption DEF Writing
<1> QED BY <1>4, <1>5, <1>6, <1>7, <1>8, <1>9 DEF IInv

\* What is written of an object, in part or spoilt, are bytes.
LEMMA HalfWroteTypes == ASSUME IInv, NEW o, HalfWrote(o) PROVE flash' \in Content
<1>1. PICK bytes \in [Of(o) -> Stored] : Wrote(o, bytes)
  BY DEF HalfWrote
<1>2. \A s \in Slots : s[1] = o => s \in Of(o)
  BY DEF Slots, Of
<1> QED BY <1>1, <1>2 DEF Wrote, IInv, TypeOK, Content

\* Writing an object, or failing to, keeps the invariant.
LEMMA WriteObjectInv == IInv /\ WriteObject => IInv'
<1> SUFFICES ASSUME IInv, WriteObject PROVE IInv'
  OBVIOUS
<1> DEFINE o == written + 1
<1>1. /\ at = "write" /\ wbuf # NULL /\ settled = NULL /\ o \in 1 .. Count
      /\ UNCHANGED <<crc, magic, settled>>
      /\ UNCHANGED <<wbuf, active, intent, reverted, exposed, saves>>
      /\ at' = (IF o = Count THEN "crc" ELSE "write") \/ at' = "run"
      /\ faults' \in 0 .. MaxFaults
  BY FaultSpent, ConfigAssumption
     DEF WriteObject, Give, IInv, TypeOK, Settled, Writing, Committing, meant
<1>2. flash' \in Content
  <2>1. CASE Wrote(o, wbuf)
    BY <1>1, <2>1 DEF Wrote, IInv, TypeOK, Content
  <2>2. CASE HalfWrote(o)
    BY <2>2, HalfWroteTypes
  <2> QED BY <2>1, <2>2 DEF WriteObject
<1>3. written' \in 0 .. Count /\ (at' = "write" => written' < Count)
  <2>1. \/ written' = o /\ at' = IF o = Count THEN "crc" ELSE "write"
        \/ written' = written /\ at' = "run"
    BY DEF WriteObject, Give
  <2> QED BY <1>1, <2>1, ConfigAssumption DEF IInv, TypeOK
<1>4. TypeOK'
  <2>1. magic' \in BOOLEAN /\ exposed' \in BOOLEAN
    BY <1>1, Zenon DEF IInv, TypeOK
  <2>2. at' \in {"off", "run"} \cup Committing /\ wbuf' # NULL
    BY <1>1 DEF Committing
  <2> QED BY <1>1, <1>2, <1>3, <2>1, <2>2 DEF IInv, TypeOK
<1>5. Collected'
  BY <1>1 DEF IInv, Collected, NothingForgotten, Base
<1>6. Points' /\ TornApart'
  BY <1>1 DEF IInv, Points, TornApart
<1>7. Settled'
  BY <1>1 DEF Settled
<1>8. Writing'
  BY <1>3 DEF Writing
<1> QED BY <1>4, <1>5, <1>6, <1>7, <1>8 DEF IInv

\* Writing the checksum keeps the invariant.
LEMMA WriteCrcInv == IInv /\ WriteCrc => IInv'
<1> SUFFICES ASSUME IInv, WriteCrc PROVE IInv'
  OBVIOUS
<1>1. /\ at = "crc" /\ wbuf # NULL /\ settled = NULL
      /\ UNCHANGED <<flash, magic, written, settled>>
      /\ UNCHANGED <<wbuf, active, intent, reverted, exposed, saves>>
      /\ at' \in {"magic", "run"}
      /\ crc' \in {wbuf, NULL, crc}
      /\ faults' \in 0 .. MaxFaults
  BY FaultSpent DEF WriteCrc, Give, IInv, TypeOK, Settled, Committing, meant
<1>2. TypeOK'
  <2>1. magic' \in BOOLEAN /\ exposed' \in BOOLEAN
    BY <1>1, Zenon DEF IInv, TypeOK
  <2>2. at' \in {"off", "run"} \cup Committing
    BY <1>1 DEF Committing
  <2> QED BY <1>1, <2>1, <2>2 DEF IInv, TypeOK
<1>3. Collected'
  BY <1>1 DEF IInv, Collected, NothingForgotten, Base
<1>4. Points' /\ TornApart'
  BY <1>1 DEF IInv, Points, TornApart
<1>5. Settled' /\ Writing'
  BY <1>1 DEF Settled, Writing
<1> QED BY <1>2, <1>3, <1>4, <1>5 DEF IInv

\* Writing the mark beside it keeps the invariant.
LEMMA WriteMagicInv == IInv /\ WriteMagic => IInv'
<1> SUFFICES ASSUME IInv, WriteMagic PROVE IInv'
  OBVIOUS
<1>1. /\ at = "magic" /\ wbuf # NULL /\ settled = NULL
      /\ UNCHANGED <<flash, crc, written, settled>>
      /\ UNCHANGED <<wbuf, active, intent, reverted, exposed, saves>>
      /\ at' \in {"verify", "run"}
      /\ faults' \in 0 .. MaxFaults
  BY FaultSpent DEF WriteMagic, Give, IInv, TypeOK, Settled, Committing, meant
<1>2. TypeOK'
  <2>1. magic' \in BOOLEAN
    <3>1. magic' = TRUE \/ magic' = magic
      BY DEF WriteMagic
    <3> QED BY <3>1, Zenon DEF IInv, TypeOK
  <2>2. exposed' \in BOOLEAN
    BY <1>1, Zenon DEF IInv, TypeOK
  <2>3. at' \in {"off", "run"} \cup Committing
    BY <1>1 DEF Committing
  <2> QED BY <1>1, <2>1, <2>2, <2>3 DEF IInv, TypeOK
<1>3. Collected'
  BY <1>1 DEF IInv, Collected, NothingForgotten, Base
<1>4. Points' /\ TornApart'
  BY <1>1 DEF IInv, Points, TornApart
<1>5. Settled' /\ Writing'
  BY <1>1 DEF Settled, Writing
<1> QED BY <1>2, <1>3, <1>4, <1>5 DEF IInv

\* The comparison that ends a commit keeps the invariant.
LEMMA VerifyInv == IInv /\ Verify => IInv'
<1> SUFFICES ASSUME IInv, Verify PROVE IInv'
  OBVIOUS
<1>1. /\ at = "verify" /\ at' = "run" /\ wbuf # NULL /\ settled = NULL
      /\ UNCHANGED <<flash, crc, magic, written, active, intent, reverted>>
      /\ UNCHANGED <<exposed, saves, faults>>
  BY DEF Verify, IInv, TypeOK, Settled, Committing, sector, meant
<1>2. \/ Matches /\ wbuf' = NULL /\ settled' = flash
      \/ UNCHANGED <<wbuf, settled>>
  BY DEF Verify
<1>3. TypeOK'
  <2>1. magic' \in BOOLEAN /\ exposed' \in BOOLEAN
    BY <1>1, Zenon DEF IInv, TypeOK
  <2>2. at' \in {"off", "run"} \cup Committing /\ at' \notin Committing
    BY <1>1 DEF Committing
  <2> QED BY <1>1, <1>2, <2>1, <2>2 DEF IInv, TypeOK
<1>4. Collected'
  BY <1>1, <1>2 DEF IInv, Collected, NothingForgotten, Base, Matches
<1>5. Points' /\ TornApart'
  BY <1>1, <1>2 DEF IInv, Points, TornApart
<1>6. Settled'
  BY <1>1, <1>2 DEF Settled, Verified, Matches, Committing
<1>7. Writing'
  BY <1>1 DEF Writing
<1> QED BY <1>3, <1>4, <1>5, <1>6, <1>7 DEF IInv

\* An erase by itself, done or failed, keeps the invariant.
LEMMA EraseInv == IInv /\ Erase => IInv'
<1> SUFFICES ASSUME IInv, Erase PROVE IInv'
  OBVIOUS
<1>1. /\ at = "run" /\ at' = "run" /\ wbuf' = NULL /\ intent' = flash' /\ reverted' = {}
      /\ UNCHANGED <<written, active, exposed, saves>>
      /\ \/ ~magic' /\ settled' = AllOf(Default)
         \/ HalfErased
      /\ faults' \in 0 .. MaxFaults
  BY FaultSpent DEF Erase, Erased, IInv
<1>2. flash' \in Content /\ crc' \in {crc, NULL} /\ magic' \in BOOLEAN
  BY ErasedTypes DEF Erase
<1>3. at' \in {"off", "run"} \cup Committing /\ at' \notin Committing
  BY <1>1 DEF Committing
<1>4. TypeOK'
  <2>1. exposed' \in BOOLEAN
    BY <1>1, Zenon DEF IInv, TypeOK
  <2>2. settled' \in Content \cup {NULL}
    <3>1. settled' \in {settled, NULL, AllOf(Default)}
      BY <1>1, HalfErasedSettles
    <3> QED BY <3>1, Constants DEF IInv, TypeOK
  <2> QED BY <1>1, <1>2, <1>3, <2>1, <2>2 DEF IInv, TypeOK
<1>5. Collected' /\ Writing'
  BY <1>1 DEF Collected, NothingForgotten, Base, Writing
<1>6. Points' /\ TornApart'
  BY <1>1, <1>2 DEF IInv, Points, TornApart
<1>7. Settled'
  BY <1>1, <1>3, HalfErasedSettles DEF Settled
<1> QED BY <1>4, <1>5, <1>6, <1>7 DEF IInv

\* A restart keeps the invariant.
LEMMA RestartInv == IInv /\ Restart => IInv'
<1> SUFFICES ASSUME IInv, Restart PROVE IInv'
  OBVIOUS
<1>1. /\ at' = "off" /\ wbuf' = NULL
      /\ UNCHANGED <<flash, crc, magic, written, active, intent, reverted, settled>>
      /\ UNCHANGED <<exposed, saves, faults>>
  BY DEF Restart, sector, history, meant
<1>2. at' \in {"off", "run"} \cup Committing /\ at' \notin Committing
  BY <1>1 DEF Committing
<1>3. TypeOK'
  <2>1. magic' \in BOOLEAN /\ exposed' \in BOOLEAN
    BY <1>1, Zenon DEF IInv, TypeOK
  <2> QED BY <1>1, <1>2, <2>1 DEF IInv, TypeOK
<1>4. Collected' /\ Writing'
  BY <1>1 DEF Collected, NothingForgotten, Writing
<1>5. Points' /\ TornApart'
  BY <1>1 DEF IInv, Points, TornApart
<1>6. Settled'
  BY <1>1, <1>2 DEF IInv, Settled, Verified
<1> QED BY <1>3, <1>4, <1>5, <1>6 DEF IInv

\* A loss of power keeps the invariant, wherever it falls.
LEMMA PowerLossInv == IInv /\ PowerLoss => IInv'
<1> SUFFICES ASSUME IInv, PowerLoss PROVE IInv'
  OBVIOUS
<1>1. /\ at' = "off" /\ wbuf' = NULL
      /\ UNCHANGED <<written, active, intent, reverted, exposed, saves>>
      /\ faults' \in 0 .. MaxFaults
  BY FaultSpent DEF PowerLoss, IInv, meant
<1>2. at' \in {"off", "run"} \cup Committing /\ at' \notin Committing
  BY <1>1 DEF Committing
<1>3. \/ HalfErased
      \/ at = "write" /\ HalfWrote(written + 1) /\ UNCHANGED <<crc, magic, settled>>
  BY Zenon DEF PowerLoss, HalfErased
<1>4. flash' \in Content /\ crc' \in {crc, NULL} /\ magic' \in BOOLEAN
  <2>1. CASE HalfErased
    BY <2>1, ErasedTypes
  <2>2. CASE HalfWrote(written + 1) /\ UNCHANGED <<crc, magic, settled>>
    <3>1. magic' \in BOOLEAN
      BY <2>2, Zenon DEF IInv, TypeOK
    <3> QED BY <2>2, <3>1, HalfWroteTypes
  <2> QED BY <1>3, <2>1, <2>2
<1>5. /\ settled' \in {settled, NULL}
      /\ settled' # NULL => \/ Verified' /\ flash' = settled'
                            \/ ~magic' /\ settled' = AllOf(Default)
  <2>1. CASE HalfErased
    BY <2>1, HalfErasedSettles
  <2>2. CASE at = "write" /\ UNCHANGED settled
    BY <2>2 DEF IInv, Settled, Committing
  <2> QED BY <1>3, <2>1, <2>2
<1>6. TypeOK'
  <2>1. exposed' \in BOOLEAN
    BY <1>1, Zenon DEF IInv, TypeOK
  <2> QED BY <1>1, <1>2, <1>4, <1>5, <2>1 DEF IInv, TypeOK
<1>7. Collected' /\ Writing'
  BY <1>1 DEF Collected, NothingForgotten, Writing
<1>8. Points' /\ TornApart'
  BY <1>1, <1>4 DEF IInv, Points, TornApart
<1>9. Settled'
  BY <1>2, <1>5 DEF Settled
<1> QED BY <1>6, <1>7, <1>8, <1>9 DEF IInv

\* Every step keeps the invariant.
LEMMA StepInv == IInv /\ [Next]_vars => IInv'
<1> SUFFICES ASSUME IInv, [Next]_vars PROVE IInv'
  OBVIOUS
<1>1. CASE Boot
  BY <1>1, BootInv
<1>2. CASE \E o \in Objects, v \in Changes : Save(o, v)
  BY <1>2, SaveInv
<1>3. CASE CommitStep
  BY <1>3, EraseSectorInv, WriteObjectInv, WriteCrcInv, WriteMagicInv, VerifyInv DEF CommitStep
<1>4. CASE Erase
  BY <1>4, EraseInv
<1>5. CASE Restart
  BY <1>5, RestartInv
<1>6. CASE PowerLoss
  BY <1>6, PowerLossInv
<1>7. CASE UNCHANGED vars
  <2>1. UNCHANGED <<flash, crc, magic, wbuf, at, written, active, intent, reverted>>
    BY <1>7 DEF vars, sector, history, meant
  <2>2. UNCHANGED <<settled, exposed, saves, faults>>
    BY <1>7 DEF vars, sector, history, meant
  <2> QED
    BY <2>1, <2>2 DEF IInv, TypeOK, Collected, NothingForgotten, Base, Points, TornApart,
                      Settled, Writing, Verified
<1> QED BY <1>1, <1>2, <1>3, <1>4, <1>5, <1>6, <1>7 DEF Next

\* The invariant holds in every reachable state.
LEMMA Invariant == Spec => []IInv
BY InitInv, StepInv, PTL DEF Spec

-----------------------------------------------------------------------------

(* The sector, the write buffer and the device stay of their types through *)
(* every failure of power and flash.                                       *)
THEOREM ConfigTypes == Spec => []TypeOK
<1>1. IInv => TypeOK
  BY DEF IInv
<1> QED BY <1>1, Invariant, PTL

(* What the next commit starts from (Config_Storage_Write, line 188) is    *)
(* what was to be saved, whatever has failed, but for the fields a SET of  *)
(* the same object has read back from the sector.                          *)
THEOREM ConfigRemembers == Spec => []NothingForgotten
<1>1. IInv => NothingForgotten
  BY DEF IInv, Collected
<1> QED BY <1>1, Invariant, PTL

(* Until a save collects them, half-written bytes get no further than the  *)
(* sector (IsCrc32Valid, line 80) and the objects that point at them there.*)
THEOREM ConfigSound == Spec => []NothingTornInUse
<1>1. IInv => NothingTornInUse
  <2> SUFFICES ASSUME IInv, ~exposed, NEW s \in Slots, InUse(s) \in Scrap
               PROVE  s \in Pointed /\ ~Verified
    BY Zenon DEF NothingTornInUse
  <2>1. Clean(active) /\ (crc # NULL => Clean(crc))
    BY DEF IInv, TornApart
  <2>2. active[s] = InFlash /\ flash[s] \in Scrap
    BY <2>1 DEF InUse, Clean
  <2>3. s \in Pointed
    BY <2>2 DEF IInv, Points
  <2>4. ~Verified
    <3> SUFFICES ASSUME Verified PROVE FALSE
      OBVIOUS
    <3>1. crc = flash /\ crc # NULL
      BY Constants DEF Verified, IInv, TypeOK
    <3> QED BY <2>1, <2>2, <3>1 DEF Clean
  <2> QED BY <2>3, <2>4
<1> QED BY <1>1, Invariant, PTL

\* An object of a start runs with what was settled, or with the defaults, which it may
\* do only if what was settled for it are not all settings.
LEMMA BootLoadsSettled ==
  ASSUME IInv, Boot, settled # NULL, NEW o \in Objects
  PROVE  \/ \A s \in Of(o) : InUse(s)' = settled[s]
         \/ o \notin Sound(settled) /\ \A s \in Of(o) : InUse(s)' = Default
<1>1. PICK some \in SUBSET (Objects \ Sound(flash)) : active' = Taken(some)
  BY Zenon DEF Boot, BootWith, Usable, Load, Taken
<1>2. flash' = flash /\ flash \in [Slots -> Stored]
  BY DEF Boot, BootWith, sector, IInv, TypeOK, Content
<1>3. \A s \in Of(o) : s \in Slots /\ s[1] = o
  BY DEF Of, Slots
<1>4. ASSUME o \in Usable(some), NEW s \in Of(o) PROVE InUse(s)' = flash[s]
  <2>1. active'[s] = IF s \in Pointed THEN InFlash ELSE flash[s]
    BY <1>1, <1>3, <1>4 DEF Taken, Load
  <2> QED BY <1>2, <2>1, <1>3, Constants DEF InUse
<1>5. ASSUME o \notin Usable(some), NEW s \in Of(o) PROVE InUse(s)' = Default
  <2>1. active'[s] = Default
    BY <1>1, <1>3, <1>5 DEF Taken, Load
  <2> QED BY <2>1, Constants DEF InUse
<1>6. CASE Verified /\ flash = settled
  <2>1. CASE o \in Usable(some)
    BY <1>4, <1>6, <2>1
  <2>2. CASE o \notin Usable(some)
    <3>1. o \notin Sound(settled)
      BY <1>6, <2>2 DEF Usable
    <3> QED BY <1>5, <2>2, <3>1
  <2> QED BY <2>1, <2>2
<1>7. CASE ~magic /\ settled = AllOf(Default)
  <2>1. o \notin Usable(some)
    BY <1>7 DEF Usable, Verified
  <2>2. \A s \in Of(o) : settled[s] = Default
    BY <1>3, <1>7 DEF AllOf
  <2> QED BY <1>5, <2>1, <2>2
<1> QED BY <1>6, <1>7 DEF IInv, Settled

(* A commit that answered "done" survives: whatever fails before the next  *)
(* erase, every start runs with what the comparison at the end of          *)
(* Config_Storage_Commit found in the sector; and one after an erase, with *)
(* the defaults.                                                           *)
THEOREM ConfigDurable == Spec => Durable
<1>1. IInv => (Boot /\ settled # NULL =>
                 \A o \in Objects :
                   \/ \A s \in Of(o) : InUse(s)' = settled[s]
                   \/ o \notin Sound(settled) /\ \A s \in Of(o) : InUse(s)' = Default)
  BY BootLoadsSettled
<1> QED BY <1>1, Invariant, PTL DEF Spec, Durable

=============================================================================
