--------------------------- MODULE ConfigStorage ---------------------------
(***************************************************************************)
(* device/config_storage.c: the settings of all objects in one flash       *)
(* sector, behind a checksum. A change is collected in a buffer and        *)
(* committed: the sector is erased, written object by object and compared. *)
(* Power may fail at any step, the flash may refuse or spoil a write; the  *)
(* next start checks the sector and loads it, or the defaults.             *)
(*                                                                         *)
(* The runtime status is not modelled: only the load right after the check *)
(* reads it. At the start the heap is empty, so the load's mallocs succeed.*)
(***************************************************************************)
EXTENDS Naturals

CONSTANTS Count,            \* objects in the list, the checksum's own entry excluded
          Fields,           \* of an object's settings
          Settings,         \* what users may set a field to
          Default,          \* what a field is exported as when nothing was loaded
          Blank,            \* erased bytes
          Scrap,            \* bytes half erased or half written
          Pointed,          \* the fields an object keeps as pointers into the flash
          InFlash,          \* such a pointer
          MaxSaves, MaxFaults,  \* bounds
          NULL

Objects == 1 .. Count
Of(o)   == {o} \X Fields
Slots   == Objects \X Fields
Valid   == Settings \cup {Default}
Stored  == Valid \cup {Blank} \cup Scrap
Content == [Slots -> Stored]

ASSUME ConfigAssumption == /\ Count \in Nat \ {0}
                           /\ MaxSaves \in Nat
                           /\ MaxFaults \in Nat
                           /\ Blank \notin Valid \cup Scrap
                           /\ Valid \cap Scrap = {}
                           /\ InFlash \notin Stored
                           /\ Pointed \subseteq Slots
                           /\ NULL \notin Content

VARIABLES flash,        \* the objects in the sector
          crc, magic,   \* its last entry: what the checksum sums, the magic number
          wbuf,         \* _config_wbuf
          at,           \* where the device stands
          written,      \* objects the commit has written
          active,       \* what each object has taken, or where it points
          intent,       \* history: what the sector should come to hold
          reverted,     \* history: fields a save has put back to what the sector held
          settled,      \* history: what every later start has to run with, or NULL
          exposed,      \* history: has a save collected torn bytes?
          saves, faults \* saves and faults still to come

sector  == <<flash, crc, magic>>
meant   == <<intent, reverted>>
history == <<meant, settled, exposed>>
vars    == <<sector, wbuf, at, written, active, history, saves, faults>>

Committing == {"erase", "write", "crc", "magic", "verify"}

TypeOK == /\ flash \in Content
          /\ crc \in Content \cup {NULL}
          /\ magic \in BOOLEAN
          /\ wbuf \in Content \cup {NULL}
          /\ at \in {"off", "run"} \cup Committing
          /\ at \in Committing => wbuf # NULL
          /\ written \in 0 .. Count
          /\ active \in [Slots -> Stored \cup {InFlash}]
          /\ intent \in Content
          /\ reverted \subseteq Slots
          /\ settled \in Content \cup {NULL}
          /\ exposed \in BOOLEAN
          /\ saves \in 0 .. MaxSaves
          /\ faults \in 0 .. MaxFaults

AllOf(b) == [s \in Slots |-> b]

(* A device fresh from the programmer.                                     *)
Init == /\ flash = AllOf(Blank) /\ crc = NULL /\ magic = FALSE
        /\ wbuf = NULL
        /\ at = "off"
        /\ written = 0
        /\ active = AllOf(Default)
        /\ intent = AllOf(Blank)
        /\ reverted = {}
        /\ settled = AllOf(Default)
        /\ exposed = FALSE
        /\ saves = MaxSaves
        /\ faults = MaxFaults

-----------------------------------------------------------------------------

MagicOnly == magic

(* Config_Storage_IsCrc32Valid                                             *)
Verified == magic /\ crc = flash

(* The check function of an object takes settings all of which are valid.  *)
(* What it says of erased or spoilt bytes is left open: an object that is  *)
(* switched off takes them, and the network's with DHCP takes anything.    *)
Sound(content) == {o \in Objects : \A s \in Of(o) : content[s] \in Valid}

BootWith(commits) ==
  /\ at = "off"
  /\ \E some \in SUBSET (Objects \ Sound(flash)) :
       LET usable == IF Verified THEN Sound(flash) \cup some ELSE {}
           loaded == [s \in Slots |-> IF s[1] \in usable THEN flash[s] ELSE Default]
           changed == usable # Objects
       IN  /\ active' = [s \in Slots |-> IF s \in Pointed /\ s[1] \in usable
                                         THEN InFlash ELSE loaded[s]]
           /\ intent' = loaded
           /\ reverted' = {}
           /\ wbuf' = IF changed THEN loaded ELSE NULL
           /\ at' = IF commits[changed] THEN "erase" ELSE "run"
  /\ UNCHANGED <<sector, written, settled, exposed, saves, faults>>

BootCommitsAlways == BootWith([changed \in BOOLEAN |-> TRUE])

BootNeverCommits == BootWith([changed \in BOOLEAN |-> FALSE])

(* Config_Storage_Init, _Load and, in main, _Commit if anything changed:   *)
(* an object whose settings cannot be used exports its defaults.           *)
Boot == BootWith([changed \in BOOLEAN |-> changed])

(* What an object reads where it runs with a setting.                      *)
InUse(s) == IF active[s] = InFlash THEN flash[s] ELSE active[s]

BaseFlash == flash

(* What Config_Storage_Write changes: the buffer, which starts as a copy   *)
(* of the sector.                                                          *)
Base == IF wbuf = NULL THEN flash ELSE wbuf

Changes == UNION {[given -> Settings] : given \in SUBSET Fields}

(* A SET of the web interface, or the console's dhcp: some fields of what  *)
(* Config_Storage_Read finds in the sector, never in the buffer, change,   *)
(* and the whole object is written and committed. An object its check      *)
(* refuses (see Sound) is not saved, which is no step.                     *)
Save(o, v) ==
  LET given == {o} \X DOMAIN v
      kept  == Of(o) \ given
  IN  /\ at = "run"
      /\ saves > 0
      /\ saves' = saves - 1
      /\ \/ /\ wbuf' = [s \in Slots |-> IF s \in given THEN v[s[2]]
                                        ELSE IF s \in kept THEN flash[s] ELSE Base[s]]
            /\ intent' = [s \in Slots |-> IF s \in given THEN v[s[2]] ELSE intent[s]]
            /\ reverted' = (reverted \ given) \cup {s \in kept : Base[s] # flash[s]}
            /\ exposed' = (exposed \/ \E s \in Slots : wbuf'[s] \in Scrap)
            /\ at' = "erase"
         \/ /\ wbuf = NULL      \* malloc failed
            /\ UNCHANGED <<wbuf, meant, exposed, at>>
      /\ UNCHANGED <<sector, written, active, settled, faults>>

-----------------------------------------------------------------------------

Fault == faults > 0 /\ faults' = faults - 1

(* A step that fails leaves the buffer for the next commit.                *)
Give(up) == /\ at' = up
            /\ UNCHANGED <<wbuf, active, meant, exposed, saves>>

Erased == flash' = AllOf(Blank) /\ crc' = NULL /\ magic' = FALSE

(* An erase that does not finish has not begun, or leaves the sector torn. *)
HalfErased == \/ UNCHANGED <<sector, settled>>
              \/ /\ \E b \in Scrap : flash' = AllOf(b)
                 /\ crc' \in {crc, NULL}
                 /\ magic' \in BOOLEAN
                 /\ settled' = NULL

EraseSector == /\ at = "erase"
               /\ \/ Give("write") /\ Erased /\ settled' = NULL /\ UNCHANGED faults
                  \/ Give("run") /\ HalfErased /\ Fault
               /\ written' = 0

Wrote(o, bytes) == flash' = [s \in Slots |-> IF s[1] = o THEN bytes[s] ELSE flash[s]]

(* The flash takes one word after the other: what it refuses, spoils or    *)
(* does not come to leaves an object in part written, torn or blank.       *)
HalfWrote(o) == \E bytes \in [Of(o) -> Stored] :
                  /\ \A s \in Of(o) : bytes[s] \in {wbuf[s], flash[s]} \cup Scrap
                  /\ Wrote(o, bytes)

WriteObject ==
  LET o == written + 1
  IN  /\ at = "write"
      /\ \/ /\ Give(IF o = Count THEN "crc" ELSE "write")
            /\ written' = o
            /\ \/ Wrote(o, wbuf) /\ UNCHANGED faults
               \/ HalfWrote(o) /\ Fault     \* spoilt without a word
         \/ /\ Give("run")                  \* refused
            /\ HalfWrote(o) /\ Fault
            /\ UNCHANGED written
      /\ UNCHANGED <<crc, magic, settled>>

(* The checksum is of the buffer, not of what the flash has become.        *)
WriteCrc == /\ at = "crc"
            /\ \/ Give("magic") /\ crc' = wbuf /\ UNCHANGED faults
               \/ Give("magic") /\ crc' = NULL /\ Fault
               \/ Give("run") /\ Fault /\ UNCHANGED crc
            /\ UNCHANGED <<flash, magic, written, settled>>

WriteMagic == /\ at = "magic"
              /\ \/ Give("verify") /\ magic' = TRUE /\ UNCHANGED faults
                 \/ Give("verify") /\ Fault /\ UNCHANGED magic
                 \/ Give("run") /\ Fault /\ UNCHANGED magic
              /\ UNCHANGED <<flash, crc, written, settled>>

MatchesUnread == TRUE

Matches == magic /\ crc = wbuf /\ flash = wbuf

Verify == /\ at = "verify"
          /\ at' = "run"
          /\ IF Matches
             THEN wbuf' = NULL /\ settled' = flash
             ELSE UNCHANGED <<wbuf, settled>>
          /\ UNCHANGED <<sector, written, active, meant, exposed, saves, faults>>

(* Config_Storage_Erase, from the button, the console or the web: the      *)
(* device may run on and save again before it restarts.                    *)
Erase == /\ at = "run"
         /\ wbuf' = NULL
         /\ \/ Erased /\ settled' = AllOf(Default) /\ UNCHANGED faults
            \/ HalfErased /\ Fault
         /\ intent' = flash'
         /\ reverted' = {}
         /\ UNCHANGED <<at, written, active, exposed, saves>>

Restart == /\ at = "run"
           /\ at' = "off"
           /\ wbuf' = NULL
           /\ UNCHANGED <<sector, written, active, history, saves, faults>>

(* Power fails between two steps, or in the middle of one.                 *)
PowerLoss ==
  /\ at # "off"
  /\ Fault
  /\ at' = "off"
  /\ wbuf' = NULL
  /\ \/ UNCHANGED <<sector, settled>>
     \/ at \in {"erase", "run"} /\ HalfErased   \* the commit's erase, or Erase's
     \/ /\ at = "write"
        /\ HalfWrote(written + 1)
        /\ UNCHANGED <<crc, magic, settled>>
  /\ UNCHANGED <<written, active, meant, exposed, saves>>

CommitStep == EraseSector \/ WriteObject \/ WriteCrc \/ WriteMagic \/ Verify

Next == \/ Boot
        \/ \E o \in Objects, v \in Changes : Save(o, v)
        \/ CommitStep
        \/ Erase
        \/ Restart
        \/ PowerLoss

Spec == Init /\ [][Next]_vars

(* A device with power starts, and a commit under way goes on.             *)
FairSpec == Spec /\ WF_vars(Boot) /\ WF_vars(CommitStep)

-----------------------------------------------------------------------------

(* The next commit writes all that was meant to be saved: settings whose   *)
(* commit failed stay in the buffer and are taken along, and an erase      *)
(* leaves nothing behind in it (Config_Storage_Write, line 188). Only a    *)
(* SET of the same object, which starts from the sector, puts back those   *)
(* of its fields it does not give (Config_Storage_Read, line 179).         *)
NothingForgotten == at # "off" => \A s \in Slots \ reverted : Base[s] = intent[s]

(* Once a commit or an erase has answered "done", every later start runs   *)
(* with exactly those settings, or the defaults, whatever fails before the *)
(* sector is touched again (Config_Storage_Commit, verify). An object of   *)
(* bytes that are not settings runs with all of them or with none.         *)
Durable ==
  [][Boot /\ settled # NULL =>
       \A o \in Objects :
         \/ \A s \in Of(o) : InUse(s)' = settled[s]
         \/ o \notin Sound(settled) /\ \A s \in Of(o) : InUse(s)' = Default]_vars

(* Bytes a failing write or power loss has left are not used as settings,  *)
(* even if an object's own check would take them (IsCrc32Valid, line 80),  *)
(* until a save collects them from the sector. What an object points at is *)
(* another matter: it is whatever a failed commit has left there.          *)
NothingTornInUse ==
  ~exposed => \A s \in Slots : InUse(s) \in Scrap => s \in Pointed /\ ~Verified

(* Whatever has happened to the sector, a start that is left in peace ends *)
(* with a valid one (main.c:42).                                           *)
Heals == at = "off" /\ faults = 0 ~> Verified

(* "Data verified and copied to ram" (config_storage.h:69): no commit and  *)
(* no erase changes what a running object reads. The code does not keep    *)
(* this, and no run checks it: webhook.c:26 and nettime.c:22 keep pointers *)
(* into the sector.                                                        *)
CopiedToRam == [][at # "off" /\ at' # "off" => \A s \in Slots : InUse(s)' = InUse(s)]_vars
=============================================================================
