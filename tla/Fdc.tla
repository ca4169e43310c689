--------------------------------- MODULE Fdc --------------------------------
(***************************************************************************)
(* disk.c: the floppy controller card, ports 0xC0 to 0xCF.  Commands fill  *)
(* a buffer which the guest then reads byte by byte from the data port;    *)
(* once per scanline disksys_tick refreshes the index flag.                *)
(*                                                                         *)
(* A byte of a buffer is a pair <<source, position>>, where the source is  *)
(* a sector of an image, the address field or the out-of-band block.       *)
(* DSK_DRQ and DSK_INDEX are the same bit of the status register; it is    *)
(* called DRQ here.  tick is never advanced, so it is always 0.            *)
(***************************************************************************)
EXTENDS Naturals

CONSTANTS
  SectorLen,       \* bytes of a sector (1024)
  IdLen,           \* bytes of an address field (6)
  OobLen,          \* bytes of the out-of-band block (38)
  SectorsPerTrack, \* 5
  TrackWrap,       \* the track register is a byte (256)
  ImageSectors,    \* sectors of an image (200, 400 or 800)
  SectorValues,    \* what the guest writes to the sector register
  Commands         \* the commands the guest gives

ASSUME LengthsAssumption == /\ SectorLen \in Nat /\ IdLen \in 1 .. SectorLen
                            /\ OobLen \in 1 .. SectorLen
ASSUME GeometryAssumption == /\ SectorsPerTrack \in Nat \ {0}
                             /\ TrackWrap \in Nat \ {0} /\ ImageSectors \in Nat
                             /\ SectorValues \subseteq Nat
ASSUME CommandsAssumption ==
  Commands \subseteq {"restore", "step", "read", "address", "interrupt", "oob"}

VARIABLES
  mounted,         \* drives that hold an image, fixed when the program starts
  disksys_light,   \* drive select: 1 and 2 are drives 0 and 1
  trk, sec, stat,  \* registers; stat is the set of its flags
  mode,            \* "RDSEC" while a buffer is being read
  buf, bufptr, buflen,
  dead,            \* the program stopped on a null file
  asked,           \* history: the source the last transfer is to deliver
  delivered,       \* history: bytes of it the guest has read
  out              \* history: what the last read of the data port returned

regVars == <<trk, sec, disksys_light>>
bufVars == <<mode, buf, bufptr, buflen>>
histVars == <<asked, delivered, out>>
vars == <<mounted, regVars, stat, bufVars, dead, histVars>>

Drives == {0, 1}
Flags == {"ENRDY", "ESEEK", "DRQ", "BUSY"}
Selected == IF disksys_light \in {1, 2} THEN disksys_light - 1 ELSE 2

\* Offset of a sector in the image, in sectors.
Lba(t, s) == t * SectorsPerTrack + (s - 1)

Sector(d, lba) == <<"sector", d, lba>>
Address == <<"address", 0, 0>>
Oob == <<"oob", 0, 0>>
Nothing == <<"nothing", 0, 0>>

\* The buffer after n bytes of a source were copied to its start.
Filled(src, n) == [i \in 0 .. SectorLen - 1 |-> IF i < n THEN <<src, i>> ELSE buf[i]]

\* fread past the end of the image returns nothing and leaves the buffer.
AfterRead(d, lba) == IF lba < ImageSectors THEN Filled(Sector(d, lba), SectorLen) ELSE buf

Init ==
  /\ mounted \in SUBSET Drives
  /\ disksys_light = 0 /\ trk = 0 /\ sec = 0 /\ stat = {}
  /\ mode = "NONE" /\ bufptr = 0 /\ buflen = 0
  /\ buf = [i \in 0 .. SectorLen - 1 |-> <<Nothing, i>>]
  /\ dead = FALSE /\ asked = Nothing /\ delivered = 0 /\ out = <<Nothing, 0>>

-----------------------------------------------------------------------------
\* Writes of the drive select, track and sector registers.
Select(l) == /\ ~dead /\ disksys_light' = l
             /\ UNCHANGED <<mounted, trk, sec, stat, bufVars, dead, histVars>>
WriteTrack(t) == /\ ~dead /\ trk' = t
                 /\ UNCHANGED <<mounted, sec, disksys_light, stat, bufVars, dead, histVars>>
WriteSector(s) == /\ ~dead /\ sec' = s
                  /\ UNCHANGED <<mounted, trk, disksys_light, stat, bufVars, dead, histVars>>

\* Write of the command register: disksys_do.
Command(c) == c \in Commands /\ ~dead /\ UNCHANGED <<mounted, sec, disksys_light>>

Restore == /\ Command("restore")
           /\ trk' = 0 /\ stat' = stat \ {"BUSY", "ENRDY"}
           /\ UNCHANGED <<bufVars, dead, histVars>>

\* The track register counts in a byte; the first lets it run on.
NextTrackUnwrapped == trk + 1
NextTrack == (trk + 1) % TrackWrap

StepIn == /\ Command("step")
          /\ trk' = NextTrack
          /\ UNCHANGED <<stat, bufVars, dead, histVars>>

Interrupt == /\ Command("interrupt")
             /\ stat' = stat \ {"BUSY", "ENRDY"}
             /\ UNCHANGED <<trk, bufVars, dead, histVars>>

\* Start delivering `src`: a transfer of n bytes from the front of the buffer.
Transfer(src, n) == /\ mode' = "RDSEC" /\ buflen' = n
                    /\ asked' = src /\ delivered' = 0 /\ UNCHANGED out

\* The read command without the test of its sector number.
ReadErrorUnchecked == IF Selected \notin Drives THEN {"ENRDY"} ELSE {}
ReadError == IF Selected \notin Drives THEN {"ENRDY"}
             ELSE IF sec \notin 1 .. SectorsPerTrack THEN {"ESEEK"} ELSE {}

ReadSectorFails ==
  /\ Command("read") /\ ReadError # {}
  /\ stat' = (stat \ {"ENRDY", "ESEEK"}) \cup ReadError
  /\ UNCHANGED <<trk, bufVars, dead, histVars>>

ReadSector ==
  /\ Command("read") /\ ReadError = {} /\ Selected \in mounted
  /\ stat' = (stat \ {"ENRDY", "ESEEK"}) \cup {"DRQ", "BUSY"}
  /\ buf' = AfterRead(Selected, Lba(trk, sec))
  /\ bufptr' = 0
  /\ Transfer(Sector(Selected, Lba(trk, sec)), SectorLen)
  /\ UNCHANGED <<trk, dead>>

\* An empty drive passes the tests too, and fseek gets a null file: the program
\* stops, or reads nothing and goes on.
ReadSectorEmptyDrive ==
  /\ Command("read") /\ ReadError = {} /\ Selected \notin mounted
  /\ \/ dead' = TRUE /\ UNCHANGED <<stat, bufVars, histVars>>
     \/ /\ stat' = (stat \ {"ENRDY", "ESEEK"}) \cup {"DRQ", "BUSY"}
        /\ bufptr' = 0 /\ UNCHANGED <<buf, dead>>
        /\ Transfer(Nothing, SectorLen)
  /\ UNCHANGED trk

\* 0xC0 fills six bytes but neither rewinds the buffer nor raises a flag.
ReadAddress ==
  /\ Command("address")
  /\ buf' = Filled(Address, IdLen)
  /\ Transfer(Address, IdLen)
  /\ UNCHANGED <<trk, stat, bufptr, dead>>

\* 0xE0 without its rewind.
OobPointerKept == bufptr
OobPointer == 0

ReadOob ==
  /\ Command("oob")
  /\ stat' = stat \cup {"DRQ", "BUSY"}
  /\ buf' = Filled(Oob, OobLen)
  /\ bufptr' = OobPointer
  /\ Transfer(Oob, OobLen)
  /\ UNCHANGED <<trk, dead>>

\* The flags left when a transfer ends; the first forgets BUSY.
DoneKeepsBusy == stat \ {"DRQ"}
Done == stat \ {"DRQ", "BUSY"}

\* Read of the data port.  The last byte of the buffer ends the transfer and
\* the data register is returned in its place; with no transfer it is what every
\* read returns.  A pointer past the buffer keeps moving; it is not followed
\* beyond SectorLen.
ReadData == ~dead /\ UNCHANGED <<mounted, regVars, dead, asked>>

ReadLastByte ==
  /\ ReadData /\ mode = "RDSEC" /\ bufptr = buflen - 1
  /\ mode' = "NONE" /\ stat' = Done /\ out' = <<Nothing, 0>>
  /\ UNCHANGED <<buf, bufptr, buflen, delivered>>

\* buf[bufptr++]; the first gives the byte after the increment.
ByteAfter == buf[bufptr + 1]
Byte == IF bufptr \in DOMAIN buf THEN buf[bufptr] ELSE <<Nothing, 0>>

ReadNextByte ==
  /\ ReadData /\ mode = "RDSEC" /\ bufptr # buflen - 1
  /\ out' = Byte
  /\ bufptr' = IF bufptr < SectorLen THEN bufptr + 1 ELSE bufptr
  /\ delivered' = IF delivered < SectorLen THEN delivered + 1 ELSE delivered
  /\ UNCHANGED <<mode, stat, buf, buflen>>

ReadNoTransfer ==
  /\ ReadData /\ mode = "NONE" /\ out' = <<Nothing, 0>>
  /\ UNCHANGED <<stat, bufVars, delivered>>

\* disksys_tick during a transfer would clear the flag; the code tests mode.
TickFlagsAlways == IF Selected \in mounted THEN stat \cup {"DRQ"} ELSE stat \ {"DRQ"}
TickFlagsNever == IF mode = "NONE" THEN stat \ {"DRQ"} ELSE stat
TickFlags == IF mode # "NONE" THEN stat ELSE
             IF Selected \in mounted THEN stat \cup {"DRQ"} ELSE stat \ {"DRQ"}

Tick == /\ ~dead /\ stat' = TickFlags
        /\ UNCHANGED <<mounted, regVars, bufVars, dead, histVars>>

Stopped == dead /\ UNCHANGED vars

GiveCommand == \/ Restore \/ StepIn \/ Interrupt \/ ReadSectorFails \/ ReadSector
               \/ ReadSectorEmptyDrive \/ ReadAddress \/ ReadOob

Other == \/ \E l \in 0 .. 3 : Select(l)
         \/ \E t \in 0 .. TrackWrap - 1 : WriteTrack(t)
         \/ \E s \in SectorValues : WriteSector(s)
         \/ ReadLastByte \/ ReadNextByte \/ ReadNoTransfer \/ Tick
         \/ Stopped

Next == GiveCommand \/ Other

Spec == Init /\ [][Next]_vars

\* The main loop ticks once per scanline; a driver that was given a transfer goes on
\* reading the data port.
FairSpec == Spec /\ WF_vars(Tick) /\ WF_vars(ReadLastByte) /\ WF_vars(ReadNextByte)

-----------------------------------------------------------------------------
\* Registers, flags and buffer stay in range.
TypeOK ==
  /\ mounted \in SUBSET Drives /\ disksys_light \in 0 .. 3
  /\ trk \in 0 .. TrackWrap - 1 /\ sec \in SectorValues \cup {0}
  /\ stat \in SUBSET Flags /\ mode \in {"NONE", "RDSEC"}
  /\ bufptr \in 0 .. SectorLen /\ buflen \in 0 .. SectorLen
  /\ DOMAIN buf = 0 .. SectorLen - 1
  /\ dead \in BOOLEAN /\ delivered \in 0 .. SectorLen

\* The controller is busy only while there is a buffer to read, so a guest that
\* waits for BUSY to clear by reading data is not waiting for nothing.
BusyHasTransfer == "BUSY" \in stat => mode = "RDSEC"

\* During a transfer DRQ stays up: the index flag that shares its bit may not
\* pull it down from a scanline in between.
DrqThroughTransfer == "BUSY" \in stat => "DRQ" \in stat

\* So a guest that polls BUSY and DRQ finds both, and something to read, until it has
\* read it (disk.c:60-81, 180, 229).
BusyIsServed == BusyHasTransfer /\ DrqThroughTransfer

\* A transfer reads inside its buffer, and the pointer counts what was read; all
\* but that of the address field, even one started after it.
PointerInBuffer ==
  mode = "RDSEC" /\ asked # Address => bufptr < buflen /\ bufptr = delivered

\* A source that has the bytes: not an empty drive or a place past the image.
\* The address field is left out: its command does not rewind the pointer
\* (disk.c:138-147), so after a transfer the guest reads other bytes.
Deliverable(src) == /\ src \notin {Nothing, Address}
                    /\ src[1] = "sector" => src[3] < ImageSectors

\* What the guest has read so far in a transfer that goes on are the bytes of what it
\* asked for, in order, whatever it did to the registers, the drive select or a failing
\* command since.  The read that ends the transfer is not among them: it returns the
\* data register (disk.c:178).
DeliversAsked ==
  mode = "RDSEC" /\ delivered > 0 /\ Deliverable(asked)
    => out = <<asked, delivered - 1>>

\* A read goes to the track and sector of the registers: no two sectors of a
\* drive share a place of its image.
ReadsRightSector ==
  [][ReadSector => /\ asked'[3] \div SectorsPerTrack = trk
                   /\ asked'[3] % SectorsPerTrack = sec - 1]_vars

\* disk.c:110: a read command delivers all 0x400 bytes of the sector.
WholeSector ==
  [][mode = "RDSEC" /\ mode' = "NONE" => delivered = buflen]_vars

\* A transfer that is read comes to its end, whatever the guest does to the other
\* registers and drives, unless it gives commands in the middle of transfers for ever;
\* all but that of the address field, whose command leaves the pointer where the
\* transfer before had it (disk.c:138-147, 178-188).
TransferEnds ==
  \/ []<><<GiveCommand /\ "BUSY" \in stat>>_vars
  \/ "BUSY" \in stat ~> ("BUSY" \notin stat \/ asked = Address \/ dead)

Idle == mode = "NONE" /\ Selected \in mounted

\* disk.c:60-62: the guest can tell from the index flag that a disk is present.
PresentDiskSeen == Idle ~> ("DRQ" \in stat \/ ~Idle \/ dead)

\* What a driver waits for comes: the end of its transfer, and the sign of a disk.
DriverGoesOn == TransferEnds /\ PresentDiskSeen
=============================================================================
