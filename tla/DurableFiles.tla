---------------------------- MODULE DurableFiles ----------------------------
(***************************************************************************)
(* What the file system promises across crashes.  "disk" is what a mount   *)
(* would find if the machine stopped now: the file behind each name and    *)
(* the extents of each file.  "promise" is what callers have been told of  *)
(* a name: the file it denotes, that it denotes none, or nothing yet.      *)
(* A caller asks for a change (Request), the disk changes at some point of *)
(* its own choosing, in one piece (Change), and the caller is told (Reply).*)
(***************************************************************************)
EXTENDS Integers, Sequences

CONSTANTS
    Names,      \* names of files
    MaxFileId   \* file identities are 1..MaxFileId

FileIds == 1..MaxFileId

NoFile == 0      \* the file behind a name that does not exist
Unknown == -1    \* no promise is made of a name

VARIABLES
    disk,        \* [files, exts]: what a mount finds
    promise      \* [Names -> FileIds \cup {NoFile, Unknown}]

dvars == <<disk, promise>>

(***************************************************************************)
(* An extent is a numbered piece of a file and the copy of it that a       *)
(* migration has made.  A list covers another one if it has all its pieces *)
(* at their places, in the same copy or a later one.                       *)
(***************************************************************************)
Covers(new, was) ==
    /\ Len(was) <= Len(new)
    /\ \A i \in DOMAIN was : new[i].n = was[i].n /\ new[i].copy >= was[i].copy

Init ==
    /\ disk = [files |-> [n \in Names |-> NoFile], exts |-> [i \in FileIds |-> << >>]]
    /\ promise = [n \in Names |-> Unknown]

\* Callers ask for changes of some names: the promises made of them end.
Request ==
    /\ \E N \in SUBSET Names :
         promise' = [n \in Names |-> IF n \in N THEN Unknown ELSE promise[n]]
    /\ UNCHANGED disk

\* One name is removed, or one file moves to another name, or neither;
\* files may appear under unused names at the same time.
OneChange(was, new) ==
    \E g \in Names : \A n \in Names \ {g} : was[n] # NoFile => new[n] = was[n]

\* The disk changes in one step, only at names without a promise, and no file
\* that keeps a name loses a piece.
Change ==
    /\ disk'.files # disk.files => OneChange(disk.files, disk'.files)
    /\ \A n \in Names : promise[n] # Unknown => disk'.files[n] = disk.files[n]
    /\ \A n \in Names : \A i \in FileIds :
         disk.files[n] = i /\ (\E m \in Names : disk'.files[m] = i)
            => Covers(disk'.exts[i], disk.exts[i])
    /\ UNCHANGED promise

\* Callers are told what the disk holds.
Reply ==
    /\ \E N \in SUBSET Names :
         promise' = [n \in Names |-> IF n \in N THEN disk.files[n] ELSE promise[n]]
    /\ UNCHANGED disk

Next == Request \/ Change \/ Reply

Spec == Init /\ [][Next]_dvars

=============================================================================
