-------------------------------- MODULE FatShell --------------------------------
(*******************************************************************************)
(* fat/fat.c: the prompt and its commands over an image that does not change.  *)
(* A step of a command is one turn of its innermost loop, with the fseek and   *)
(* fread in it.  Printing is reduced to what is printed.                       *)
(*******************************************************************************)
EXTENDS FatImage

CONSTANTS
  RootSector,    \* root_directory_offset, in sectors
  StackFrames    \* calls of print_tree that the process' stack has room for

ASSUME ShellAssumption == {RootSector, StackFrames} \subseteq Nat \ {0}

VARIABLES
  tree,                       \* the image
  current_directory_entry,    \* its starting_cluster
  current_directory_offset,   \* in sectors
  current_directory,          \* the path in the prompt
  pc,        \* "prompt", "scan" (a directory), "copy" (a file), "exited"
  cmd,       \* the command that runs or was the last to run
  frames,    \* scans of directories, of calls of print_tree the innermost first
  pos,       \* the position in the image: <<cluster or Root, number of the entry>>
  file,      \* current_cluster of the file and bytes not yet read
  output     \* what the command has printed

vars == <<tree, current_directory_entry, current_directory_offset, current_directory,
          pc, cmd, frames, pos, file, output>>
directory_vars == <<current_directory_entry, current_directory_offset, current_directory>>

AtRoot == current_directory_offset = RootSector

Frame(d) == [dir |-> d, cluster |-> d, i |-> 0]

(* main: the first tree is printed before the first prompt.                    *)
Init ==
  /\ tree \in Trees
  /\ current_directory_entry = 0
  /\ current_directory_offset = RootSector
  /\ current_directory = <<"root">>
  /\ pc = "scan"
  /\ cmd = [op |-> "tree", name |-> ""]
  /\ frames = <<Frame(Root)>>
  /\ pos = <<Root, 0>>
  /\ file = [cluster |-> 0, left |-> 0]
  /\ output = <<>>

-------------------------------------------------------------------------------
(* The prompt.                                                                 *)

Arguments ==
  [op : {"ls", "info", "tree"}, name : {""}] \cup [op : {"read"}, name : Names]
    \cup [op : {"cd"}, name : Names \cup {".", ".."}]

Command(a) ==
  /\ pc = "prompt"
  /\ LET d == IF a.op \in {"info", "tree"} \/ AtRoot THEN Root ELSE current_directory_entry
     IN frames' = <<Frame(d)>> /\ pos' = <<d, 0>>
  /\ cmd' = a
  /\ pc' = "scan"
  /\ output' = <<>>
  /\ UNCHANGED <<tree, directory_vars, file>>

Exit ==
  /\ pc = "prompt"
  /\ pc' = "exited"
  /\ UNCHANGED <<tree, directory_vars, cmd, frames, pos, file, output>>

-------------------------------------------------------------------------------
(* Scanning a directory.                                                       *)

is_end_of_chain(c) == c >= EndOfChain

Scan   == Head(frames)
InRoot == Scan.dir = Root

(* fread at pos.  Outside of directories it may find anything.                 *)
EntriesAt(p) ==
  IF \/ p[1] = Root /\ p[2] < RootEntries
     \/ p[1] \in Clusters /\ p[2] < PerCluster
  THEN {Slot(tree, p[1], p[2])}
  ELSE {Free} \cup {Entry(tree, c) : c \in Items}

More ==
  /\ pc = "scan"
  /\ Scan.i < IF InRoot THEN RootEntries ELSE PerCluster
  /\ ~is_end_of_chain(Scan.cluster)

Advanced == <<[Scan EXCEPT !.i = @ + 1]>> \o Tail(frames)
Advance  == frames' = Advanced /\ pos' = <<pos[1], pos[2] + 1>>

ListEntry ==
  /\ More
  /\ cmd.op \in {"ls", "info"}
  /\ Advance
  /\ \E e \in EntriesAt(pos) :
       output' = IF e = Free THEN output ELSE Append(output, e.name)
  /\ UNCHANGED <<tree, directory_vars, pc, cmd, file>>

(* Mutant of IsDirectory: the attribute is not looked at.                      *)
IsDirectory_Any(e) == e # Free

IsDirectory(e) == e # Free /\ e.kind = "dir"

(* Mutant of RemoveRight: the path is left alone.                              *)
RemoveRight_None(path) == path

(* remove_right_including(path, '/').                                          *)
RemoveRight(path) == IF path = <<>> THEN path ELSE Front(path)

(* The directory is entered.  Below the root the return at 168 comes before    *)
(* the path is extended.                                                       *)
Enter(e) ==
  /\ current_directory_entry' = e.first
  /\ IF ~AtRoot /\ e.first = 0
       THEN /\ current_directory_offset' = RootSector
            /\ current_directory' = RemoveRight(current_directory)
       ELSE /\ current_directory_offset' = e.first
            /\ current_directory' = IF AtRoot THEN Append(current_directory, cmd.name)
                                    ELSE current_directory

CdEntry ==
  /\ More
  /\ cmd.op = "cd"
  /\ \E e \in EntriesAt(pos) :
       \/ /\ IsDirectory(e) /\ e.name = cmd.name
          /\ Enter(e)
          /\ pc' = "prompt"
          /\ UNCHANGED <<frames, pos>>
       \/ /\ ~(IsDirectory(e) /\ e.name = cmd.name)
          /\ Advance
          /\ UNCHANGED <<directory_vars, pc>>
  /\ UNCHANGED <<tree, cmd, file, output>>

(* strncmp over as many bytes as there are in the entry before its first zero: *)
(* the attributes after the name are compared with a blank, 0x20, or end the   *)
(* comparison if they are zero.                                                *)
Matches(e) == e.name = cmd.name /\ e.kind \in {"file", "empty"}

ReadEntry ==
  /\ More
  /\ cmd.op = "read"
  /\ \E e \in EntriesAt(pos) :
       \/ /\ Matches(e)
          /\ file' = [cluster |-> e.first, left |-> e.size]
          /\ pc' = "copy"
          /\ UNCHANGED <<frames, pos>>
       \/ /\ ~Matches(e)
          /\ Advance
          /\ UNCHANGED <<pc, file>>
  /\ UNCHANGED <<tree, directory_vars, cmd, output>>

(* Mutant of Shown: . is not left out.                                         *)
Shown_Dot(e) == InRoot \/ ~(e.kind = "dir" /\ e.first = 0)

(* Below the root an entry is skipped if it is the directory itself or the     *)
(* root.                                                                       *)
Shown(e) == InRoot \/ (e.first # Scan.dir /\ ~(e.kind = "dir" /\ e.first = 0))

(* print_tree prints the entry and calls itself for a directory.  A process    *)
(* that has no room for the call has died.                                     *)
TreeEntry ==
  /\ More
  /\ cmd.op = "tree"
  /\ \E e \in EntriesAt(pos) :
       LET shown == e # Free /\ Shown(e)
       IN /\ output' = IF shown THEN Append(output, <<Len(frames), e.name>>) ELSE output
          /\ \/ /\ shown /\ e.kind = "dir"
                /\ Len(frames) < StackFrames
                /\ frames' = <<Frame(e.first)>> \o Advanced
                /\ pos' = <<e.first, 0>>
             \/ /\ ~(shown /\ e.kind = "dir")
                /\ Advance
  /\ UNCHANGED <<tree, directory_vars, pc, cmd, file>>

(* get_next_cluster; what is no cluster has no entry in the table.             *)
NextOf(c) == IF c \in Clusters THEN {Fat(c)} ELSE Clusters \cup {EndOfChain}

(* Mutant of NextCluster: the directory ends with its first cluster.           *)
NextCluster_None ==
  /\ pc = "scan"
  /\ ~InRoot /\ Scan.i = PerCluster /\ ~is_end_of_chain(Scan.cluster)
  /\ frames' = <<[dir |-> Scan.dir, cluster |-> EndOfChain, i |-> 0]>> \o Tail(frames)
  /\ pos' = <<EndOfChain, 0>>
  /\ UNCHANGED <<tree, directory_vars, pc, cmd, file, output>>

(* All entries of a cluster have been read.  At the end of the chain pos is    *)
(* somewhere in the table.                                                     *)
NextCluster ==
  /\ pc = "scan"
  /\ ~InRoot /\ Scan.i = PerCluster /\ ~is_end_of_chain(Scan.cluster)
  /\ \E c \in NextOf(Scan.cluster) :
       /\ frames' = <<[dir |-> Scan.dir, cluster |-> c, i |-> 0]>> \o Tail(frames)
       /\ pos' = <<c, 0>>
  /\ UNCHANGED <<tree, directory_vars, pc, cmd, file, output>>

(* Mutant of SeekBack: the fseek after the recursive call is missing.          *)
SeekBack_Missing == UNCHANGED pos

(* The caller's fseek to the entry after the one it has passed.                *)
SeekBack == pos' = <<frames[2].cluster, frames[2].i>>

NotFound == <<<<Root, 0>>>>   \* "File not found"

EndOfDirectory ==
  /\ pc = "scan"
  /\ IF InRoot THEN Scan.i = RootEntries ELSE is_end_of_chain(Scan.cluster)
  /\ IF Len(frames) > 1
       THEN frames' = Tail(frames) /\ SeekBack /\ UNCHANGED pc
       ELSE pc' = "prompt" /\ UNCHANGED <<frames, pos>>
  /\ output' = IF cmd.op = "read" THEN NotFound ELSE output
  /\ UNCHANGED <<tree, directory_vars, cmd, file>>

-------------------------------------------------------------------------------
(* Copying a file.                                                             *)

(* In the root directory another test ends the loop than below it (239, 274).  *)
NoMoreClusters == IF AtRoot THEN file.cluster >= Marker ELSE is_end_of_chain(file.cluster)

(* Mutant of BytesToRead: the last cluster, too, is printed whole.             *)
BytesToRead_Whole == ClusterSize

BytesToRead == IF file.left < ClusterSize THEN file.left ELSE ClusterSize

CopyCluster ==
  /\ pc = "copy"
  /\ ~NoMoreClusters
  /\ file.left > 0
  /\ output' = Append(output, <<file.cluster, BytesToRead>>)
  /\ \E c \in NextOf(file.cluster) :
       file' = [cluster |-> c, left |-> file.left - BytesToRead]
  /\ UNCHANGED <<tree, directory_vars, pc, cmd, frames, pos>>

EndOfFile ==
  /\ pc = "copy"
  /\ NoMoreClusters \/ file.left <= 0
  /\ pc' = "prompt"
  /\ UNCHANGED <<tree, directory_vars, cmd, frames, pos, file, output>>

-------------------------------------------------------------------------------
Work ==
  \/ ListEntry \/ CdEntry \/ ReadEntry \/ TreeEntry
  \/ NextCluster \/ EndOfDirectory
  \/ CopyCluster \/ EndOfFile

Next == Work \/ Exit \/ \E a \in Arguments : Command(a)

Spec     == Init /\ [][Next]_vars
FairSpec == Spec /\ WF_vars(Work)   \* the process runs

-------------------------------------------------------------------------------
(* Properties.                                                                 *)

(* The directory that was entered last.                                        *)
Here == current_directory_entry

Done(op) == pc = "prompt" /\ cmd.op = op

ScanFrames(t) ==
  [dir : Dirs(t) \cup {Root}, cluster : Clusters \cup {Root, EndOfChain}, i : Nat]

TypeOK ==
  /\ tree \in Trees
  /\ Here \in Dirs(tree) \cup {Root}
  /\ current_directory_offset = IF Here = Root THEN RootSector ELSE Here
  /\ pc \in {"prompt", "scan", "copy", "exited"}
  /\ cmd \in Arguments
  /\ frames \in Seq(ScanFrames(tree))
  /\ Len(frames) \in 1 .. 2
  /\ file \in [cluster : Clusters \cup {0} \cup Marker .. EndOfChain, left : Nat]

(* ls prints the directory entered last, all its clusters, and nothing else,   *)
(* whatever commands came before.                                              *)
ListsDirectory == Done("ls") => output = Listing(tree, Here)

(* read prints the bytes, cluster by cluster, of the ordinary file of that     *)
(* name in the current directory, none left out and none doubled, and never    *)
(* anything of another file.                                                   *)
Named == {c \in Children(tree, Here) : /\ tree.name[c] = cmd.name
                                      /\ tree.kind[c] \in {"file", "empty"}}
ReadsFile ==
  Done("read") =>
    /\ \A c \in Named : output = Data(tree, c)
    /\ output # NotFound =>
         \E c \in Children(tree, Here) : tree.name[c] = cmd.name /\ output = Data(tree, c)

(* The prompt's path names the current directory after every sequence of cd.   *)
PathOf(d) == IF d = Root THEN <<"root">> ELSE <<"root", tree.name[d]>>
PromptNamesDirectory == current_directory = PathOf(Here)

(* tree prints each name once, in the order and on the level it has, although  *)
(* the calls share one position in the file.                                   *)
TreeShowsAll == Done("tree") => output = Outline(tree)

-------------------------------------------------------------------------------
(* Why they hold.                                                              *)

(* A scan is at an entry of its directory or at the end of its chain.          *)
Placed(f) ==
  \/ f.dir = Root /\ f.cluster = Root /\ f.i \in 0 .. RootEntries
  \/ f.dir # Root /\ f.cluster \in ToSet(Chain[f.dir]) /\ f.i \in 0 .. PerCluster
  \/ f.dir # Root /\ f.cluster = EndOfChain /\ f.i = 0

(* How many entries of the directory it has passed.                            *)
Passed(f) ==
  IF f.dir = Root THEN f.i
  ELSE IF is_end_of_chain(f.cluster) THEN Len(Chain[f.dir]) * PerCluster
  ELSE (Place(f.cluster) - 1) * PerCluster + f.i

Before(s, n) == SubSeq(s, 1, IF n < Len(s) THEN n ELSE Len(s))

(* The directories from which it was called, and the position in the image.    *)
Nesting ==
  pc = "scan" =>
    /\ \A k \in DOMAIN frames : Placed(frames[k])
    /\ is_end_of_chain(Scan.cluster) \/ pos = <<Scan.cluster, Scan.i>>
    /\ IF Len(frames) = 2 THEN cmd.op = "tree" /\ Scan.dir # Root /\ frames[2].dir = Root
       ELSE Scan.dir = IF cmd.op \in {"info", "tree"} \/ AtRoot THEN Root ELSE Here

(* What has come of the entries that were passed.                              *)
Searching ==
  pc = "scan" =>
    /\ cmd.op = "ls" => output = Before(Listing(tree, Here), Passed(Scan))
    /\ cmd.op = "read" => output = <<>>
    /\ \A i \in DOMAIN Contents(tree, Here) :
         LET e == Contents(tree, Here)[i]
         IN i <= Passed(Scan) =>
              /\ cmd.op = "cd" => ~(IsDirectory(e) /\ e.name = cmd.name)
              /\ cmd.op = "read" => ~Matches(e)

(* How far the file has been copied.                                           *)
CopyOf(c) ==
  \/ /\ tree.kind[c] = "empty"
     /\ file = [cluster |-> 0, left |-> 0] /\ output = <<>>
  \/ /\ tree.kind[c] = "file"
     /\ \E k \in 1 .. Len(Chain[c]) :
          /\ file = [cluster |-> Chain[c][k],
                     left |-> ClusterSize * (Len(Chain[c]) - k + 1) - 1]
          /\ output = Before(Data(tree, c), k - 1)
  \/ /\ tree.kind[c] = "file"
     /\ file = [cluster |-> EndOfChain, left |-> 0] /\ output = Data(tree, c)

Copying == pc = "copy" => cmd.op = "read" /\ \E c \in Named : CopyOf(c)

(* The tree without nesting: the rows of what is in a directory and in the     *)
(* root, and what has been printed of them when n entries have been passed.    *)
Within(t, d) == [i \in DOMAIN InOrder(t, d) |-> <<2, t.name[InOrder(t, d)[i]]>>]
Branch(t, c) ==
  <<<<1, t.name[c]>>>> \o (IF t.kind[c] = "dir" THEN Within(t, c) ELSE <<>>)
Branches(t) == [i \in DOMAIN InOrder(t, Root) |-> Branch(t, InOrder(t, Root)[i])]

Drawn(t, n) == FlattenSeq(Before(Branches(t), n))
DrawnWithin(t, d, n) ==
  <<<<1, t.name[d]>>>> \o Before(Within(t, d), IF n < 2 THEN 0 ELSE n - 2)

(* Which directory the inner call prints, and how far both calls have come.    *)
Drawing ==
  pc = "scan" /\ cmd.op = "tree" =>
    IF Len(frames) = 1 THEN output = Drawn(tree, Scan.i)
    ELSE LET n == frames[2].i
         IN /\ n \in DOMAIN InOrder(tree, Root) /\ Scan.dir = InOrder(tree, Root)[n]
            /\ output = Drawn(tree, n - 1) \o DrawnWithin(tree, Scan.dir, Passed(Scan))

(* The invariant that a step keeps, for directories in the root only and       *)
(* chains that end as is_end_of_chain has it.                                  *)
SearchInv ==
  /\ TypeOK
  /\ PromptNamesDirectory
  /\ Nesting
  /\ Searching
  /\ Copying
  /\ ListsDirectory
  /\ ReadsFile

IInv == SearchInv /\ Drawing /\ TreeShowsAll

(* cd goes where the name leads in the directory that is current, and stays    *)
(* where it is if the name is of no directory; nothing else moves.             *)
CdFollowsTree ==
  [][Here' = IF cmd.op = "cd" /\ pc = "scan" /\ pc' = "prompt"
             THEN Resolve(tree, Here, cmd.name) ELSE Here]_vars

(* Every command comes back to the prompt, and so does the tree printed at the *)
(* start.                                                                      *)
CommandsEnd == pc \in {"scan", "copy"} ~> pc = "prompt"

(* What the help says of tree: "show directory tree".  No directory is printed *)
(* inside itself.                                                              *)
NeverInsideItself == \A j, k \in DOMAIN frames : frames[j].dir = frames[k].dir => j = k
===============================================================================
