----------------------------- MODULE SourceFiles -----------------------------
(***************************************************************************)
(* The source directory of a transfer (internal/sourcefiles): the owner of *)
(* its descriptor, the scan that freezes its logical tree one system call  *)
(* at a time, with or without following symbolic links, and the lease      *)
(* through which the frozen entries are opened later.  Other programs move *)
(* and rewrite the files meanwhile.                                        *)
(*                                                                         *)
(* A sourceIdentity (device, inode, kind) is the object itself.  Names are *)
(* positive numbers, ordered as the strings are.  Descriptors are counted, *)
(* not named.                                                              *)
(***************************************************************************)
EXTENDS Integers, Sequences, SequencesExt, FiniteSets, FiniteSetsExt

CONSTANTS
  Dirs, Files, Links, Specials,   \* the objects of the file system
  Slash,                          \* the root of the file system
  SourceName,                     \* the name of the source directory in it
  Names,                          \* the names an entry may have
  Nil,                            \* no object
  MaxLinks,                       \* maximumSourceSymlinkDepth
  Sizes                           \* the sizes a file may get

Up == 0        \* the component ".."
Here == -1     \* a component "" or "."
Components == Names \cup {Up, Here}
Objects == Dirs \cup Files \cup Links \cup Specials

ASSUME SourceAssumption ==
  /\ Slash \in Dirs /\ SourceName \in Names
  /\ Names \subseteq Nat \ {Up} /\ Sizes \subseteq Nat
  /\ MaxLinks \in Nat \ {0} /\ Nil \notin Objects

VARIABLES
  entries,   \* the object each name of each directory denotes
  size,      \* the size of each file
  target,    \* the text of each symbolic link: [abs, comps, slash], slash if it ends in "/"
  touched,   \* the slots <<directory, name>> that changed, and <<file, 0>> if it was rewritten
  retouched, \* the slots that changed more than once
  changes,   \* changes other programs may still make
  faults,    \* system calls that may still fail, cancellations that may still come
  cancelled, \* the context of the run is cancelled
  root,      \* the SourceRoot
  follow,    \* followSymlinks
  spc,       \* where Scan stands
  stack,     \* the activations of scanDirectory, the source first
  item,      \* the entry that is being captured: its name and its identity
  walk,      \* the sourceSymlinkWalk
  captured,  \* the logical entries captured so far
  scanned,   \* what Scan returned: "none", "snapshot", "empty" (ErrNoTransferItems), an "error"
             \* it found in the tree, or a "fault": a failed call or the cancellation
  lease,     \* the SourceAccess: the directories it may open from, or none
  handles,   \* the files opened through the lease
  fds        \* descriptors open

treeVars == <<entries, size, touched, retouched, changes>>
scanVars == <<spc, stack, item, walk, captured, scanned>>
useVars == <<lease, handles>>
sourceVars == <<treeVars, target, follow, faults, cancelled, root, scanVars, useVars, fds>>

NoItem == [name |-> SourceName, id |-> Nil]
NoWalk == [dir |-> Nil, comps |-> <<>>, needDir |-> FALSE, followed |-> 0,
           id |-> Nil, text |-> Nil]
ClosedRoot == [state |-> "closed", scanned |-> FALSE, borrows |-> 0,
               anchors |-> <<>>, dir |-> Nil]

Kind(object) ==
  CASE object \in Dirs -> "directory"
    [] object \in Files -> "file"
    [] object \in Links -> "link"
    [] OTHER -> "special"

\* The directory that holds d.
Parent(d) == IF d = Slash THEN Slash
             ELSE CHOOSE e \in Dirs : \E n \in Names : entries[e][n] = d

Lookup(d, component) == IF component = Up THEN Parent(d) ELSE entries[d][component]

NamesIn(d) == {n \in Names : entries[d][n] # Nil}
Contents(d) == {<<n, entries[d][n]>> : n \in NamesIn(d)}

SourceInit(s) ==
  /\ entries = s.entries /\ size = s.size /\ target = s.target
  /\ changes = s.changes /\ faults = s.faults /\ follow = s.follow
  /\ touched = {} /\ retouched = {} /\ cancelled = FALSE
  /\ root = ClosedRoot
  /\ spc = "idle" /\ stack = <<>> /\ item = NoItem /\ walk = NoWalk
  /\ captured = {} /\ scanned = "none"
  /\ lease = <<>> /\ handles = {} /\ fds = 0

-----------------------------------------------------------------------------
(* Other programs                                                          *)

\* The directories on the way from the root of the file system to d, in e.
Within(e, d) ==
  LET Climb[k \in 0..Cardinality(Dirs)] ==
        IF k = 0 THEN {d}
        ELSE Climb[k - 1] \cup {p \in Dirs : \E n \in Names : e[p][n] \in Climb[k - 1]}
  IN Climb[Cardinality(Dirs)]

\* Two names exchange what they denote: a file or directory is moved, and with
\* a name that denotes nothing created in the tree or taken out of it.
Exchange(d, n, e, m) ==
  /\ changes > 0 /\ <<d, n>> # <<e, m>> /\ entries[d][n] # entries[e][m]
  /\ LET moved == [entries EXCEPT ![d][n] = entries[e][m], ![e][m] = entries[d][n]]
     IN /\ \A dir \in Dirs : Slash \in Within(moved, dir)
        /\ entries' = moved
  /\ touched' = touched \cup {<<d, n>>, <<e, m>>}
  /\ retouched' = retouched \cup (touched \cap {<<d, n>>, <<e, m>>})
  /\ changes' = changes - 1
  /\ UNCHANGED <<size, target, follow, faults, cancelled, root, scanVars, useVars, fds>>

WriteFile(f, bytes) ==
  /\ changes > 0 /\ bytes # size[f]
  /\ size' = [size EXCEPT ![f] = bytes] /\ touched' = touched \cup {<<f, 0>>}
  /\ changes' = changes - 1
  /\ UNCHANGED <<entries, retouched, target, follow, faults, cancelled, root, scanVars, useVars, fds>>

OtherPrograms ==
  \/ \E d, e \in Dirs, n, m \in Names : Exchange(d, n, e, m)
  \/ \E f \in Files, bytes \in Sizes : WriteFile(f, bytes)

CancelContext ==
  /\ ~cancelled /\ faults > 0
  /\ cancelled' = TRUE /\ faults' = faults - 1
  /\ UNCHANGED <<treeVars, target, follow, root, scanVars, useVars, fds>>

-----------------------------------------------------------------------------
(* SourceRoot                                                              *)

NewRoot(dir) == [ClosedRoot EXCEPT !.state = "open", !.dir = dir]

\* OpenSourceRoot: the path is inspected, then opened without following a link,
\* and the opened directory compared with the one that was inspected.
InspectRoot ==
  /\ entries[Slash][SourceName] \in Dirs
  /\ item' = [name |-> SourceName, id |-> entries[Slash][SourceName]]
  /\ UNCHANGED <<treeVars, target, follow, faults, cancelled, root, spc, stack, walk, captured,
                 scanned, useVars, fds>>

SameRoot == entries[Slash][item.name] = item.id

OpenSourceRoot ==
  /\ root' = IF SameRoot THEN NewRoot(item.id) ELSE root
  /\ fds' = IF SameRoot THEN fds + 1 ELSE fds
  /\ item' = NoItem
  /\ UNCHANGED <<treeVars, target, follow, faults, cancelled, spc, stack, walk, captured,
                 scanned, useVars>>

Borrowable == root.state = "open"

Borrow ==
  /\ Borrowable
  /\ root' = [root EXCEPT !.borrows = @ + 1] /\ fds' = fds + 1
  /\ UNCHANGED <<treeVars, target, follow, faults, cancelled, scanVars, useVars>>

ReturnBorrow ==
  /\ root' = [root EXCEPT !.borrows = @ - 1] /\ fds' = fds - 1
  /\ UNCHANGED <<treeVars, target, follow, faults, cancelled, scanVars, useVars>>

\* The descriptor leaves its owner, who closes the backing directories.
TransferDescriptor ==
  /\ root.state = "open" /\ root.borrows = 0
  /\ root' = [root EXCEPT !.state = "transferred", !.anchors = <<>>]
  /\ fds' = fds - Len(root.anchors)
  /\ UNCHANGED <<treeVars, target, follow, faults, cancelled, scanVars, useVars>>

\* TakeSourceRoot, in the process that inherits the descriptor.
TakeSourceRoot ==
  /\ root.state = "transferred"
  /\ root' = NewRoot(root.dir)
  /\ UNCHANGED <<treeVars, target, follow, faults, cancelled, scanVars, useVars, fds>>

\* Close: refused while the root is borrowed.
CloseRoot ==
  /\ root.state = "open" /\ root.borrows = 0
  /\ root' = [root EXCEPT !.state = "closed", !.anchors = <<>>]
  /\ fds' = fds - 1 - Len(root.anchors)
  /\ UNCHANGED <<treeVars, target, follow, faults, cancelled, scanVars, useVars>>

-----------------------------------------------------------------------------
(* Scan                                                                    *)

Top == stack[Len(stack)]
SetTop(frame) == stack' = [stack EXCEPT ![Len(stack)] = frame]
Push(frame) == stack' = Append(stack, frame)

\* An activation of scanDirectory.  backing is the BackingReference: the anchor
\* the directory is reached from, 0 for the source, and the names from there.
\* owned: the activation closes the descriptor of its directory.  then is history:
\* what the directory held when its names were verified.
Frame(dir, path, backing, owned) ==
  [dir |-> dir, path |-> path, backing |-> backing, owned |-> owned,
   todo |-> {}, seen |-> {}, then |-> {}]

\* What an activation is made of.
References == [anchor : Nat, names : Seq(Names)]
Frames == [dir : Dirs, path : Seq(Names), backing : References,
           owned : BOOLEAN, todo : SUBSET Names, seen : SUBSET (Names \X Objects),
           then : SUBSET (Names \X Objects)]

Below(reference, name) == [reference EXCEPT !.names = Append(@, name)]
ItemPath == Append(Top.path, item.name)

\* ancestors: the identities of the directories that are being scanned
Cyclic(dir) == \E k \in DOMAIN stack : stack[k].dir = dir

\* The activations that close their directory.
Entered(s) == {k \in DOMAIN s : s[k].owned}

\* Mutant: the directory of the walk is not closed when the walk fails.
WalkForgotten == 1 + Cardinality(Entered(stack))

\* The descriptors Scan still has to close: its borrow of the root, the
\* directories it entered by name, and the directory of the walk.
ScanDescriptors ==
  1 + Cardinality(Entered(stack)) + (IF walk.dir = Nil THEN 0 ELSE 1)

\* Scan returns: every deferred Close runs, and finishScan returns the borrow.
ReturnFromScan(result) ==
  /\ scanned' = result /\ spc' = "done"
  /\ stack' = <<>> /\ item' = NoItem /\ walk' = NoWalk
  /\ root' = [root EXCEPT !.borrows = @ - 1]
  /\ fds' = fds - ScanDescriptors
FailScan == ReturnFromScan("error") /\ captured' = {}
StopScan == ReturnFromScan("fault") /\ captured' = {}

KeepScan == UNCHANGED <<treeVars, target, follow, faults, cancelled, useVars>>

\* beginScan: the membership of a source is captured once.
BeginScan ==
  /\ spc = "idle" /\ Borrowable /\ ~root.scanned /\ ~cancelled
  /\ root' = [root EXCEPT !.borrows = @ + 1, !.scanned = TRUE]
  /\ fds' = fds + 1
  /\ stack' = <<Frame(root.dir, <<>>, [anchor |-> 0, names |-> <<>>], FALSE)>>
  /\ spc' = "names"
  /\ UNCHANGED <<item, walk, captured, scanned>> /\ KeepScan

RefuseScan ==
  /\ spc = "idle" /\ (cancelled \/ ~Borrowable \/ root.scanned)
  /\ scanned' = "fault" /\ spc' = "done"
  /\ UNCHANGED <<stack, item, walk, captured, root, fds>> /\ KeepScan

\* A system call of the scan fails, or the context is found cancelled.
ScanFault ==
  /\ spc \notin {"idle", "done"}
  /\ \/ faults > 0 /\ faults' = faults - 1
     \/ cancelled /\ spc \in {"names", "entry"} /\ UNCHANGED faults
  /\ StopScan
  /\ UNCHANGED <<treeVars, target, follow, cancelled, useVars>>

\* scanDirectory reads the names its directory has now.
ReadSourceNames ==
  /\ spc = "names" /\ ~cancelled
  /\ SetTop([Top EXCEPT !.todo = NamesIn(Top.dir)])
  /\ spc' = "entry"
  /\ UNCHANGED <<item, walk, captured, scanned, root, fds>> /\ KeepScan

Captures(object) == Kind(object) # "special" /\ (Kind(object) = "link" => follow)

\* scanDirectory inspects the next entry; captureEntry leaves out special files,
\* and links unless they are followed.
InspectEntry ==
  /\ spc = "entry" /\ ~cancelled /\ Top.todo # {}
  /\ LET n == Min(Top.todo)
         object == entries[Top.dir][n]
     IN IF object = Nil THEN FailScan
        ELSE /\ SetTop([Top EXCEPT !.todo = @ \ {n}, !.seen = @ \cup {<<n, object>>}])
             /\ spc' = IF Captures(object) THEN Kind(object) ELSE "entry"
             /\ item' = IF Captures(object) THEN [name |-> n, id |-> object] ELSE item
             /\ UNCHANGED <<walk, captured, scanned, root, fds>>
  /\ KeepScan

\* What an open of the name, compared with the identity, makes of it.
Unchanged(dir, component, id) == Lookup(dir, component) = id

\* captureDirectory: opened, compared with what was inspected, checked against
\* the directories on the way, and scanned.
CaptureDirectory ==
  /\ spc = "directory"
  /\ IF ~Unchanged(Top.dir, item.name, item.id) \/ Cyclic(item.id) THEN FailScan
     ELSE /\ Push(Frame(item.id, ItemPath, Below(Top.backing, item.name), TRUE))
          /\ fds' = fds + 1
          /\ item' = NoItem /\ spc' = "names"
          /\ UNCHANGED <<walk, captured, scanned, root>>
  /\ KeepScan

Entry(kind, path, bytes, backing, id) ==
  [kind |-> kind, path |-> path, size |-> bytes, backing |-> backing, id |-> id]

\* What a logical entry is made of.
Entries == [kind : {"file", "directory"}, path : Seq(Names), size : Nat, backing : References,
            id : Files \cup Dirs]

\* captureRegularFile: newSourceFile takes the size of the opened file.
CaptureRegularFile ==
  /\ spc = "file"
  /\ IF ~Unchanged(Top.dir, item.name, item.id) THEN FailScan
     ELSE /\ captured' = captured \cup
               {Entry("file", ItemPath, size[item.id], Below(Top.backing, item.name), item.id)}
          /\ item' = NoItem /\ spc' = "entry"
          /\ UNCHANGED <<stack, walk, scanned, root, fds>>
  /\ KeepScan

\* verifySourceNames: the directory still has the names that were inspected...
VerifyNames ==
  /\ spc = "entry" /\ Top.todo = {}
  /\ IF NamesIn(Top.dir) # {s[1] : s \in Top.seen} THEN FailScan
     ELSE /\ SetTop([Top EXCEPT !.todo = NamesIn(Top.dir), !.then = Contents(Top.dir)])
          /\ spc' = "verify"
          /\ UNCHANGED <<item, walk, captured, scanned, root, fds>>
  /\ KeepScan

\* Mutant: any object under the name will do.
SameName(n) == \E s \in Top.seen : s[1] = n

\* ...and each still denotes the same object.
SameObject(n) == <<n, entries[Top.dir][n]>> \in Top.seen

VerifyEntry ==
  /\ spc = "verify" /\ Top.todo # {}
  /\ LET n == Min(Top.todo)
     IN IF ~SameObject(n) THEN FailScan
        ELSE /\ SetTop([Top EXCEPT !.todo = @ \ {n}])
             /\ UNCHANGED <<spc, item, walk, captured, scanned, root, fds>>
  /\ KeepScan

FilesOf(tree) == {e \in tree : e.kind = "file"}
EmptyDirsOf(tree) ==
  {e \in tree : e.kind = "directory" /\ ~\E f \in tree : f.path # <<>> /\ Front(f.path) = e.path}

\* The directory is complete: captureDirectory closes it, Scan returns the snapshot.
FinishDirectory ==
  /\ spc = "verify" /\ Top.todo = {}
  /\ IF Len(stack) > 1
     THEN /\ captured' = captured \cup
               {Entry("directory", Top.path, 0, Top.backing, Top.dir)}
          /\ fds' = IF Top.owned THEN fds - 1 ELSE fds
          /\ stack' = Front(stack) /\ spc' = "entry"
          /\ UNCHANGED <<item, walk, scanned, root>>
     ELSE /\ ReturnFromScan(IF FilesOf(captured) \cup EmptyDirsOf(captured) = {}
                            THEN "empty" ELSE "snapshot")
          /\ UNCHANGED captured
  /\ KeepScan

-----------------------------------------------------------------------------
(* Following a symbolic link                                               *)

\* The link that is read: first the entry itself, then the component of the walk.
LinkDir == IF walk.dir = Nil THEN Top.dir ELSE walk.dir
LinkName == IF walk.dir = Nil THEN item.name ELSE Head(walk.comps)
LinkId == IF walk.dir = Nil THEN item.id ELSE walk.id

\* readObservedSourceSymlink: inspected, read, inspected again.
InspectLink ==
  /\ spc = "link"
  /\ IF ~Unchanged(LinkDir, LinkName, LinkId) THEN FailScan
     ELSE spc' = "readlink" /\ UNCHANGED <<stack, item, walk, captured, scanned, root, fds>>
  /\ KeepScan

ReadLink ==
  /\ spc = "readlink"
  /\ IF Lookup(LinkDir, LinkName) \notin Links THEN FailScan
     ELSE /\ walk' = [walk EXCEPT !.text = Lookup(LinkDir, LinkName)]
          /\ spc' = "reinspect"
          /\ UNCHANGED <<stack, item, captured, scanned, root, fds>>
  /\ KeepScan

\* newSourceSymlinkWalk: from the root of the file system, or from the
\* directory of the link.
StartWalk(text) ==
  /\ walk' = [NoWalk EXCEPT !.dir = IF text.abs THEN Slash ELSE Top.dir,
                            !.comps = text.comps, !.needDir = text.slash, !.followed = 1]
  /\ fds' = fds + 1

\* followNestedSymlink: the target replaces the component.
NestedLink(text) ==
  /\ walk' = [walk EXCEPT !.dir = IF text.abs THEN Slash ELSE @,
                          !.comps = text.comps \o Tail(@),
                          !.needDir = @ \/ (Len(walk.comps) = 1 /\ text.slash)]
  /\ UNCHANGED fds

ReinspectLink ==
  /\ spc = "reinspect"
  /\ IF ~Unchanged(LinkDir, LinkName, LinkId) THEN FailScan
     ELSE /\ IF walk.dir = Nil THEN StartWalk(target[walk.text]) ELSE NestedLink(target[walk.text])
          /\ spc' = "walk"
          /\ UNCHANGED <<stack, item, captured, scanned, root>>
  /\ KeepScan

\* Mutant: one link too many.
AllowedOnce == walk.followed <= MaxLinks

Allowed == walk.followed < MaxLinks
\* Mutant: nested links are not counted.
NotCounted(object) == walk' = [walk EXCEPT !.id = object]

CountLink(object) == walk' = [walk EXCEPT !.id = object, !.followed = @ + 1]

\* A component that is not a link: a directory to go through, or the last one.
GoesThrough(component) == component = Up \/ Len(walk.comps) > 1

\* resolve: the next component is inspected.
WalkComponent ==
  /\ spc = "walk" /\ walk.comps # <<>>
  /\ LET component == Head(walk.comps)
         object == IF component = Here THEN Nil ELSE Lookup(walk.dir, component)
     IN CASE component = Here ->
               /\ walk' = [walk EXCEPT !.comps = Tail(@)]
               /\ UNCHANGED <<spc, stack, item, captured, scanned, root, fds>>
          [] component # Here /\ object \in Links /\ Allowed ->
               /\ CountLink(object)
               /\ spc' = "link"
               /\ UNCHANGED <<stack, item, captured, scanned, root, fds>>
          [] object \in Dirs \/ (object \in Files /\ ~GoesThrough(component) /\ ~walk.needDir) ->
               /\ walk' = [walk EXCEPT !.id = object]
               /\ spc' = IF GoesThrough(component) THEN "enter" ELSE "final"
               /\ UNCHANGED <<stack, item, captured, scanned, root, fds>>
          [] object \in Specials /\ ~GoesThrough(component) /\ ~walk.needDir ->
               /\ walk' = NoWalk /\ fds' = fds - 1        \* captureEntry leaves it out
               /\ item' = NoItem /\ spc' = "entry"
               /\ UNCHANGED <<stack, captured, scanned, root>>
          [] OTHER -> FailScan
  /\ KeepScan

\* enterDirectory: opened, compared, and put in the place of the one before.
EnterDirectory ==
  /\ spc = "enter"
  /\ IF ~Unchanged(walk.dir, Head(walk.comps), walk.id) THEN FailScan
     ELSE /\ walk' = [walk EXCEPT !.dir = walk.id, !.comps = Tail(@)]
          /\ spc' = "walk"
          /\ UNCHANGED <<stack, item, captured, scanned, root, fds>>
  /\ KeepScan

\* addBackingDirectory: the root keeps the descriptor of the walk.
AddBackingDirectory(dir) ==
  /\ root' = [root EXCEPT !.anchors = Append(@, dir)]
  /\ walk' = NoWalk /\ item' = NoItem
\* Mutant: the index of the anchor before.
AnchorBefore == Len(root.anchors)

NewAnchor == Len(root.anchors) + 1

\* captureSymlinkDirectory
CaptureSymlinkDirectory(dir) ==
  IF Cyclic(dir) \/ root.state # "open" THEN FailScan
  ELSE /\ AddBackingDirectory(dir)
       /\ Push(Frame(dir, ItemPath, [anchor |-> NewAnchor, names |-> <<>>], FALSE))
       /\ spc' = "names"
       /\ UNCHANGED <<captured, scanned, fds>>

\* captureSymlinkFile: the file is reached from the directory that holds it.
CaptureSymlinkFile(file, name) ==
  IF root.state # "open" THEN FailScan
  ELSE /\ AddBackingDirectory(walk.dir)
       /\ captured' = captured \cup
            {Entry("file", ItemPath, size[file], [anchor |-> NewAnchor, names |-> <<name>>], file)}
       /\ spc' = "entry"
       /\ UNCHANGED <<stack, scanned, fds>>

\* resolveCurrentDirectory: no component is left.
ResolveCurrentDirectory ==
  /\ spc = "walk" /\ walk.comps = <<>>
  /\ CaptureSymlinkDirectory(walk.dir)
  /\ KeepScan

\* resolveFinalEntry and resolveRegularFile: opened and compared.
ResolveFinalEntry ==
  /\ spc = "final"
  /\ IF ~Unchanged(walk.dir, Head(walk.comps), walk.id) THEN FailScan
     ELSE IF walk.id \in Dirs THEN CaptureSymlinkDirectory(walk.id)
     ELSE CaptureSymlinkFile(walk.id, Head(walk.comps))
  /\ KeepScan

ScanStep ==
  \/ ReadSourceNames \/ InspectEntry \/ CaptureDirectory \/ CaptureRegularFile
  \/ VerifyNames \/ VerifyEntry \/ FinishDirectory
  \/ InspectLink \/ ReadLink \/ ReinspectLink \/ WalkComponent \/ EnterDirectory
  \/ ResolveCurrentDirectory \/ ResolveFinalEntry

-----------------------------------------------------------------------------
(* SourceAccess                                                            *)

\* AcquireAccess duplicates every descriptor a snapshot refers to.
AcquireAccess ==
  /\ root.state = "open" /\ scanned = "snapshot" /\ lease = <<>>
  /\ lease' = <<root.dir>> \o root.anchors
  /\ root' = [root EXCEPT !.borrows = @ + 1]
  /\ fds' = fds + 1 + Len(root.anchors)
  /\ UNCHANGED <<treeVars, target, follow, faults, cancelled, scanVars, handles>>

\* SourceAccess.Close
CloseAccess ==
  /\ lease # <<>>
  /\ lease' = <<>>
  /\ root' = [root EXCEPT !.borrows = @ - 1]
  /\ fds' = fds - Len(lease)
  /\ UNCHANGED <<treeVars, target, follow, faults, cancelled, scanVars, handles>>

\* openBackingObject: each name in turn, never through a link.  What a tree has on
\* the way, from the directory it begins in.
Route(tree, from, names) ==
  LET At[k \in 0..Len(names)] ==
        IF k = 0 THEN from
        ELSE IF At[k - 1] \in Dirs THEN tree[At[k - 1]][names[k]] ELSE Nil
  IN At

OpenBacking(anchors, reference) ==
  Route(entries, anchors[reference.anchor + 1], reference.names)[Len(reference.names)]
=============================================================================
