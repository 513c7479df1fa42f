------------------------------ MODULE FileSystem ------------------------------
(***************************************************************************)
(* The in-memory file system of src/libc/filesystem.cpp and the shell      *)
(* commands mkdir, cd, touch, echo, cp and mv that call it.                *)
(*                                                                         *)
(* Everything lives in one pool that operator new hands out from front to  *)
(* back and operator delete never takes back.  The pool is counted in      *)
(* units of 16 bytes, the alignment of every allocation.  An entry is      *)
(* named by the unit it starts at.                                         *)
(*                                                                         *)
(* Data: a name is a model value.  What the code reads from its characters *)
(* is given by constants: whether it ends in ".hak" (Hak), what is left of *)
(* it after 63 characters (Stored), how many it has then (Width), and      *)
(* where its last '/' splits it (Split).                                   *)
(***************************************************************************)
EXTENDS Naturals, Sequences

CONSTANTS Names,      \* what the user may type for a name
          Hak,        \* those that end in ".hak"
          Long,       \* those of 64 characters or more
          Stored,     \* the name an entry gets from a typed one
          Split,      \* on names with a '/': <<the part before, the part after>>
          Texts,      \* what echo can write; touch writes Empty
          Empty,
          Size,       \* the units a text takes, with its final zero
          JunkSizes,  \* the units the bytes found at address 0 may take
          EntrySize,  \* sizeof(FileSystemEntry): 23 in the 64-bit kernel, 14 in
                      \* the 32-bit one
          Pool,       \* FS_MEMORY_POOL_SIZE: 256
          MaxFiles,   \* FS_MAX_FILES
          MaxDepth,   \* FS_MAX_PATH_DEPTH
          Width,      \* strlen of a stored name
          BufferSize  \* the buffer a path is written to: 256, the callers' path[256]

Null == "nullptr"    \* no content
Junk == "junk"       \* bytes nobody wrote
NoEntry == Pool      \* the null pointer to an entry: none can start there

ASSUME NamesAssumption ==
  /\ Hak \subseteq Names /\ Long \subseteq Names
  /\ Stored \in [Names -> Names \ Long]
  /\ \A n \in Names \ Long : Stored[n] = n
  /\ DOMAIN Split \subseteq Names /\ "" \notin Names
  /\ \A n \in DOMAIN Split : Split[n] \in (Names \cup {""}) \X (Names \cup {""})
ASSUME TextsAssumption ==
  /\ Empty \in Texts /\ Null \notin Texts /\ Junk \notin Texts
  /\ Size \in [Texts -> Nat \ {0}]
  /\ JunkSizes \subseteq Nat \ {0}
ASSUME PoolAssumption ==
  /\ EntrySize \in Nat \ {0} /\ Pool \in Nat /\ EntrySize <= Pool
  /\ MaxFiles \in Nat /\ MaxDepth \in Nat \ {0}
ASSUME PathAssumption ==
  /\ Width \in [Names \cup {"/"} -> Nat \ {0}]
  /\ BufferSize \in Nat /\ BufferSize > 1

VARIABLES
  entry,            \* the entries allocated so far, by their address
  currentDirectory,
  next_free,        \* the first unit of the pool not handed out
  last              \* the last call and the bool it returned

vars == <<entry, currentDirectory, next_free, last>>

Root == 0
Address == 0 .. Pool
RootEntry == [name |-> "/", type |-> "dir", parent |-> NoEntry, children |-> <<>>,
              content |-> Null]

-------------------------------------------------------------------------------
(* findEntry and what the calls below are made of. *)

\* findEntry: the first entry of directory d whose name is n, if there is one
Find(n, d) ==
  LET ch == entry[d].children
      hits == {i \in 1 .. Len(ch) : entry[ch[i]].name = n}
  IN {ch[i] : i \in {i \in hits : \A j \in hits : i <= j}}

\* A mutant: the pool is compared with the start of the block, not its end.
RoomForStart(size) == next_free < Pool

\* operator new does not return nullptr
RoomFor(size) == next_free + size <= Pool

FullDir(d) == Len(entry[d].children) >= MaxFiles

\* initEntry, and the new entry's place in its parent's children.  The pool is
\* never used twice and starts as zeros, so content is a null pointer.
Linked(n, t, d, content) ==
  [a \in DOMAIN entry \cup {next_free} |->
     IF a = next_free
     THEN [name |-> Stored[n], type |-> t, parent |-> d, children |-> <<>>,
           content |-> content]
     ELSE IF a = d THEN [entry[a] EXCEPT !.children = Append(@, next_free)]
     ELSE entry[a]]

Return(call, ok) == last' = [call |-> call, ok |-> ok]

Fails(call) == Return(call, FALSE) /\ UNCHANGED <<entry, currentDirectory, next_free>>

-------------------------------------------------------------------------------
Init == /\ entry = [a \in {Root} |-> RootEntry]
        /\ currentDirectory = Root
        /\ next_free = EntrySize
        /\ last = [call |-> "init", ok |-> TRUE]

\* A mutant: every new directory gets the root for its parent.
MkdirUnderRoot(n) ==
  IF Find(n, currentDirectory) # {} \/ FullDir(currentDirectory) \/ ~RoomFor(EntrySize)
  THEN Fails("mkdir")
  ELSE /\ entry' = [Linked(n, "dir", currentDirectory, Null) EXCEPT
                      ![next_free].parent = Root]
       /\ next_free' = next_free + EntrySize
       /\ Return("mkdir", TRUE)
       /\ UNCHANGED currentDirectory

Mkdir(n) ==
  IF Find(n, currentDirectory) # {} \/ FullDir(currentDirectory) \/ ~RoomFor(EntrySize)
  THEN Fails("mkdir")
  ELSE /\ entry' = Linked(n, "dir", currentDirectory, Null)
       /\ next_free' = next_free + EntrySize
       /\ Return("mkdir", TRUE)
       /\ UNCHANGED currentDirectory

\* cd to "/", to ".", to ".." (at the root that fails), and to a name
CdRoot == /\ currentDirectory' = Root /\ Return("cd", TRUE)
          /\ UNCHANGED <<entry, next_free>>
CdHere == Return("cd", TRUE) /\ UNCHANGED <<entry, currentDirectory, next_free>>
CdUp == IF entry[currentDirectory].parent = NoEntry
        THEN Fails("cd")
        ELSE /\ currentDirectory' = entry[currentDirectory].parent
             /\ Return("cd", TRUE)
             /\ UNCHANGED <<entry, next_free>>
Cd(n) == LET found == {e \in Find(n, currentDirectory) : entry[e].type = "dir"} IN
         IF found = {}
         THEN Fails("cd")
         ELSE /\ currentDirectory' \in found /\ Return("cd", TRUE)
              /\ UNCHANGED <<entry, next_free>>

\* A mutant: the old content of a file is let go before the new one is allocated.
CreateHakFileFreesFirst(call, n, d, text, size) ==
  LET found == Find(n, d) IN
  \/ /\ \/ n \notin Hak
        \/ \E e \in found : entry[e].type # "file"
        \/ found = {} /\ (FullDir(d) \/ ~RoomFor(EntrySize))
     /\ Fails(call)
  \/ /\ \E e \in found :
          /\ n \in Hak /\ entry[e].type = "file"
          /\ entry' = [entry EXCEPT ![e].content = IF RoomFor(size) THEN text ELSE Null]
          /\ next_free' = IF RoomFor(size) THEN next_free + size ELSE next_free
          /\ Return(call, RoomFor(size))
     /\ UNCHANGED currentDirectory
  \/ /\ found = {} /\ n \in Hak /\ ~FullDir(d) /\ RoomFor(EntrySize)
     /\ entry' = Linked(n, "file", d, IF RoomFor(EntrySize + size) THEN text ELSE Null)
     /\ next_free' = next_free + EntrySize
                       + (IF RoomFor(EntrySize + size) THEN size ELSE 0)
     /\ Return(call, RoomFor(EntrySize + size))
     /\ UNCHANGED currentDirectory

\* createHakFile in directory d.  A new file is linked into its directory before
\* its content is allocated; when that second allocation fails the call returns
\* false and the file stays, without content.
CreateHakFile(call, n, d, text, size) ==
  LET found == Find(n, d) IN
  \/ /\ \/ n \notin Hak
        \/ \E e \in found : entry[e].type # "file"
        \/ found = {} /\ (FullDir(d) \/ ~RoomFor(EntrySize))
        \/ found # {} /\ ~RoomFor(size)
     /\ Fails(call)
  \/ /\ \E e \in found :
          /\ n \in Hak /\ entry[e].type = "file" /\ RoomFor(size)
          /\ entry' = [entry EXCEPT ![e].content = text]
     /\ next_free' = next_free + size
     /\ Return(call, TRUE)
     /\ UNCHANGED currentDirectory
  \/ /\ found = {} /\ n \in Hak /\ ~FullDir(d) /\ RoomFor(EntrySize)
     /\ entry' = Linked(n, "file", d, IF RoomFor(EntrySize + size) THEN text ELSE Null)
     /\ next_free' = next_free + EntrySize
                       + (IF RoomFor(EntrySize + size) THEN size ELSE 0)
     /\ Return(call, RoomFor(EntrySize + size))
     /\ UNCHANGED currentDirectory

\* A mutant: a new empty file is given no buffer.
TouchWithoutBuffer(n) ==
  IF Find(n, currentDirectory) = {} /\ n \in Hak /\ RoomFor(EntrySize)
       /\ ~FullDir(currentDirectory)
  THEN /\ entry' = Linked(n, "file", currentDirectory, Null)
       /\ next_free' = next_free + EntrySize
       /\ Return("touch", TRUE)
       /\ UNCHANGED currentDirectory
  ELSE CreateHakFile("touch", n, currentDirectory, Empty, Size[Empty])

\* touch writes an empty text, also over a file that exists
Touch(n) == CreateHakFile("touch", n, currentDirectory, Empty, Size[Empty])

\* echo text > n
Echo(n, text) == CreateHakFile("echo", n, currentDirectory, text, Size[text])

\* cp's target: the directory before the last '/' and the name after it
TargetDirs(t) ==
  IF t \in DOMAIN Split
  THEN {e \in Find(Split[t][1], currentDirectory) : entry[e].type = "dir"}
  ELSE {currentDirectory}
TargetName(t) == IF t \in DOMAIN Split THEN Split[t][2] ELSE t

\* cp: createHakFile runs with currentDirectory set to the target directory, and
\* currentDirectory is restored whatever it returns.  The content pointer is not
\* checked: from a file without content the copy takes the bytes at address 0.
Cp(s, t) ==
  LET files == {e \in Find(s, currentDirectory) : entry[e].type = "file"}
      dirs  == {d \in TargetDirs(t) : Find(TargetName(t), d) = {}}
  IN \/ /\ files = {} \/ dirs = {} \/ TargetName(t) \notin Hak
        /\ Fails("cp")
     \/ \E src \in files, d \in dirs :
          /\ TargetName(t) \in Hak
          /\ IF entry[src].content \in Texts
             THEN CreateHakFile("cp", TargetName(t), d, entry[src].content,
                                Size[entry[src].content])
             ELSE \E size \in JunkSizes :
                    CreateHakFile("cp", TargetName(t), d, Junk, size)

\* A mutant: the destination is not looked up.
MvUnchecked(s, t) ==
  LET allowed == {e \in Find(s, currentDirectory) :
                    /\ entry[e].type = "file" => t \in Hak
                    /\ t \notin Long}
  IN IF allowed = {}
     THEN Fails("mv")
     ELSE /\ \E e \in allowed : entry' = [entry EXCEPT ![e].name = t]
          /\ Return("mv", TRUE)
          /\ UNCHANGED <<currentDirectory, next_free>>

\* mv renames an entry of the current directory; a '/' in the new name is a
\* character like any other.
Mv(s, t) ==
  LET allowed == {e \in Find(s, currentDirectory) :
                    /\ Find(t, currentDirectory) = {}
                    /\ entry[e].type = "file" => t \in Hak
                    /\ t \notin Long}
  IN IF allowed = {}
     THEN Fails("mv")
     ELSE /\ \E e \in allowed : entry' = [entry EXCEPT ![e].name = t]
          /\ Return("mv", TRUE)
          /\ UNCHANGED <<currentDirectory, next_free>>

Next == \/ \E n \in Names : Mkdir(n) \/ Touch(n)
        \/ \E n \in Names \ {"/", ".", ".."} : Cd(n)
        \/ \E n \in Names, text \in Texts : Echo(n, text)
        \/ \E s, t \in Names : Cp(s, t) \/ Mv(s, t)
        \/ CdRoot \/ CdHere \/ CdUp

Spec == Init /\ [][Next]_vars

-------------------------------------------------------------------------------
(* getCurrentPath *)

\* path[]: the current directory and those above it, up to the root
Up == LET up[k \in 0 .. MaxDepth] ==
            IF k = 0 THEN currentDirectory
            ELSE IF up[k - 1] = Root THEN Root ELSE entry[up[k - 1]].parent
      IN up

\* depth: how many of them get a place in path[], the root not among them
Depth == CHOOSE k \in 0 .. MaxDepth : /\ k = MaxDepth \/ Up[k] = Root
                                      /\ \A j \in 0 .. k - 1 : Up[j] # Root

\* What the first depth of them make of the buffer, outermost first: the names
\* that are in it whole, and pos, the characters written.  pos[j] is where it
\* stands behind the j-th name and its separator.
PathOf(depth) ==
  LET name[j \in 1 .. depth] == entry[Up[depth - j]].name
      pos[j \in 0 .. depth] ==
        IF j = 0 THEN 1
        ELSE LET full == pos[j - 1] + Width[name[j]] + (IF j < depth THEN 1 ELSE 0)
             IN IF full < BufferSize - 1 THEN full ELSE BufferSize - 1
      whole == {j \in 1 .. depth : pos[j - 1] + Width[name[j]] <= BufferSize - 1}
      n == CHOOSE n \in 0 .. depth : 1 .. n \subseteq whole /\ n + 1 \notin whole
  IN [names |-> [j \in 1 .. n |-> name[j]], pos |-> pos[depth]]

\* A mutant: the array of components is thought to be one shorter.
CurrentPathShort == PathOf(IF Depth = MaxDepth THEN MaxDepth - 1 ELSE Depth)

CurrentPath == PathOf(Depth)

-------------------------------------------------------------------------------
Content == Texts \cup {Null, Junk}

FsTypeOK ==
  /\ DOMAIN entry \subseteq Address /\ Root \in DOMAIN entry
  /\ \A a \in DOMAIN entry :
       entry[a] \in [name : Names \cup {"/"}, type : {"dir", "file"},
                    parent : Address, children : Seq(Address),
                    content : Content]
  /\ currentDirectory \in DOMAIN entry /\ entry[currentDirectory].type = "dir"
  /\ next_free \in Address
  /\ last \in [call : {"init", "mkdir", "cd", "touch", "echo", "cp", "mv"},
               ok : BOOLEAN]

Truncated == {Stored[n] : n \in Long}

\* The entries form a tree: each but the root is listed once, in the directory
\* its parent pointer names, and that directory is older, so cd .. ends at the
\* root.
TreeOK ==
  /\ entry[Root].parent = NoEntry /\ entry[Root].type = "dir"
  /\ \A a \in DOMAIN entry \ {Root} :
       LET p == entry[a].parent IN
       /\ p \in DOMAIN entry /\ p < a /\ entry[p].type = "dir"
       /\ \E i \in DOMAIN entry[p].children : entry[p].children[i] = a
  /\ \A d \in DOMAIN entry : \A i, j \in DOMAIN entry[d].children :
       /\ entry[d].children[i] \in DOMAIN entry \ {Root}
       /\ entry[entry[d].children[i]].parent = d
       /\ entry[d].children[i] = entry[d].children[j] => i = j

\* Whatever mkdir, cp, mv and the others did, every entry is what its name finds
\* in its directory, unless the name was cut at 63 characters.
FoundByName ==
  \A a \in DOMAIN entry \ {Root} :
    entry[a].name \notin Truncated => Find(entry[a].name, entry[a].parent) = {a}

\* A file has no content only when the pool has no room for another entry, so
\* that cp, which needs an entry for its copy, never reads through the null
\* pointer: no file ever holds bytes that nobody wrote.
EmptyOnlyWhenFull ==
  \A a \in DOMAIN entry :
    entry[a].type = "file" /\ entry[a].content = Null => ~RoomFor(EntrySize)
NoJunk == \A a \in DOMAIN entry : entry[a].content # Junk

\* The names getCurrentPath shows lead to the current directory from the highest
\* one there was a place for, and that is the root when there are fewer than
\* MaxDepth of them.  A path that fills the buffer may be cut; the names that are
\* whole in it then lead to a directory above the current one, or to it.
WalkFrom(top, path) ==
  LET at[j \in 0 .. Len(path)] ==
        IF j = 0 THEN {top} ELSE UNION {Find(path[j], d) : d \in at[j - 1]}
  IN at[Len(path)]
PathLeadsBack ==
  LET path == CurrentPath
      uncut == path.pos < BufferSize - 1
  IN (\A j \in DOMAIN path.names : path.names[j] \notin Truncated) =>
       \E k \in 0 .. Depth :
         /\ WalkFrom(Up[Depth], path.names) = {Up[k]}
         /\ uncut => Up[k] = currentDirectory
         /\ uncut /\ Len(path.names) < MaxDepth => Up[Depth] = Root

\* A command that reports an error has not changed or lost anything that was
\* there before; only cd, when it succeeds, leaves the current directory.
ErrorsKeepData ==
  [][/\ currentDirectory' # currentDirectory => last' = [call |-> "cd", ok |-> TRUE]
     /\ ~last'.ok =>
          \A a \in DOMAIN entry :
            /\ a \in DOMAIN entry'
            /\ entry'[a].name = entry[a].name /\ entry'[a].parent = entry[a].parent
            /\ entry'[a].content = entry[a].content]_vars
===============================================================================
