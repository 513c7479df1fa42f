--------------------------- MODULE FileSystemProofs ---------------------------
(***************************************************************************)
(* Proofs about FileSystem, for every pool, every set of names and texts:  *)
(* the entries always form a tree (TreeStructure); a command that reports  *)
(* an error keeps what was there (ErrorsKeep); an entry is what its name   *)
(* finds (NamesFind), so that the path shown leads to where the user is    *)
(* (PathsLeadBack); and in the proportions of the 64-bit kernel a file is  *)
(* empty only when the pool is full (EmptyMeansFull), so that no file ever *)
(* holds bytes nobody wrote (CopiesAreTrue).                               *)
(*                                                                         *)
(* Every command has one of four effects on the tree: it links a new       *)
(* entry, fills a file, renames an entry, or moves the current directory.  *)
(* Effects says so, and what each effect preserves is a lemma of its own.  *)
(***************************************************************************)
EXTENDS FileSystem, FiniteSetTheorems, TLAPS

\* An entry may not be smaller than a text: true of the 64-bit kernel, where an
\* entry has 368 bytes and a line of the shell at most 256.
BigEntries == /\ \A text \in Texts : Size[text] <= EntrySize

\* Every entry lies below next_free.
Allocated == \A a \in DOMAIN entry : a < next_free

TInv == FsTypeOK /\ Allocated /\ TreeOK
FullInv == EmptyOnlyWhenFull /\ NoJunk

\* No two entries of a directory have the same name, cut names apart.  This is
\* what findEntry's first hit needs to be the only one.
NamesDiffer ==
  \A a, b \in DOMAIN entry \ {Root} :
    /\ entry[a].parent = entry[b].parent /\ entry[a].name = entry[b].name
    /\ entry[a].name \notin Truncated
    => a = b

\* The four effects.
Link(n, t, d, c) ==
  /\ d \in DOMAIN entry /\ entry[d].type = "dir" /\ RoomFor(EntrySize)
  /\ Find(n, d) = {}
  /\ entry' = Linked(n, t, d, c)
  /\ next_free' \in Address /\ next_free' >= next_free + EntrySize
  /\ BigEntries /\ FullInv =>
       /\ c # Junk
       /\ t = "file" /\ c = Null => next_free' + EntrySize > Pool
  /\ currentDirectory' = currentDirectory
Fill(e, c) ==
  /\ e \in DOMAIN entry /\ entry[e].type = "file"
  /\ entry' = [entry EXCEPT ![e].content = c]
  /\ next_free' \in Address /\ next_free' >= next_free
  /\ currentDirectory' = currentDirectory
Rename(e, n) ==
  /\ e \in DOMAIN entry \ {Root}
  /\ Find(n, entry[e].parent) = {} /\ n \notin Long
  /\ entry' = [entry EXCEPT ![e].name = n]
  /\ next_free' = next_free /\ currentDirectory' = currentDirectory
Move == /\ entry' = entry /\ next_free' = next_free
        /\ currentDirectory' \in DOMAIN entry
        /\ entry[currentDirectory'].type = "dir"

Effect == \/ \E n \in Names, t \in {"dir", "file"}, d \in Address, c \in Content : Link(n, t, d, c)
          \/ \E e \in Address, c \in Texts : Fill(e, c)
          \/ \E e \in Address, n \in Names : Rename(e, n)
          \/ Move

Calls == {"init", "mkdir", "cd", "touch", "echo", "cp", "mv"}

-------------------------------------------------------------------------------
\* What findEntry returns is an entry of that directory, of that name.
LEMMA FindIsChild ==
  ASSUME FsTypeOK, TreeOK, NEW n, NEW d \in DOMAIN entry
  PROVE  /\ Find(n, d) \subseteq DOMAIN entry \ {Root}
         /\ Find(n, d) \subseteq Address
         /\ \A e \in Find(n, d) : entry[e].parent = d /\ entry[e].name = n
<1>1. entry[d].children \in Seq(Address) /\ DOMAIN entry \subseteq Address
  BY DEF FsTypeOK
<1>2. \A i \in DOMAIN entry[d].children :
        /\ entry[d].children[i] \in DOMAIN entry \ {Root}
        /\ entry[entry[d].children[i]].parent = d
  BY DEF TreeOK
<1>3. DOMAIN entry[d].children = 1 .. Len(entry[d].children)
  BY <1>1
<1> QED BY <1>1, <1>2, <1>3 DEF Find

\* A set of places in a list has a first.
LEMMA Least ==
  ASSUME NEW n \in Nat, NEW S, S \subseteq 0 .. n, S # {}
  PROVE  \E i \in S : \A k \in S : i <= k
<1> DEFINE R == StrictSubsetOrdering(0 .. n)
           Below(i) == {k \in S : k < i}
           T == {Below(i) : i \in S}
<1>1. T \subseteq SUBSET (0 .. n) /\ T # {}
  OBVIOUS
<1>2. IsWellFoundedOn(R, SUBSET (0 .. n))
  <2>1. IsFiniteSet(0 .. n)
    BY FS_Interval
  <2> QED BY <2>1, FS_FiniteSubsetsOfFinite, FS_StrictSubsetOrderingWellFounded
<1> HIDE DEF R, T
<1>3. PICK x \in T : \A y \in T : ~(<<y, x>> \in R)
  BY <1>1, <1>2, WFMin
<1>4. PICK i \in S : x = Below(i)
  BY <1>3 DEF T
<1>5. ASSUME NEW k \in S, k < i PROVE FALSE
  <2>1. Below(k) \in T
    BY DEF T
  <2>2. (\A j \in S : j < k => j < i) /\ ~(k < k)
    BY <1>5
  <2>3. Below(k) \subseteq Below(i) /\ k \in Below(i) /\ k \notin Below(k)
    BY <1>5, <2>2, Zenon
  <2>4. Below(k) \in SUBSET (0 .. n) /\ Below(i) \in SUBSET (0 .. n)
    OBVIOUS
  <2> HIDE DEF Below
  <2>5. <<Below(k), Below(i)>> \in R
    BY <2>3, <2>4 DEF R, StrictSubsetOrdering
  <2> QED BY <1>3, <1>4, <2>1, <2>5
<1> QED BY <1>5

\* findEntry returns no entry only when none of the directory has that name.
LEMMA FindNone ==
  ASSUME FsTypeOK, TreeOK, NEW n, NEW a \in DOMAIN entry \ {Root},
         Find(n, entry[a].parent) = {}
  PROVE  entry[a].name # n
<1> DEFINE d == entry[a].parent
           ch == entry[d].children
           hits == {i \in 1 .. Len(ch) : entry[ch[i]].name = n}
<1>1. d \in DOMAIN entry /\ \E i \in DOMAIN ch : ch[i] = a
  BY DEF TreeOK
<1>2. ch \in Seq(Address)
  BY <1>1 DEF FsTypeOK
<1>3. Len(ch) \in Nat /\ DOMAIN ch = 1 .. Len(ch)
  BY <1>2
<1>4. hits \subseteq 0 .. Len(ch)
  BY <1>3
<1>5. ASSUME hits # {} PROVE FALSE
  <2> HIDE DEF hits
  <2>1. PICK i \in hits : \A k \in hits : i <= k
    BY <1>3, <1>4, <1>5, Least
  <2>2. ch[i] \in Find(n, d)
    BY <2>1 DEF Find, hits
  <2> QED BY <2>2
<1> QED BY <1>1, <1>3, <1>5

\* createHakFile links a file, fills one, or changes nothing.  The premise about
\* text is what cp owes it: junk only where no entry can be allocated.
LEMMA CreateHakFileEffect ==
  ASSUME TInv, NEW call \in Calls, NEW n \in Names, NEW d \in DOMAIN entry,
         entry[d].type = "dir",
         NEW text \in Texts \cup {Junk}, NEW size \in Nat \ {0},
         CreateHakFile(call, n, d, text, size),
         text = Junk => Find(n, d) = {},
         BigEntries /\ FullInv => text # Junk \/ ~RoomFor(EntrySize),
         BigEntries /\ text # Junk => size <= EntrySize
  PROVE  Effect /\ last' \in [call : Calls, ok : BOOLEAN]
<1> DEFINE found == Find(n, d)
<1>1. /\ next_free \in Nat /\ next_free <= Pool /\ Pool \in Nat /\ EntrySize \in Nat
      /\ DOMAIN entry \subseteq Address
      /\ currentDirectory \in DOMAIN entry /\ entry[currentDirectory].type = "dir"
  BY PoolAssumption DEF TInv, FsTypeOK, Address
<1>2. found \subseteq DOMAIN entry \ {Root} /\ found \subseteq Address
  BY FindIsChild DEF TInv
<1>3. CASE Fails(call)
  BY <1>1, <1>3 DEF Fails, Return, Effect, Move
<1>4. CASE /\ \E e \in found : /\ n \in Hak /\ entry[e].type = "file" /\ RoomFor(size)
                               /\ entry' = [entry EXCEPT ![e].content = text]
           /\ next_free' = next_free + size
           /\ Return(call, TRUE)
           /\ UNCHANGED currentDirectory
  <2>1. PICK e \in found : /\ entry[e].type = "file" /\ RoomFor(size)
                           /\ entry' = [entry EXCEPT ![e].content = text]
    BY <1>4
  <2>2. text \in Texts
    BY <2>1
  <2>3. next_free' \in Address /\ next_free' >= next_free
    BY <1>1, <1>4, <2>1 DEF RoomFor, Address
  <2>4. Fill(e, text)
    BY <1>2, <1>4, <2>1, <2>3 DEF Fill
  <2> QED BY <1>2, <1>4, <2>2, <2>4 DEF Effect, Return
<1>5. CASE /\ found = {} /\ RoomFor(EntrySize)
           /\ entry' = Linked(n, "file", d, IF RoomFor(EntrySize + size) THEN text ELSE Null)
           /\ next_free' = next_free + EntrySize
                             + (IF RoomFor(EntrySize + size) THEN size ELSE 0)
           /\ Return(call, RoomFor(EntrySize + size))
           /\ UNCHANGED currentDirectory
  <2> DEFINE c == IF RoomFor(EntrySize + size) THEN text ELSE Null
  <2>1. c \in Content
    BY DEF Content
  <2>2. next_free' \in Address /\ next_free' >= next_free + EntrySize
    BY <1>1, <1>5 DEF RoomFor, Address
  <2>3. ASSUME BigEntries, FullInv PROVE c # Junk /\ (c = Null => next_free' + EntrySize > Pool)
    <3>1. text \in Texts /\ size <= EntrySize
      BY <1>5, <2>3
    <3>2. c # Junk
      BY <3>1, TextsAssumption DEF Null, Junk
    <3>3. ASSUME c = Null PROVE next_free' + EntrySize > Pool
      <4>1. ~RoomFor(EntrySize + size)
        BY <3>1, <3>3, TextsAssumption
      <4> QED BY <1>1, <1>5, <3>1, <4>1 DEF RoomFor
    <3> QED BY <3>2, <3>3
  <2>4. Link(n, "file", d, c)
    BY <1>5, <2>2, <2>3 DEF Link
  <2>5. Return(call, RoomFor(EntrySize + size)) => last' \in [call : Calls, ok : BOOLEAN]
    BY DEF Return, RoomFor
  <2>6. d \in Address
    BY <1>1
  <2> QED BY <1>5, <2>1, <2>4, <2>5, <2>6 DEF Effect
<1> QED BY <1>3, <1>4, <1>5 DEF CreateHakFile

\* Where a file's own text is copied, its size is the text's; where there is no
\* text, cp has found that no entry can be allocated.
LEMMA CpEffect ==
  ASSUME TInv, NEW s \in Names, NEW t \in Names, Cp(s, t)
  PROVE  Effect /\ last' \in [call : Calls, ok : BOOLEAN]
<1> DEFINE files == {e \in Find(s, currentDirectory) : entry[e].type = "file"}
           dirs  == {d \in TargetDirs(t) : Find(TargetName(t), d) = {}}
<1>1. currentDirectory \in DOMAIN entry /\ entry[currentDirectory].type = "dir"
  BY DEF TInv, FsTypeOK
<1>2. files \subseteq DOMAIN entry
  BY <1>1, FindIsChild DEF TInv
<1>3. \A d \in dirs : d \in DOMAIN entry /\ entry[d].type = "dir"
  BY <1>1, FindIsChild DEF TInv, TargetDirs
<1>4. CASE Fails("cp")
  BY <1>1, <1>4 DEF Fails, Return, Effect, Move, Calls
<1>5. CASE \E src \in files, d \in dirs :
             /\ TargetName(t) \in Hak
             /\ IF entry[src].content \in Texts
                THEN CreateHakFile("cp", TargetName(t), d, entry[src].content,
                                   Size[entry[src].content])
                ELSE \E size \in JunkSizes :
                       CreateHakFile("cp", TargetName(t), d, Junk, size)
  <2>1. PICK src \in files, d \in dirs :
             /\ TargetName(t) \in Hak
             /\ IF entry[src].content \in Texts
                THEN CreateHakFile("cp", TargetName(t), d, entry[src].content,
                                   Size[entry[src].content])
                ELSE \E size \in JunkSizes :
                       CreateHakFile("cp", TargetName(t), d, Junk, size)
    BY <1>5
  <2>2. TargetName(t) \in Names /\ "cp" \in Calls
    BY <2>1, NamesAssumption DEF Calls
  <2>3. d \in DOMAIN entry /\ entry[d].type = "dir" /\ Find(TargetName(t), d) = {}
    BY <1>3
  <2>4. entry[src].content \in Content /\ entry[src].type = "file" /\ src \in DOMAIN entry
    BY <1>2 DEF TInv, FsTypeOK
  <2>5. CASE entry[src].content \in Texts
    <3>1. Size[entry[src].content] \in Nat \ {0}
      BY <2>5, TextsAssumption
    <3>2. entry[src].content # Junk
      BY <2>5, TextsAssumption
    <3>3. BigEntries => Size[entry[src].content] <= EntrySize
      BY <2>5 DEF BigEntries
    <3>4. CreateHakFile("cp", TargetName(t), d, entry[src].content, Size[entry[src].content])
      BY <2>1, <2>5
    <3>5. entry[src].content \in Texts \cup {Junk}
      BY <2>5
    <3> HIDE DEF files, dirs
    <3> QED BY <2>2, <2>3, <3>1, <3>2, <3>3, <3>4, <3>5, CreateHakFileEffect
  <2>6. CASE entry[src].content \notin Texts
    <3>1. PICK size \in JunkSizes : CreateHakFile("cp", TargetName(t), d, Junk, size)
      BY <2>1, <2>6
    <3>2. size \in Nat \ {0}
      BY TextsAssumption
    <3>3. entry[src].content = Null \/ entry[src].content = Junk
      BY <2>4, <2>6 DEF Content
    <3>4. FullInv => ~RoomFor(EntrySize)
      BY <2>4, <3>3 DEF FullInv, EmptyOnlyWhenFull, NoJunk
    <3> HIDE DEF files, dirs
    <3> QED BY <2>2, <2>3, <3>1, <3>2, <3>4, CreateHakFileEffect
  <2> QED BY <2>5, <2>6
<1> QED BY <1>4, <1>5 DEF Cp

\* Every step of Next is one of the four effects.
LEMMA NextEffect ==
  ASSUME TInv, Next
  PROVE  Effect /\ last' \in [call : Calls, ok : BOOLEAN]
<1>1. /\ currentDirectory \in DOMAIN entry /\ entry[currentDirectory].type = "dir"
      /\ DOMAIN entry \subseteq Address /\ Root \in DOMAIN entry
      /\ next_free \in Nat /\ next_free <= Pool /\ Pool \in Nat /\ EntrySize \in Nat
  BY PoolAssumption DEF TInv, FsTypeOK, Address
<1>2. \A n : Find(n, currentDirectory) \subseteq DOMAIN entry \ {Root}
  BY <1>1, FindIsChild DEF TInv
<1>3. \A call \in Calls : Fails(call) => Effect /\ last' \in [call : Calls, ok : BOOLEAN]
  BY <1>1 DEF Fails, Return, Effect, Move
<1>4. \A text \in Texts : /\ Size[text] \in Nat \ {0} /\ text # Junk
                          /\ BigEntries => Size[text] <= EntrySize
  BY TextsAssumption DEF BigEntries
<1>5. ASSUME NEW n \in Names, Mkdir(n)
      PROVE  Effect /\ last' \in [call : Calls, ok : BOOLEAN]
  <2>1. CASE Fails("mkdir")
    BY <1>3, <2>1 DEF Calls
  <2>2. CASE /\ RoomFor(EntrySize) /\ Find(n, currentDirectory) = {}
             /\ entry' = Linked(n, "dir", currentDirectory, Null)
             /\ next_free' = next_free + EntrySize
             /\ Return("mkdir", TRUE) /\ UNCHANGED currentDirectory
    <3>1. next_free' \in Address /\ next_free' >= next_free + EntrySize
      BY <1>1, <2>2 DEF RoomFor, Address
    <3>2. /\ Null # Junk
          /\ "dir" = "file" /\ Null = Null => next_free' + EntrySize > Pool
      BY DEF Null, Junk
    <3>3. Link(n, "dir", currentDirectory, Null)
      BY <1>1, <2>2, <3>1, <3>2 DEF Link
    <3>4. currentDirectory \in Address /\ Null \in Content
      BY <1>1 DEF Content
    <3> QED BY <2>2, <3>3, <3>4 DEF Effect, Return, Calls
  <2> QED BY <1>5, <2>1, <2>2 DEF Mkdir
<1>6. ASSUME NEW n \in Names, Touch(n)
      PROVE  Effect /\ last' \in [call : Calls, ok : BOOLEAN]
  <2>1. Empty \in Texts /\ "touch" \in Calls
    BY TextsAssumption DEF Calls
  <2> QED BY <1>1, <1>4, <1>6, <2>1, CreateHakFileEffect DEF Touch
<1>7. ASSUME NEW n \in Names, NEW text \in Texts, Echo(n, text)
      PROVE  Effect /\ last' \in [call : Calls, ok : BOOLEAN]
  <2>1. "echo" \in Calls
    BY DEF Calls
  <2> QED BY <1>1, <1>4, <1>7, <2>1, CreateHakFileEffect DEF Echo
<1>8. ASSUME NEW s \in Names, NEW t \in Names, Mv(s, t)
      PROVE  Effect /\ last' \in [call : Calls, ok : BOOLEAN]
  <2>1. CASE Fails("mv")
    BY <1>3, <2>1 DEF Calls
  <2>2. CASE /\ \E e \in Find(s, currentDirectory) : entry' = [entry EXCEPT ![e].name = t]
             /\ Find(t, currentDirectory) = {} /\ t \notin Long
             /\ Return("mv", TRUE)
             /\ UNCHANGED <<currentDirectory, next_free>>
    <3>1. PICK e \in Find(s, currentDirectory) : entry' = [entry EXCEPT ![e].name = t]
      BY <2>2
    <3>2. e \in DOMAIN entry \ {Root} /\ entry[e].parent = currentDirectory
      BY <1>1, <1>2, FindIsChild DEF TInv
    <3>4. Rename(e, t)
      BY <2>2, <3>1, <3>2 DEF Rename
    <3>3. e \in Address
      BY <1>1, <3>2
    <3> QED BY <2>2, <3>3, <3>4 DEF Effect, Return, Calls
  <2> QED BY <1>8, <2>1, <2>2 DEF Mv
<1>9. ASSUME NEW n \in Names, Cd(n)
      PROVE  Effect /\ last' \in [call : Calls, ok : BOOLEAN]
  <2>1. CASE Fails("cd")
    BY <1>3, <2>1 DEF Calls
  <2>2. CASE /\ currentDirectory' \in {e \in Find(n, currentDirectory) : entry[e].type = "dir"}
             /\ Return("cd", TRUE) /\ UNCHANGED <<entry, next_free>>
    BY <1>2, <2>2 DEF Effect, Move, Return, Calls
  <2> QED BY <1>9, <2>1, <2>2 DEF Cd
<1>10. ASSUME CdRoot \/ CdHere PROVE Effect /\ last' \in [call : Calls, ok : BOOLEAN]
  <2>1. entry[Root].type = "dir"
    BY <1>1 DEF TInv, TreeOK
  <2>2. Move
    BY <1>1, <1>10, <2>1 DEF CdRoot, CdHere, Move
  <2>3. last' = [call |-> "cd", ok |-> TRUE]
    BY <1>10 DEF CdRoot, CdHere, Return
  <2> QED BY <2>2, <2>3 DEF Effect, Calls
<1>11. ASSUME CdUp PROVE Effect /\ last' \in [call : Calls, ok : BOOLEAN]
  <2>1. CASE Fails("cd")
    BY <1>3, <2>1 DEF Calls
  <2>2. CASE /\ entry[currentDirectory].parent # NoEntry
             /\ currentDirectory' = entry[currentDirectory].parent
             /\ Return("cd", TRUE) /\ UNCHANGED <<entry, next_free>>
    <3>1. currentDirectory # Root
      BY <2>2 DEF TInv, TreeOK
    <3>2. currentDirectory' \in DOMAIN entry /\ entry[currentDirectory'].type = "dir"
      BY <1>1, <2>2, <3>1 DEF TInv, TreeOK
    <3> QED BY <2>2, <3>2 DEF Effect, Move, Return, Calls
  <2> QED BY <1>11, <2>1, <2>2 DEF CdUp
<1> QED BY <1>5, <1>6, <1>7, <1>8, <1>9, <1>10, <1>11, CpEffect DEF Next

-------------------------------------------------------------------------------
\* Linking a new entry keeps the tree: its address is fresh, its parent older.
LEMMA LinkKeepsTree ==
  ASSUME TInv, NEW n \in Names, NEW t \in {"dir", "file"}, NEW d \in Address,
         NEW c \in Content, Link(n, t, d, c), last' \in [call : Calls, ok : BOOLEAN]
  PROVE  TInv'
<1> DEFINE p == next_free
<1>1. /\ next_free \in Nat /\ next_free <= Pool /\ Pool \in Nat /\ EntrySize \in Nat \ {0}
      /\ p \in Address /\ DOMAIN entry \subseteq Address /\ Root \in DOMAIN entry
      /\ next_free' \in Nat /\ next_free' > p
  BY PoolAssumption DEF TInv, FsTypeOK, Address, Link
<1>2. p \notin DOMAIN entry /\ p # Root /\ \A a \in DOMAIN entry : a < p
  BY <1>1 DEF TInv, Allocated
<1>3. d \in DOMAIN entry /\ d # p /\ entry[d].type = "dir"
  BY <1>2 DEF Link
<1>4. /\ DOMAIN entry' = DOMAIN entry \cup {p}
      /\ entry'[p] = [name |-> Stored[n], type |-> t, parent |-> d, children |-> <<>>,
                     content |-> c]
      /\ entry'[d] = [entry[d] EXCEPT !.children = Append(@, p)]
      /\ \A a \in DOMAIN entry \ {d} : entry'[a] = entry[a]
  BY <1>2, <1>3 DEF Link, Linked
<1>5. \A a \in DOMAIN entry :
        entry[a] \in [name : Names \cup {"/"}, type : {"dir", "file"},
                     parent : Address, children : Seq(Address), content : Content]
  BY DEF TInv, FsTypeOK
<1>6. \A a \in DOMAIN entry :
        /\ entry'[a].type = entry[a].type /\ entry'[a].parent = entry[a].parent
        /\ entry'[a].name = entry[a].name /\ entry'[a].content = entry[a].content
        /\ a # d => entry'[a].children = entry[a].children
  BY <1>4, <1>5
<1>7. /\ entry'[d].children = Append(entry[d].children, p)
      /\ entry[d].children \in Seq(Address)
  BY <1>3, <1>4, <1>5
<1>8. FsTypeOK'
  <2>1. Stored[n] \in Names
    BY NamesAssumption
  <2>2. entry'[p] \in [name : Names \cup {"/"}, type : {"dir", "file"}, parent : Address,
                      children : Seq(Address), content : Content]
    BY <1>4, <2>1
  <2>3. entry'[d] \in [name : Names \cup {"/"}, type : {"dir", "file"}, parent : Address,
                      children : Seq(Address), content : Content]
    <3>1. Append(entry[d].children, p) \in Seq(Address)
      BY <1>1, <1>7
    <3> QED BY <1>3, <1>4, <1>5, <3>1
  <2>4. currentDirectory' \in DOMAIN entry' /\ entry'[currentDirectory'].type = "dir"
    BY <1>4, <1>6 DEF TInv, FsTypeOK, Link
  <2> QED BY <1>1, <1>4, <1>5, <2>2, <2>3, <2>4 DEF FsTypeOK, Link, Calls, Address
<1>9. Allocated'
  BY <1>1, <1>2, <1>4 DEF Allocated, Address
<1>10. TreeOK'
  <2>1. entry'[Root].parent = NoEntry /\ entry'[Root].type = "dir"
    BY <1>1, <1>6 DEF TInv, TreeOK
  <2>2. ASSUME NEW a \in DOMAIN entry' \ {Root}
        PROVE  LET q == entry'[a].parent IN
               /\ q \in DOMAIN entry' /\ q < a /\ entry'[q].type = "dir"
               /\ \E i \in DOMAIN entry'[q].children : entry'[q].children[i] = a
    <3>1. CASE a = p
      <4>1. entry'[a].parent = d
        BY <1>4, <3>1
      <4>2. /\ Len(entry[d].children) + 1 \in DOMAIN entry'[d].children
            /\ entry'[d].children[Len(entry[d].children) + 1] = p
        BY <1>7
      <4> QED BY <1>2, <1>3, <1>4, <1>6, <3>1, <4>1, <4>2
    <3>2. CASE a # p
      <4>1. a \in DOMAIN entry \ {Root}
        BY <1>4, <3>2
      <4> DEFINE q == entry[a].parent
      <4>2. /\ q \in DOMAIN entry /\ q < a /\ entry[q].type = "dir"
            /\ \E i \in DOMAIN entry[q].children : entry[q].children[i] = a
        BY <4>1 DEF TInv, TreeOK
      <4>3. PICK i \in DOMAIN entry[q].children : entry[q].children[i] = a
        BY <4>2
      <4>4. i \in DOMAIN entry'[q].children /\ entry'[q].children[i] = a
        <5>1. CASE q = d
          BY <1>7, <4>3, <5>1
        <5>2. CASE q # d
          BY <1>6, <4>2, <4>3, <5>2
        <5> QED BY <5>1, <5>2
      <4>5. entry'[a].parent = q /\ q \in DOMAIN entry' /\ entry'[q].type = "dir"
        BY <1>4, <1>6, <4>1, <4>2
      <4> QED BY <4>2, <4>4, <4>5
    <3> QED BY <3>1, <3>2
  <2>3. ASSUME NEW e \in DOMAIN entry',
               NEW i \in DOMAIN entry'[e].children, NEW j \in DOMAIN entry'[e].children
        PROVE  /\ entry'[e].children[i] \in DOMAIN entry' \ {Root}
               /\ entry'[entry'[e].children[i]].parent = e
               /\ entry'[e].children[i] = entry'[e].children[j] => i = j
    <3>0. \A x \in DOMAIN entry : \A k, l \in DOMAIN entry[x].children :
            /\ entry[x].children[k] \in DOMAIN entry \ {Root}
            /\ entry[entry[x].children[k]].parent = x
            /\ entry[x].children[k] = entry[x].children[l] => k = l
      BY DEF TInv, TreeOK
    <3>1. CASE e = p
      BY <1>4, <3>1
    <3>2. CASE e # p /\ e # d
      <4>1. e \in DOMAIN entry /\ entry'[e].children = entry[e].children
        BY <1>4, <1>6, <3>2
      <4>2. /\ entry[e].children[i] \in DOMAIN entry \ {Root}
            /\ entry[entry[e].children[i]].parent = e
            /\ entry[e].children[i] = entry[e].children[j] => i = j
        BY <3>0, <4>1
      <4> QED BY <1>4, <1>6, <4>1, <4>2
    <3>3. CASE e = d
      <4> DEFINE len == Len(entry[d].children)
      <4>1. /\ len \in Nat /\ DOMAIN entry[d].children = 1 .. len
            /\ DOMAIN entry'[d].children = 1 .. len + 1
            /\ entry'[d].children[len + 1] = p
            /\ \A k \in 1 .. len : entry'[d].children[k] = entry[d].children[k]
        BY <1>7
      <4>2. \A k, l \in 1 .. len :
              /\ entry[d].children[k] \in DOMAIN entry \ {Root}
              /\ entry[entry[d].children[k]].parent = d
              /\ entry[d].children[k] = entry[d].children[l] => k = l
        BY <1>3, <3>0, <4>1
      <4>3. i \in 1 .. len + 1 /\ j \in 1 .. len + 1
        BY <3>3, <4>1
      <4>4. entry'[d].children[i] \in DOMAIN entry' \ {Root}
        <5>1. CASE i = len + 1
          BY <1>2, <1>4, <4>1, <5>1
        <5>2. CASE i \in 1 .. len
          BY <1>4, <4>1, <4>2, <5>2
        <5> QED BY <4>1, <4>3, <5>1, <5>2
      <4>5. entry'[entry'[d].children[i]].parent = d
        <5>1. CASE i = len + 1
          BY <1>4, <4>1, <5>1
        <5>2. CASE i \in 1 .. len
          BY <1>6, <4>1, <4>2, <5>2
        <5> QED BY <4>1, <4>3, <5>1, <5>2
      <4>6. entry'[d].children[i] = entry'[d].children[j] => i = j
        <5>1. \A k \in 1 .. len : entry'[d].children[k] # p
          BY <1>2, <4>1, <4>2
        <5>2. CASE i = len + 1 \/ j = len + 1
          BY <4>1, <4>3, <5>1, <5>2
        <5>3. CASE i \in 1 .. len /\ j \in 1 .. len
          BY <4>1, <4>2, <5>3
        <5> QED BY <4>1, <4>3, <5>2, <5>3
      <4> QED BY <3>3, <4>4, <4>5, <4>6
    <3> QED BY <3>1, <3>2, <3>3
  <2> QED BY <2>1, <2>2, <2>3 DEF TreeOK
<1> QED BY <1>8, <1>9, <1>10 DEF TInv

\* A change of names or contents, or of the current directory, keeps the tree.
LEMMA SameShapeKeepsTree ==
  ASSUME TInv, DOMAIN entry' = DOMAIN entry,
         \A a \in DOMAIN entry :
           /\ entry'[a] \in [name : Names \cup {"/"}, type : {"dir", "file"},
                            parent : Address, children : Seq(Address), content : Content]
           /\ entry'[a].type = entry[a].type /\ entry'[a].parent = entry[a].parent
           /\ entry'[a].children = entry[a].children,
         currentDirectory' \in DOMAIN entry, entry[currentDirectory'].type = "dir",
         next_free' \in Address, next_free' >= next_free,
         last' \in [call : Calls, ok : BOOLEAN]
  PROVE  TInv'
<1>1. FsTypeOK'
  BY DEF TInv, FsTypeOK, Calls
<1>2. Allocated'
  <2>1. DOMAIN entry \subseteq Nat /\ next_free \in Nat /\ next_free' \in Nat
    BY PoolAssumption DEF TInv, FsTypeOK, Address
  <2> QED BY <2>1 DEF TInv, Allocated
<1>3. TreeOK'
  <2>0. Root \in DOMAIN entry
    BY DEF TInv, FsTypeOK
  <2>1. entry'[Root].parent = NoEntry /\ entry'[Root].type = "dir"
    BY <2>0 DEF TInv, TreeOK
  <2>2. ASSUME NEW a \in DOMAIN entry' \ {Root}
        PROVE  LET q == entry'[a].parent IN
               /\ q \in DOMAIN entry' /\ q < a /\ entry'[q].type = "dir"
               /\ \E i \in DOMAIN entry'[q].children : entry'[q].children[i] = a
    <3> DEFINE q == entry[a].parent
    <3>1. /\ q \in DOMAIN entry /\ q < a /\ entry[q].type = "dir"
          /\ \E i \in DOMAIN entry[q].children : entry[q].children[i] = a
      BY DEF TInv, TreeOK
    <3>2. entry'[a].parent = q /\ entry'[q].type = entry[q].type
          /\ entry'[q].children = entry[q].children
      BY <3>1
    <3> QED BY <3>1, <3>2
  <2>3. ASSUME NEW e \in DOMAIN entry',
               NEW i \in DOMAIN entry'[e].children, NEW j \in DOMAIN entry'[e].children
        PROVE  /\ entry'[e].children[i] \in DOMAIN entry' \ {Root}
               /\ entry'[entry'[e].children[i]].parent = e
               /\ entry'[e].children[i] = entry'[e].children[j] => i = j
    <3>1. entry'[e].children = entry[e].children /\ e \in DOMAIN entry
      OBVIOUS
    <3>2. /\ entry[e].children[i] \in DOMAIN entry \ {Root}
          /\ entry[entry[e].children[i]].parent = e
          /\ entry[e].children[i] = entry[e].children[j] => i = j
      BY <3>1 DEF TInv, TreeOK
    <3>3. entry'[entry[e].children[i]].parent = entry[entry[e].children[i]].parent
      BY <3>2
    <3> QED BY <3>1, <3>2, <3>3
  <2> QED BY <2>1, <2>2, <2>3 DEF TreeOK
<1> QED BY <1>1, <1>2, <1>3 DEF TInv

LEMMA FillShape ==
  ASSUME TInv, NEW e \in Address, NEW c \in Texts, Fill(e, c)
  PROVE  /\ DOMAIN entry' = DOMAIN entry
         /\ \A a \in DOMAIN entry :
              /\ entry'[a] \in [name : Names \cup {"/"}, type : {"dir", "file"},
                               parent : Address, children : Seq(Address), content : Content]
              /\ entry'[a].type = entry[a].type /\ entry'[a].parent = entry[a].parent
              /\ entry'[a].children = entry[a].children /\ entry'[a].name = entry[a].name
              /\ a # e => entry'[a].content = entry[a].content
         /\ entry'[e].content = c /\ e \in DOMAIN entry
<1>1. \A a \in DOMAIN entry :
        entry[a] \in [name : Names \cup {"/"}, type : {"dir", "file"},
                     parent : Address, children : Seq(Address), content : Content]
  BY DEF TInv, FsTypeOK
<1>2. c \in Content
  BY DEF Content
<1> QED BY <1>1, <1>2 DEF Fill

LEMMA RenameShape ==
  ASSUME TInv, NEW e \in Address, NEW n \in Names, Rename(e, n)
  PROVE  /\ DOMAIN entry' = DOMAIN entry
         /\ \A a \in DOMAIN entry :
              /\ entry'[a] \in [name : Names \cup {"/"}, type : {"dir", "file"},
                               parent : Address, children : Seq(Address), content : Content]
              /\ entry'[a].type = entry[a].type /\ entry'[a].parent = entry[a].parent
              /\ entry'[a].children = entry[a].children
              /\ entry'[a].content = entry[a].content
<1>1. \A a \in DOMAIN entry :
        entry[a] \in [name : Names \cup {"/"}, type : {"dir", "file"},
                     parent : Address, children : Seq(Address), content : Content]
  BY DEF TInv, FsTypeOK
<1> QED BY <1>1 DEF Rename

LEMMA EffectKeepsTree ==
  ASSUME TInv, Effect, last' \in [call : Calls, ok : BOOLEAN]
  PROVE  TInv'
<1>0. /\ currentDirectory \in DOMAIN entry /\ entry[currentDirectory].type = "dir"
      /\ next_free \in Address /\ next_free \in Nat
      /\ \A a \in DOMAIN entry :
           entry[a] \in [name : Names \cup {"/"}, type : {"dir", "file"},
                        parent : Address, children : Seq(Address), content : Content]
  BY PoolAssumption DEF TInv, FsTypeOK, Address
<1>1. ASSUME NEW n \in Names, NEW t \in {"dir", "file"}, NEW d \in Address,
             NEW c \in Content, Link(n, t, d, c)
      PROVE  TInv'
  BY <1>1, LinkKeepsTree
<1>2. ASSUME NEW e \in Address, NEW c \in Texts, Fill(e, c) PROVE TInv'
  <2>1. next_free' \in Address /\ next_free' >= next_free /\ currentDirectory' = currentDirectory
    BY <1>2 DEF Fill
  <2> QED BY <1>0, <1>2, <2>1, FillShape, SameShapeKeepsTree
<1>3. ASSUME NEW e \in Address, NEW n \in Names, Rename(e, n) PROVE TInv'
  <2>1. /\ next_free' \in Address /\ next_free' >= next_free
        /\ currentDirectory' = currentDirectory
    BY <1>0, <1>3 DEF Rename
  <2> QED BY <1>0, <1>3, <2>1, RenameShape, SameShapeKeepsTree
<1>4. CASE Move
  <2>1. /\ entry' = entry /\ next_free' \in Address /\ next_free' >= next_free
        /\ currentDirectory' \in DOMAIN entry /\ entry[currentDirectory'].type = "dir"
    BY <1>0, <1>4 DEF Move
  <2> QED BY <1>0, <2>1, SameShapeKeepsTree
<1> QED BY <1>1, <1>2, <1>3, <1>4 DEF Effect

\* The arithmetic of a pool that only fills up.
LEMMA RoomShrinks ==
  ASSUME NEW a \in Nat, NEW b \in Nat, NEW e \in Nat, NEW q \in Nat, b >= a, b + e <= q
  PROVE  a + e <= q
OBVIOUS

LEMMA PastTheEnd ==
  ASSUME NEW a \in Nat, NEW e \in Nat, NEW q \in Nat, a + e > q
  PROVE  ~(a + e <= q)
OBVIOUS

\* On a large enough entry, no effect leaves a file without content while there
\* is room for an entry, or junk in a file.
LEMMA EffectKeepsFull ==
  ASSUME TInv, FullInv, BigEntries, Effect
  PROVE  FullInv'
<1>0. next_free \in Nat /\ Pool \in Nat /\ EntrySize \in Nat
  BY PoolAssumption DEF TInv, FsTypeOK, Address
<1>x. Junk \notin Texts /\ Null \notin Texts
  BY TextsAssumption
<1>1. ASSUME NEW n \in Names, NEW t \in {"dir", "file"}, NEW d \in Address,
             NEW c \in Content, Link(n, t, d, c)
      PROVE  FullInv'
  <2> DEFINE p == next_free
  <2>0. next_free' \in 0 .. Pool /\ next_free' >= next_free + EntrySize
    BY <1>1 DEF Link, Address
  <2>x. next_free' \in Nat /\ next_free' >= next_free
    BY <1>0, <2>0
  <2>1. /\ c # Junk
        /\ t = "file" /\ c = Null => next_free' + EntrySize > Pool
    BY <1>1 DEF Link
  <2>2. p \notin DOMAIN entry /\ d \in DOMAIN entry /\ d # p
    <3>1. ~(next_free < next_free)
      BY <1>0
    <3> QED BY <1>1, <3>1 DEF TInv, Allocated, Link
  <2>3. /\ DOMAIN entry' = DOMAIN entry \cup {p}
        /\ entry'[p].type = t /\ entry'[p].content = c
        /\ entry'[d] = [entry[d] EXCEPT !.children = Append(@, p)]
        /\ \A a \in DOMAIN entry \ {d} : entry'[a] = entry[a]
    BY <1>1, <2>2 DEF Link, Linked
  <2>4. \A a \in DOMAIN entry :
          entry[a] \in [name : Names \cup {"/"}, type : {"dir", "file"},
                       parent : Address, children : Seq(Address), content : Content]
    BY DEF TInv, FsTypeOK
  <2>5. \A a \in DOMAIN entry :
          entry'[a].type = entry[a].type /\ entry'[a].content = entry[a].content
    BY <2>2, <2>3, <2>4
  <2>6. NoJunk'
    BY <2>1, <2>3, <2>5 DEF FullInv, NoJunk, Junk
  <2>7. EmptyOnlyWhenFull'
    <3>1. RoomFor(EntrySize)' => RoomFor(EntrySize)
      BY <1>0, <2>x, RoomShrinks DEF RoomFor
    <3>2. ASSUME next_free' + EntrySize > Pool PROVE ~RoomFor(EntrySize)'
      BY <1>0, <2>x, <3>2, PastTheEnd DEF RoomFor
    <3> QED BY <2>1, <2>3, <2>5, <3>1, <3>2 DEF FullInv, EmptyOnlyWhenFull, Null
  <2> QED BY <2>6, <2>7 DEF FullInv
<1>2. ASSUME NEW e \in Address, NEW c \in Texts, Fill(e, c) PROVE FullInv'
  <2>0. next_free' \in 0 .. Pool /\ next_free' >= next_free
    BY <1>2 DEF Fill, Address
  <2>1. next_free' \in Nat /\ next_free' >= next_free
    BY <1>0, <2>0
  <2>2. RoomFor(EntrySize)' => RoomFor(EntrySize)
    BY <1>0, <2>1, RoomShrinks DEF RoomFor
  <2>3. NoJunk'
    BY <1>x, <1>2, FillShape DEF FullInv, NoJunk
  <2>4. EmptyOnlyWhenFull'
    BY <1>x, <1>2, <2>2, FillShape DEF FullInv, EmptyOnlyWhenFull
  <2> QED BY <2>3, <2>4 DEF FullInv
<1>3. ASSUME NEW e \in Address, NEW n \in Names, Rename(e, n) PROVE FullInv'
  <2>1. next_free' = next_free
    BY <1>3 DEF Rename
  <2> QED BY <1>3, <2>1, RenameShape DEF FullInv, EmptyOnlyWhenFull, NoJunk, RoomFor
<1>4. CASE Move
  BY <1>4 DEF Move, FullInv, EmptyOnlyWhenFull, NoJunk, RoomFor
<1> QED BY <1>1, <1>2, <1>3, <1>4 DEF Effect

-------------------------------------------------------------------------------
(* Names *)

\* A new entry has a name none of its directory had, or a cut one.
LEMMA LinkKeepsNames ==
  ASSUME TInv, NamesDiffer, NEW n \in Names, NEW t, NEW d, NEW c, Link(n, t, d, c)
  PROVE  NamesDiffer'
<1> DEFINE p == next_free
<1>1. p \notin DOMAIN entry /\ d \in DOMAIN entry /\ d # p
  <2>1. ~(next_free < next_free)
    BY PoolAssumption DEF TInv, FsTypeOK, Address
  <2> QED BY <2>1 DEF TInv, Allocated, Link
<1>2. /\ DOMAIN entry' = DOMAIN entry \cup {p}
      /\ entry'[p].name = Stored[n] /\ entry'[p].parent = d
      /\ entry'[d] = [entry[d] EXCEPT !.children = Append(@, p)]
      /\ \A a \in DOMAIN entry \ {d} : entry'[a] = entry[a]
  BY <1>1 DEF Link, Linked
<1>3. \A a \in DOMAIN entry :
        entry[a] \in [name : Names \cup {"/"}, type : {"dir", "file"},
                     parent : Address, children : Seq(Address), content : Content]
  BY DEF TInv, FsTypeOK
<1>4. \A a \in DOMAIN entry :
        entry'[a].name = entry[a].name /\ entry'[a].parent = entry[a].parent
  BY <1>2, <1>3
<1>5. ASSUME NEW a \in DOMAIN entry \ {Root}, entry[a].parent = d, entry[a].name = Stored[n]
      PROVE  Stored[n] \in Truncated
  <2>1. entry[a].name # n
    BY <1>5, FindNone DEF TInv, Link
  <2>2. n \in Long
    BY <1>5, <2>1, NamesAssumption
  <2> QED BY <2>2 DEF Truncated
<1>6. ASSUME NEW a \in DOMAIN entry' \ {Root}, NEW b \in DOMAIN entry' \ {Root},
             entry'[a].parent = entry'[b].parent, entry'[a].name = entry'[b].name,
             entry'[a].name \notin Truncated
      PROVE  a = b
  <2>1. CASE a = p /\ b = p
    BY <2>1
  <2>2. CASE a = p /\ b # p
    BY <1>2, <1>4, <1>5, <1>6, <2>2
  <2>3. CASE a # p /\ b = p
    BY <1>2, <1>4, <1>5, <1>6, <2>3
  <2>4. CASE a # p /\ b # p
    BY <1>2, <1>4, <1>6, <2>4 DEF NamesDiffer
  <2> QED BY <2>1, <2>2, <2>3, <2>4
<1> QED BY <1>6 DEF NamesDiffer, Truncated

\* mv gives a name none of the directory has.
LEMMA RenameKeepsNames ==
  ASSUME TInv, NamesDiffer, NEW e, NEW n \in Names, Rename(e, n)
  PROVE  NamesDiffer'
<1>1. \A a \in DOMAIN entry :
        entry[a] \in [name : Names \cup {"/"}, type : {"dir", "file"},
                     parent : Address, children : Seq(Address), content : Content]
  BY DEF TInv, FsTypeOK
<1>2. /\ DOMAIN entry' = DOMAIN entry /\ e \in DOMAIN entry
      /\ entry'[e].name = n
      /\ \A a \in DOMAIN entry : entry'[a].parent = entry[a].parent
      /\ \A a \in DOMAIN entry : a # e => entry'[a].name = entry[a].name
  BY <1>1 DEF Rename
<1>3. ASSUME NEW a \in DOMAIN entry \ {Root}, entry[a].parent = entry[e].parent
      PROVE  entry[a].name # n
  BY <1>3, FindNone DEF TInv, Rename
<1>4. ASSUME NEW a \in DOMAIN entry \ {Root}, NEW b \in DOMAIN entry \ {Root},
             entry'[a].parent = entry'[b].parent, entry'[a].name = entry'[b].name,
             entry'[a].name \notin Truncated
      PROVE  a = b
  BY <1>2, <1>3, <1>4 DEF NamesDiffer
<1> QED BY <1>2, <1>4 DEF NamesDiffer, Truncated

LEMMA EffectKeepsNames ==
  ASSUME TInv, NamesDiffer, Effect
  PROVE  NamesDiffer'
<1>1. ASSUME NEW e \in Address, NEW c \in Texts, Fill(e, c) PROVE NamesDiffer'
  BY <1>1, FillShape DEF NamesDiffer, Truncated
<1>2. CASE Move
  BY <1>2 DEF Move, NamesDiffer, Truncated
<1> QED BY <1>1, <1>2, LinkKeepsNames, RenameKeepsNames DEF Effect

\* In a tree whose names differ findEntry's first hit is the only one.
LEMMA NamesFindThem ==
  ASSUME FsTypeOK, TreeOK, NamesDiffer
  PROVE  FoundByName
<1> SUFFICES ASSUME NEW a \in DOMAIN entry \ {Root}, entry[a].name \notin Truncated
             PROVE  Find(entry[a].name, entry[a].parent) = {a}
  BY DEF FoundByName
<1>1. entry[a].parent \in DOMAIN entry
  BY DEF TreeOK
<1>2. \A e \in Find(entry[a].name, entry[a].parent) : e = a
  BY <1>1, FindIsChild DEF NamesDiffer
<1>3. Find(entry[a].name, entry[a].parent) # {}
  BY FindNone
<1> QED BY <1>2, <1>3

-------------------------------------------------------------------------------
(* The path getCurrentPath shows *)

\* A walk of n steps, each told by its number and the place before.  Where the
\* places without one have a first place, the walk to the place before goes on to it.
IsWalk(f, n, S, a, G) ==
  f \in [0 .. n -> S] /\ f[0] = a /\ \A k \in 1 .. n : f[k] = G[<<k, f[k - 1]>>]

LEMMA WalkExists ==
  ASSUME NEW n \in Nat, NEW S, NEW a \in S, NEW G \in [(1 .. n) \X S -> S]
  PROVE  \E f : IsWalk(f, n, S, a, G)
<1> DEFINE Walk(m, f) == f[0] = a /\ \A k \in 1 .. m : f[k] = G[<<k, f[k - 1]>>]
           Bad == {m \in 0 .. n : ~\E f \in [0 .. m -> S] : Walk(m, f)}
<1>1. ASSUME Bad # {} PROVE FALSE
  <2>1. PICK m \in Bad : \A k \in Bad : m <= k
    <3>1. Bad \subseteq 0 .. n
      OBVIOUS
    <3> HIDE DEF Bad
    <3> QED BY <1>1, <3>1, Least
  <2>2. CASE m = 0
    <3> DEFINE f == [k \in 0 .. 0 |-> a]
    <3>1. f \in [0 .. 0 -> S] /\ Walk(0, f)
      OBVIOUS
    <3> QED BY <2>1, <2>2, <3>1
  <2>3. CASE m # 0
    <3>1. m \in 1 .. n /\ m - 1 \in 0 .. n /\ ~(m <= m - 1)
      BY <2>1, <2>3
    <3>2. PICK f \in [0 .. m - 1 -> S] : Walk(m - 1, f)
      BY <2>1, <3>1
    <3> DEFINE g == [k \in 0 .. m |-> IF k = m THEN G[<<m, f[m - 1]>>] ELSE f[k]]
    <3>3. f[m - 1] \in S /\ m - 1 \in 0 .. m - 1
      BY <3>1, <3>2
    <3>4. \A k \in 0 .. m : k # m => k \in 0 .. m - 1
      BY <3>1
    <3>5. g \in [0 .. m -> S]
      BY <3>2, <3>3, <3>4
    <3>6. 0 \in 0 .. m /\ 0 # m /\ m \in 0 .. m
      BY <3>1
    <3>7. g[0] = a
      BY <3>2, <3>6
    <3>8. ASSUME NEW k \in 1 .. m PROVE g[k] = G[<<k, g[k - 1]>>]
      <4>1. k \in 0 .. m /\ k - 1 \in 0 .. m /\ k - 1 # m /\ (k # m => k \in 1 .. m - 1)
        BY <3>1
      <4>2. g[k - 1] = f[k - 1]
        BY <4>1
      <4>3. CASE k = m
        BY <4>1, <4>2, <4>3
      <4>4. CASE k # m
        BY <3>2, <4>1, <4>2, <4>4
      <4> QED BY <4>3, <4>4
    <3>9. Walk(m, g)
      BY <3>7, <3>8
    <3> HIDE DEF g
    <3> QED BY <2>1, <3>5, <3>9
  <2> QED BY <2>2, <2>3
<1>2. n \in 0 .. n
  OBVIOUS
<1> QED BY <1>1, <1>2 DEF IsWalk

\* The directories from the current one up, and how many of them the path names.
UpFrom(g) ==
  g = [k \in 0 .. MaxDepth |-> IF k = 0 THEN currentDirectory
                               ELSE IF g[k - 1] = Root THEN Root ELSE entry[g[k - 1]].parent]
LEMMA UpChosen == Up = CHOOSE g : UpFrom(g)
BY DEF Up, UpFrom

EndsAt(u, k) == (k = MaxDepth \/ u[k] = Root) /\ \A j \in 0 .. k - 1 : u[j] # Root
LEMMA DepthChosen == Depth = CHOOSE k \in 0 .. MaxDepth : EndsAt(Up, k)
BY DEF Depth, EndsAt

LEMMA UpIs ==
  ASSUME TInv
  PROVE  /\ Up \in [0 .. MaxDepth -> DOMAIN entry] /\ Up[0] = currentDirectory
         /\ \A k \in 1 .. MaxDepth :
              Up[k] = IF Up[k - 1] = Root THEN Root ELSE entry[Up[k - 1]].parent
<1> DEFINE S == DOMAIN entry
           G == [y \in (1 .. MaxDepth) \X S |-> IF y[2] = Root THEN Root ELSE entry[y[2]].parent]
<1>1. MaxDepth \in Nat /\ currentDirectory \in S /\ Root \in S
  BY PoolAssumption DEF TInv, FsTypeOK
<1>2. G \in [(1 .. MaxDepth) \X S -> S]
  BY <1>1 DEF TInv, TreeOK
<1>3. PICK f \in [0 .. MaxDepth -> S] :
        f[0] = currentDirectory /\ \A k \in 1 .. MaxDepth : f[k] = G[<<k, f[k - 1]>>]
  <2> HIDE DEF G, S
  <2>1. \E f : IsWalk(f, MaxDepth, S, currentDirectory, G)
    BY <1>1, <1>2, WalkExists
  <2> QED BY <2>1 DEF IsWalk
<1>4. \A k \in 0 .. MaxDepth : k # 0 => k \in 1 .. MaxDepth /\ k - 1 \in 0 .. MaxDepth
  BY <1>1
<1>5. UpFrom(f)
  <2>1. ASSUME NEW k \in 0 .. MaxDepth
        PROVE  f[k] = IF k = 0 THEN currentDirectory
                      ELSE IF f[k - 1] = Root THEN Root ELSE entry[f[k - 1]].parent
    <3>1. CASE k = 0
      BY <1>3, <3>1
    <3>2. CASE k # 0
      <4>1. f[k] = G[<<k, f[k - 1]>>] /\ f[k - 1] \in S /\ k \in 1 .. MaxDepth
        BY <1>3, <1>4, <3>2
      <4> QED BY <3>2, <4>1
    <3> QED BY <3>1, <3>2
  <2> QED BY <2>1 DEF UpFrom
<1>6. UpFrom(Up)
  BY <1>5, UpChosen
<1> HIDE DEF G
<1>7. Up[0] = currentDirectory
  <2>1. 0 \in 0 .. MaxDepth
    BY <1>1
  <2> QED BY <1>6, <2>1 DEF UpFrom
<1>8. ASSUME NEW k \in 1 .. MaxDepth
      PROVE  Up[k] = IF Up[k - 1] = Root THEN Root ELSE entry[Up[k - 1]].parent
  <2>1. k \in 0 .. MaxDepth /\ k # 0
    OBVIOUS
  <2> QED BY <1>6, <2>1 DEF UpFrom
<1>9. ASSUME NEW k \in 0 .. MaxDepth PROVE Up[k] \in S
  <2> DEFINE Bad == {m \in 0 .. MaxDepth : Up[m] \notin S}
  <2>1. ASSUME Bad # {} PROVE FALSE
    <3>1. PICK m \in Bad : \A i \in Bad : m <= i
      <4>1. Bad \subseteq 0 .. MaxDepth
        OBVIOUS
      <4> HIDE DEF Bad
      <4> QED BY <1>1, <2>1, <4>1, Least
    <3>2. m # 0
      BY <1>1, <1>7, <3>1
    <3>3. m \in 1 .. MaxDepth /\ m - 1 \in 0 .. MaxDepth /\ ~(m <= m - 1)
      BY <1>1, <3>1, <3>2
    <3>4. Up[m - 1] \in S
      BY <3>1, <3>3
    <3>5. Up[m] \in S
      BY <1>1, <1>8, <3>3, <3>4 DEF TInv, TreeOK
    <3> QED BY <3>1, <3>5
  <2> QED BY <2>1
<1>10. Up = [k \in 0 .. MaxDepth |-> Up[k]]
  BY <1>6 DEF UpFrom
<1> QED BY <1>7, <1>8, <1>9, <1>10

LEMMA DepthIs ==
  ASSUME TInv
  PROVE  Depth \in 0 .. MaxDepth /\ EndsAt(Up, Depth)
<1> DEFINE K == {k \in 0 .. MaxDepth : k = MaxDepth \/ Up[k] = Root}
<1>1. MaxDepth \in Nat
  BY PoolAssumption
<1>2. K \subseteq 0 .. MaxDepth /\ K # {}
  BY <1>1
<1>3. PICK k \in K : \A i \in K : k <= i
  <2> HIDE DEF K
  <2> QED BY <1>1, <1>2, Least
<1>4. ASSUME NEW j \in 0 .. k - 1 PROVE Up[j] # Root
  <2>1. j \in 0 .. MaxDepth /\ ~(k <= j)
    BY <1>1, <1>3
  <2> QED BY <1>3, <2>1
<1>5. k \in 0 .. MaxDepth /\ EndsAt(Up, k)
  BY <1>3, <1>4 DEF EndsAt
<1> QED BY <1>5, DepthChosen

\* What PathOf is made of: the names, where the buffer stands behind each of them,
\* and how many are whole.
NameOf(D) == [j \in 1 .. D |-> entry[Up[D - j]].name]
Filled(p) == IF p < BufferSize - 1 THEN p ELSE BufferSize - 1
Positions(g, D) ==
  g = [j \in 0 .. D |->
         IF j = 0 THEN 1
         ELSE Filled(g[j - 1] + Width[NameOf(D)[j]] + (IF j < D THEN 1 ELSE 0))]
Pos(D) == CHOOSE g : Positions(g, D)
Whole(D) == {j \in 1 .. D : Pos(D)[j - 1] + Width[NameOf(D)[j]] <= BufferSize - 1}
Shown(D) == CHOOSE n \in 0 .. D : 1 .. n \subseteq Whole(D) /\ n + 1 \notin Whole(D)

LEMMA PathIs ==
  \A D : PathOf(D) = [names |-> [j \in 1 .. Shown(D) |-> NameOf(D)[j]], pos |-> Pos(D)[D]]
BY DEF PathOf, NameOf, Filled, Positions, Pos, Whole, Shown

LEMMA NamesTyped ==
  ASSUME TInv, NEW D \in 0 .. MaxDepth, NEW j \in 1 .. D
  PROVE  NameOf(D)[j] = entry[Up[D - j]].name /\ Width[NameOf(D)[j]] \in Nat \ {0}
<1>1. D - j \in 0 .. MaxDepth
  BY PoolAssumption
<1>2. Up[D - j] \in DOMAIN entry
  BY <1>1, UpIs
<1>3. entry[Up[D - j]].name \in Names \cup {"/"}
  BY <1>2 DEF TInv, FsTypeOK
<1> QED BY <1>3, PathAssumption DEF NameOf

LEMMA PosIs ==
  ASSUME TInv, NEW D \in 0 .. MaxDepth
  PROVE  /\ \A j \in 0 .. D : Pos(D)[j] \in 1 .. BufferSize - 1
         /\ \A j \in 1 .. D :
              Pos(D)[j] = Filled(Pos(D)[j - 1] + Width[NameOf(D)[j]] + (IF j < D THEN 1 ELSE 0))
<1> DEFINE S == 1 .. BufferSize - 1
           Go(k, p) == Filled(p + Width[NameOf(D)[k]] + (IF k < D THEN 1 ELSE 0))
           G == [y \in (1 .. D) \X S |-> Go(y[1], y[2])]
<1>1. D \in Nat /\ BufferSize \in Nat /\ BufferSize > 1 /\ 1 \in S
  BY PathAssumption, PoolAssumption
<1>2. ASSUME NEW k \in 1 .. D, NEW p \in S PROVE Go(k, p) \in S
  <2>1. Width[NameOf(D)[k]] \in Nat \ {0}
    BY NamesTyped
  <2>2. PICK w \in Nat : w = Width[NameOf(D)[k]] + (IF k < D THEN 1 ELSE 0)
    BY <2>1
  <2>3. Go(k, p) = Filled(p + w)
    BY <2>1, <2>2, <1>1
  <2> HIDE DEF Go
  <2> QED BY <1>1, <2>3 DEF Filled
<1>3. G \in [(1 .. D) \X S -> S]
  <2> HIDE DEF Go, S
  <2>1. \A y \in (1 .. D) \X S : y[1] \in 1 .. D /\ y[2] \in S
    OBVIOUS
  <2> QED BY <1>2, <2>1
<1>4. PICK f : IsWalk(f, D, S, 1, G)
  <2> HIDE DEF G, S
  <2> QED BY <1>1, <1>3, WalkExists
<1>5. \A k \in 0 .. D : k # 0 => k \in 1 .. D /\ k - 1 \in 0 .. D
  BY <1>1
<1>6. f \in [0 .. D -> S] /\ f[0] = 1 /\ \A k \in 1 .. D : f[k] = Go(k, f[k - 1])
  <2>1. f \in [0 .. D -> S] /\ f[0] = 1 /\ \A k \in 1 .. D : f[k] = G[<<k, f[k - 1]>>]
    BY <1>4 DEF IsWalk
  <2>2. ASSUME NEW k \in 1 .. D PROVE f[k] = Go(k, f[k - 1])
    <3>1. k - 1 \in 0 .. D
      BY <1>1
    <3>2. <<k, f[k - 1]>> \in (1 .. D) \X S
      <4> HIDE DEF S
      <4> QED BY <2>1, <3>1
    <3> HIDE DEF Go, S
    <3> QED BY <2>1, <3>2
  <2> HIDE DEF Go, S
  <2> QED BY <2>1, <2>2
<1>7. Positions(f, D)
  <2>1. ASSUME NEW k \in 0 .. D PROVE f[k] = IF k = 0 THEN 1 ELSE Go(k, f[k - 1])
    <3> HIDE DEF Go
    <3> QED BY <1>5, <1>6
  <2>2. f = [k \in 0 .. D |-> f[k]]
    BY <1>6
  <2>3. f = [k \in 0 .. D |-> IF k = 0 THEN 1 ELSE Go(k, f[k - 1])]
    <3> HIDE DEF Go
    <3> QED BY <2>1, <2>2
  <2> QED BY <2>3 DEF Positions
<1>8. Positions(Pos(D), D)
  BY <1>7 DEF Pos
<1>9. PICK g : g = Pos(D) /\ Positions(g, D)
  BY <1>8
<1>10. g = [k \in 0 .. D |-> IF k = 0 THEN 1 ELSE Go(k, g[k - 1])]
  BY <1>9 DEF Positions
<1> HIDE DEF Go, S
<1>11. \A k \in 0 .. D : g[k] = IF k = 0 THEN 1 ELSE Go(k, g[k - 1])
  BY <1>10
<1>12. \A k \in 1 .. D : g[k] = Go(k, g[k - 1])
  BY <1>1, <1>11
<1>13. ASSUME NEW k \in 0 .. D PROVE g[k] \in S
  <2> DEFINE Bad == {m \in 0 .. D : g[m] \notin S}
  <2>1. ASSUME Bad # {} PROVE FALSE
    <3>1. PICK m \in Bad : \A i \in Bad : m <= i
      <4>1. Bad \subseteq 0 .. D
        OBVIOUS
      <4> HIDE DEF Bad
      <4> QED BY <1>1, <2>1, <4>1, Least
    <3>2. m # 0
      BY <1>1, <1>11, <3>1
    <3>3. m \in 1 .. D /\ m - 1 \in 0 .. D /\ ~(m <= m - 1)
      BY <1>1, <3>1, <3>2
    <3>4. g[m - 1] \in S
      BY <3>1, <3>3
    <3>5. g[m] \in S
      BY <1>2, <1>12, <3>3, <3>4
    <3> QED BY <3>1, <3>5
  <2> QED BY <2>1
<1> QED BY <1>9, <1>12, <1>13 DEF Go, S

\* There is a first name that is not whole, or all are.
LEMMA ShownIs ==
  ASSUME TInv, NEW D \in 0 .. MaxDepth
  PROVE  Shown(D) \in 0 .. D /\ 1 .. Shown(D) \subseteq Whole(D) /\ Shown(D) + 1 \notin Whole(D)
<1> DEFINE K == {n \in 0 .. D : n + 1 \notin Whole(D)}
<1>1. D \in Nat
  BY PoolAssumption
<1>2. D + 1 \notin Whole(D) /\ D \in 0 .. D
  BY <1>1 DEF Whole
<1>3. PICK n \in K : \A i \in K : n <= i
  <2>1. K \subseteq 0 .. D /\ K # {}
    BY <1>2
  <2> HIDE DEF K
  <2> QED BY <1>1, <2>1, Least
<1>4. ASSUME NEW j \in 1 .. n PROVE j \in Whole(D)
  <2>1. j - 1 \in 0 .. D /\ ~(n <= j - 1) /\ j - 1 + 1 = j
    BY <1>1, <1>3
  <2> QED BY <1>3, <2>1
<1> QED BY <1>3, <1>4 DEF Shown

\* A name that is not whole fills the buffer, and nothing comes behind it.
LEMMA CutFills ==
  ASSUME TInv, NEW D \in 0 .. MaxDepth, Shown(D) # D
  PROVE  Pos(D)[D] = BufferSize - 1
<1>1. PICK n : n = Shown(D)
  OBVIOUS
<1>2. PICK g : g = Pos(D)
  OBVIOUS
<1>3. /\ D \in Nat /\ n \in 0 .. D /\ n # D /\ n + 1 \notin Whole(D) /\ n + 1 \in 1 .. D
      /\ BufferSize \in Nat
  BY <1>1, ShownIs, PoolAssumption, PathAssumption
<1>4. \A j \in 0 .. D : g[j] \in 1 .. BufferSize - 1
  BY <1>2, PosIs
<1>5. ASSUME NEW j \in 1 .. D, g[j - 1] + Width[NameOf(D)[j]] >= BufferSize - 1
      PROVE  g[j] = BufferSize - 1
  <2>1. g[j] = Filled(g[j - 1] + Width[NameOf(D)[j]] + (IF j < D THEN 1 ELSE 0))
    BY <1>2, PosIs
  <2>2. Width[NameOf(D)[j]] \in Nat /\ g[j - 1] \in Nat
    <3>1. j - 1 \in 0 .. D
      BY <1>3
    <3> QED BY <1>4, <3>1, NamesTyped
  <2>3. ~(g[j - 1] + Width[NameOf(D)[j]] + (IF j < D THEN 1 ELSE 0) < BufferSize - 1)
    BY <1>3, <1>5, <2>2
  <2> QED BY <2>1, <2>3 DEF Filled
<1> DEFINE Bad == {m \in 0 .. D : n < m /\ g[m] # BufferSize - 1}
<1>6. ASSUME Bad # {} PROVE FALSE
  <2>1. PICK m \in Bad : \A i \in Bad : m <= i
    <3>1. Bad \subseteq 0 .. D
      OBVIOUS
    <3> HIDE DEF Bad
    <3> QED BY <1>3, <1>6, <3>1, Least
  <2>2. m \in 1 .. D /\ m - 1 \in 0 .. D /\ ~(m <= m - 1) /\ (m = n + 1 \/ n < m - 1)
    BY <1>3, <2>1
  <2>3. Width[NameOf(D)[m]] \in Nat /\ g[m - 1] \in Nat
    BY <1>4, <2>2, NamesTyped
  <2>4. g[m - 1] + Width[NameOf(D)[m]] >= BufferSize - 1
    <3>1. CASE m = n + 1
      <4>1. ~(g[m - 1] + Width[NameOf(D)[m]] <= BufferSize - 1)
        BY <1>2, <1>3, <2>2, <3>1 DEF Whole
      <4> QED BY <1>3, <2>3, <4>1
    <3>2. CASE n < m - 1
      <4>1. g[m - 1] = BufferSize - 1
        BY <2>1, <2>2, <3>2
      <4> QED BY <1>3, <2>3, <4>1
    <3> QED BY <2>2, <3>1, <3>2
  <2>5. g[m] = BufferSize - 1
    BY <1>5, <2>2, <2>4
  <2> QED BY <2>1, <2>5
<1>7. n < D /\ D \in 0 .. D
  BY <1>3
<1> QED BY <1>2, <1>6, <1>7

\* A walk down a path, the directories it may be in after each name.
DownFrom(g, top, path) ==
  g = [j \in 0 .. Len(path) |-> IF j = 0 THEN {top}
                                ELSE UNION {Find(path[j], d) : d \in g[j - 1]}]

LEMMA WalkFromIs ==
  \A top, path : WalkFrom(top, path) = (CHOOSE g : DownFrom(g, top, path))[Len(path)]
BY DEF WalkFrom, DownFrom

\* There is but one such walk.
LEMMA DownIsOne ==
  ASSUME NEW top, NEW path, Len(path) \in Nat, NEW f, NEW g,
         DownFrom(f, top, path), DownFrom(g, top, path)
  PROVE  \A j \in 0 .. Len(path) : f[j] = g[j]
<1> DEFINE n == Len(path)
           Bad == {m \in 0 .. n : f[m] # g[m]}
           Step(h, j) == UNION {Find(path[j], d) : d \in h[j - 1]}
<1>1. \A j \in 0 .. n : /\ f[j] = IF j = 0 THEN {top} ELSE Step(f, j)
                        /\ g[j] = IF j = 0 THEN {top} ELSE Step(g, j)
  BY DEF DownFrom
<1>2. ASSUME Bad # {} PROVE FALSE
  <2>1. PICK m \in Bad : \A i \in Bad : m <= i
    <3>1. Bad \subseteq 0 .. n
      OBVIOUS
    <3> HIDE DEF Bad
    <3> QED BY <1>2, <3>1, Least
  <2>2. m # 0
    BY <1>1, <2>1
  <2>3. m \in 0 .. n /\ m - 1 \in 0 .. n /\ ~(m <= m - 1)
    BY <2>1, <2>2
  <2>4. f[m - 1] = g[m - 1]
    BY <2>1, <2>3
  <2>5. Step(f, m) = Step(g, m)
    BY <2>4
  <2> HIDE DEF Step
  <2> QED BY <1>1, <2>1, <2>2, <2>3, <2>5
<1> QED BY <1>2

\* From the directory the path starts at, each name finds the next directory below.
LEMMA PathWalks ==
  ASSUME TInv, FoundByName,
         \A j \in DOMAIN CurrentPath.names : CurrentPath.names[j] \notin Truncated
  PROVE  /\ Len(CurrentPath.names) = Shown(Depth)
         /\ WalkFrom(Up[Depth], CurrentPath.names) = {Up[Depth - Shown(Depth)]}
<1>1. PICK D : D = Depth
  OBVIOUS
<1>2. PICK u : u = Up
  OBVIOUS
<1>3. PICK path : path = CurrentPath.names
  OBVIOUS
<1>4. /\ D \in 0 .. MaxDepth /\ EndsAt(u, D) /\ MaxDepth \in Nat
      /\ u \in [0 .. MaxDepth -> DOMAIN entry] /\ u[0] = currentDirectory
      /\ \A k \in 1 .. MaxDepth : u[k] = IF u[k - 1] = Root THEN Root ELSE entry[u[k - 1]].parent
  BY <1>1, <1>2, DepthIs, UpIs, PoolAssumption
<1>0. PICK n \in 0 .. D : n = Shown(D)
  BY <1>4, ShownIs
<1>5. path = [j \in 1 .. n |-> NameOf(D)[j]]
  BY <1>0, <1>1, <1>3, PathIs DEF CurrentPath
<1>6. Len(path) = n /\ DOMAIN path = 1 .. n /\ n \in Nat /\ n <= D
  <2>1. n \in Nat /\ n <= D
    BY <1>4
  <2> QED BY <1>5, <2>1
<1> DEFINE h == [j \in 0 .. n |-> {u[D - j]}]
<1>7. ASSUME NEW j \in 1 .. n PROVE Find(path[j], u[D - (j - 1)]) = {u[D - j]}
  <2>1. /\ D - j \in 0 .. D - 1 /\ D - j \in 0 .. MaxDepth /\ D - (j - 1) \in 1 .. MaxDepth
        /\ D - (j - 1) - 1 = D - j /\ j \in 1 .. D
    BY <1>4, <1>6
  <2>2. u[D - j] \in DOMAIN entry \ {Root}
    BY <1>4, <2>1 DEF EndsAt
  <2>3. u[D - (j - 1)] = entry[u[D - j]].parent
    BY <1>4, <2>1, <2>2
  <2>4. path[j] = entry[u[D - j]].name /\ path[j] \notin Truncated
    <3>1. NameOf(D)[j] = entry[u[D - j]].name
      BY <1>2, <1>4, <2>1, NamesTyped
    <3> QED BY <1>3, <1>5, <1>6, <3>1
  <2> QED BY <2>2, <2>3, <2>4 DEF FoundByName
<1>8. DownFrom(h, u[D], path)
  <2>1. ASSUME NEW j \in 0 .. n
        PROVE  h[j] = IF j = 0 THEN {u[D]} ELSE UNION {Find(path[j], d) : d \in h[j - 1]}
    <3>1. CASE j = 0
      <4>1. D - 0 = D
        BY <1>4
      <4> QED BY <3>1, <4>1
    <3>2. CASE j # 0
      <4>1. j \in 1 .. n /\ j - 1 \in 0 .. n
        BY <1>6, <3>2
      <4>2. h[j - 1] = {u[D - (j - 1)]} /\ h[j] = {u[D - j]}
        BY <4>1
      <4> HIDE DEF h
      <4>3. UNION {Find(path[j], d) : d \in h[j - 1]} = Find(path[j], u[D - (j - 1)])
        BY <4>2
      <4> QED BY <1>7, <3>2, <4>1, <4>2, <4>3
    <3> QED BY <3>1, <3>2
  <2>2. h = [j \in 0 .. n |-> h[j]]
    OBVIOUS
  <2> HIDE DEF h
  <2> QED BY <1>6, <2>1, <2>2 DEF DownFrom
<1>9. PICK g : g = CHOOSE f : DownFrom(f, u[D], path)
  OBVIOUS
<1>10. DownFrom(g, u[D], path)
  BY <1>8, <1>9
<1>11. n \in 0 .. n
  BY <1>6
<1>12. g[n] = h[n]
  <2> HIDE DEF h
  <2> QED BY <1>6, <1>8, <1>10, <1>11, DownIsOne
<1>13. h[n] = {u[D - n]}
  BY <1>11
<1>14. WalkFrom(u[D], path) = g[n]
  BY <1>6, <1>9, WalkFromIs
<1> QED BY <1>0, <1>1, <1>2, <1>3, <1>6, <1>12, <1>13, <1>14

-------------------------------------------------------------------------------
LEMMA InitTInv == Init => TInv
<1> SUFFICES ASSUME Init PROVE TInv
  OBVIOUS
<1>1. /\ Pool \in Nat /\ EntrySize \in Nat \ {0} /\ EntrySize <= Pool
      /\ next_free = EntrySize
  BY PoolAssumption DEF Init
<1>2. Root \in Address /\ NoEntry \in Address /\ next_free \in Address /\ Root < next_free
  BY <1>1 DEF Root, NoEntry, Address
<1>3. DOMAIN entry = {Root} /\ entry[Root] = RootEntry /\ currentDirectory = Root
  BY DEF Init
<1>4. FsTypeOK
  <2>1. RootEntry \in [name : Names \cup {"/"}, type : {"dir", "file"},
                      parent : Address, children : Seq(Address), content : Content]
    BY <1>2 DEF RootEntry, Content
  <2>2. RootEntry.type = "dir"
    BY DEF RootEntry
  <2>3. last \in [call : Calls, ok : BOOLEAN]
    BY DEF Init, Calls
  <2> QED BY <1>2, <1>3, <2>1, <2>2, <2>3 DEF FsTypeOK, Calls
<1>5. Allocated
  BY <1>2, <1>3 DEF Allocated
<1>6. TreeOK
  BY <1>3 DEF TreeOK, RootEntry
<1> QED BY <1>4, <1>5, <1>6 DEF TInv

LEMMA StepTInv == TInv /\ [Next]_vars => TInv'
<1>1. TInv /\ Next => TInv'
  BY NextEffect, EffectKeepsTree
<1>2. TInv /\ UNCHANGED vars => TInv'
  BY DEF vars, TInv, FsTypeOK, Allocated, TreeOK
<1> QED BY <1>1, <1>2

LEMMA TInvariant == Spec => []TInv
BY InitTInv, StepTInv, PTL DEF Spec

\* Every state of the file system is well typed.
THEOREM FsTypeCorrect == Spec => []FsTypeOK
<1>1. TInv => FsTypeOK
  BY DEF TInv
<1> QED BY <1>1, TInvariant, PTL

\* filesystem.cpp keeps one tree: whatever the commands, the pool's size and the
\* moment it runs out, each entry is listed once, in the directory its parent
\* pointer names, and parents are older than their children.
THEOREM TreeStructure == Spec => []TreeOK
<1>1. TInv => TreeOK
  BY DEF TInv
<1> QED BY <1>1, TInvariant, PTL

\* Whatever was made, copied and renamed, findEntry called with an entry's name in
\* its directory returns that entry and no other, names cut at 63 characters
\* apart: createHakFile, mkdir, cp and mv all look before they name.
THEOREM NamesFind == Spec => []FoundByName
<1>1. Init => NamesDiffer
  BY DEF Init, NamesDiffer
<1>2. TInv /\ NamesDiffer /\ [Next]_vars => NamesDiffer'
  <2>1. TInv /\ NamesDiffer /\ Next => NamesDiffer'
    BY NextEffect, EffectKeepsNames
  <2>2. NamesDiffer /\ UNCHANGED vars => NamesDiffer'
    BY DEF vars, NamesDiffer, Truncated
  <2> QED BY <2>1, <2>2
<1>3. TInv /\ NamesDiffer => FoundByName
  BY NamesFindThem DEF TInv
<1> QED BY <1>1, <1>2, <1>3, TInvariant, PTL DEF Spec

\* getCurrentPath's names, followed down by findEntry, lead to the current directory
\* unless they fill the buffer, and then to it or to one above it; from the root
\* where there are fewer of them than it has room for.
THEOREM PathsLeadBack == Spec => []PathLeadsBack
<1>1. TInv /\ FoundByName => PathLeadsBack
  <2>1. ASSUME TInv, FoundByName,
               \A j \in DOMAIN CurrentPath.names : CurrentPath.names[j] \notin Truncated
        PROVE  \E k \in 0 .. Depth :
                 /\ WalkFrom(Up[Depth], CurrentPath.names) = {Up[k]}
                 /\ CurrentPath.pos < BufferSize - 1 => Up[k] = currentDirectory
                 /\ CurrentPath.pos < BufferSize - 1 /\ Len(CurrentPath.names) < MaxDepth
                      => Up[Depth] = Root
    <3>1. PICK D : D = Depth
      OBVIOUS
    <3>2. D \in 0 .. MaxDepth /\ MaxDepth \in Nat /\ EndsAt(Up, D)
      BY <2>1, <3>1, DepthIs, PoolAssumption
    <3>3. PICK n \in 0 .. D : n = Shown(D)
      BY <2>1, <3>2, ShownIs
    <3>4. Len(CurrentPath.names) = n /\ WalkFrom(Up[D], CurrentPath.names) = {Up[D - n]}
      BY <2>1, <3>1, <3>3, PathWalks
    <3>5. CurrentPath.pos < BufferSize - 1 => n = D
      <4>1. CurrentPath.pos = Pos(D)[D]
        BY <3>1, PathIs DEF CurrentPath
      <4>2. n # D => CurrentPath.pos = BufferSize - 1
        BY <2>1, <3>2, <3>3, <4>1, CutFills
      <4>3. BufferSize - 1 \in Int /\ ~(BufferSize - 1 < BufferSize - 1)
        BY PathAssumption
      <4> QED BY <4>2, <4>3
    <3>6. D - n \in 0 .. D /\ (n = D => D - n = 0)
      BY <3>2
    <3>7. Up[0] = currentDirectory
      BY <2>1, UpIs
    <3>8. n = D /\ n < MaxDepth => Up[D] = Root
      BY <3>2 DEF EndsAt
    <3> QED BY <3>1, <3>4, <3>5, <3>6, <3>7, <3>8
  <2> QED BY <2>1 DEF PathLeadsBack
<1> QED BY <1>1, TInvariant, NamesFind, PTL

\* The two hold together: cp makes a copy without content only of a file without.
LEMMA FullInvariant ==
  ASSUME BigEntries
  PROVE  Spec => []FullInv
<1>1. Init => FullInv
  BY DEF Init, FullInv, EmptyOnlyWhenFull, NoJunk, RootEntry, Null, Junk
<1>2. TInv /\ FullInv /\ [Next]_vars => FullInv'
  <2>1. TInv /\ FullInv /\ Next => FullInv'
    BY NextEffect, EffectKeepsFull
  <2>2. FullInv /\ UNCHANGED vars => FullInv'
    BY DEF vars, FullInv, EmptyOnlyWhenFull, NoJunk, RoomFor
  <2> QED BY <2>1, <2>2
<1> QED BY <1>1, <1>2, TInvariant, PTL DEF Spec

\* In the proportions of the 64-bit kernel a file that createHakFile linked and
\* could not fill is left behind only by a pool with no room for another entry.
THEOREM EmptyMeansFull ==
  ASSUME BigEntries
  PROVE  Spec => []EmptyOnlyWhenFull
<1>1. FullInv => EmptyOnlyWhenFull
  BY DEF FullInv
<1> QED BY <1>1, FullInvariant, PTL

\* So the missing null check of cp is out of reach there: a file lacks content only
\* when no entry for a copy can be had, and no file ever holds bytes that nobody
\* wrote.
THEOREM CopiesAreTrue ==
  ASSUME BigEntries
  PROVE  Spec => []NoJunk
<1>1. FullInv => NoJunk
  BY DEF FullInv
<1> QED BY <1>1, FullInvariant, PTL

-------------------------------------------------------------------------------
\* What one step of ErrorsKeepData says.
Kept == \A a \in DOMAIN entry :
          /\ a \in DOMAIN entry'
          /\ entry'[a].name = entry[a].name /\ entry'[a].parent = entry[a].parent
          /\ entry'[a].content = entry[a].content
KeepsData ==
  /\ currentDirectory' # currentDirectory => last' = [call |-> "cd", ok |-> TRUE]
  /\ ~last'.ok => Kept

\* A new entry disturbs no other.
LEMMA LinkedKeeps ==
  ASSUME TInv, NEW n, NEW t, NEW d \in DOMAIN entry, NEW c, entry' = Linked(n, t, d, c)
  PROVE  Kept
<1>1. next_free \notin DOMAIN entry
  <2>1. ~(next_free < next_free)
    BY PoolAssumption DEF TInv, FsTypeOK, Address
  <2> QED BY <2>1 DEF TInv, Allocated
<1>2. /\ DOMAIN entry' = DOMAIN entry \cup {next_free}
      /\ entry'[d] = [entry[d] EXCEPT !.children = Append(@, next_free)]
      /\ \A a \in DOMAIN entry \ {d} : entry'[a] = entry[a]
  BY <1>1 DEF Linked
<1>3. entry[d] \in [name : Names \cup {"/"}, type : {"dir", "file"},
                   parent : Address, children : Seq(Address), content : Content]
  BY DEF TInv, FsTypeOK
<1> QED BY <1>2, <1>3 DEF Kept

LEMMA FailsKeeps == \A call : Fails(call) => KeepsData
BY DEF Fails, Return, KeepsData, Kept

LEMMA CreateHakFileKeeps ==
  ASSUME TInv, NEW call, NEW n, NEW d \in DOMAIN entry, NEW text, NEW size,
         CreateHakFile(call, n, d, text, size)
  PROVE  KeepsData
<1>1. CASE Fails(call)
  BY <1>1, FailsKeeps
<1>2. CASE Return(call, TRUE) /\ UNCHANGED currentDirectory
  BY <1>2 DEF Return, KeepsData
<1>3. CASE /\ entry' = Linked(n, "file", d, IF RoomFor(EntrySize + size) THEN text ELSE Null)
           /\ UNCHANGED currentDirectory
  BY <1>3, LinkedKeeps DEF KeepsData
<1> QED BY <1>1, <1>2, <1>3 DEF CreateHakFile

\* A command that reports an error has neither changed nor lost an entry that was
\* there, and only a cd that succeeds leaves the current directory (cp comes back
\* from the target directory whatever createHakFile returns).
THEOREM ErrorsKeep == Spec => ErrorsKeepData
<1>1. ASSUME TInv, Next PROVE KeepsData
  <2>0. currentDirectory \in DOMAIN entry
    BY <1>1 DEF TInv, FsTypeOK
  <2>1. ASSUME NEW n \in Names, Mkdir(n) PROVE KeepsData
    <3>1. CASE Fails("mkdir")
      BY <3>1, FailsKeeps
    <3>2. CASE Return("mkdir", TRUE) /\ UNCHANGED currentDirectory
      BY <3>2 DEF Return, KeepsData
    <3> QED BY <2>1, <3>1, <3>2 DEF Mkdir
  <2>2. ASSUME NEW n \in Names, Touch(n) PROVE KeepsData
    BY <1>1, <2>0, <2>2, CreateHakFileKeeps DEF Touch
  <2>3. ASSUME NEW n \in Names, NEW text \in Texts, Echo(n, text) PROVE KeepsData
    BY <1>1, <2>0, <2>3, CreateHakFileKeeps DEF Echo
  <2>4. ASSUME NEW s \in Names, NEW t \in Names, Cp(s, t) PROVE KeepsData
    <3> DEFINE dirs == {d \in TargetDirs(t) : Find(TargetName(t), d) = {}}
    <3>1. CASE Fails("cp")
      BY <3>1, FailsKeeps
    <3>2. CASE \E d \in dirs : \E text, size :
                 CreateHakFile("cp", TargetName(t), d, text, size)
      <4>1. PICK d \in dirs :
              \E text, size : CreateHakFile("cp", TargetName(t), d, text, size)
        BY <3>2
      <4>2. d \in DOMAIN entry
        BY <1>1, <2>0, FindIsChild DEF TargetDirs, TInv
      <4> QED BY <1>1, <4>1, <4>2, CreateHakFileKeeps
    <3> QED BY <2>4, <3>1, <3>2 DEF Cp
  <2>5. ASSUME NEW s \in Names, NEW t \in Names, Mv(s, t) PROVE KeepsData
    <3>1. CASE Fails("mv")
      BY <3>1, FailsKeeps
    <3>2. CASE Return("mv", TRUE) /\ UNCHANGED currentDirectory
      BY <3>2 DEF Return, KeepsData
    <3> QED BY <2>5, <3>1, <3>2 DEF Mv
  <2>6. ASSUME Return("cd", TRUE) PROVE KeepsData
    BY <2>6 DEF Return, KeepsData
  <2>7. ASSUME NEW n \in Names, Cd(n) PROVE KeepsData
    BY <2>6, <2>7, FailsKeeps DEF Cd
  <2>8. ASSUME CdRoot \/ CdHere \/ CdUp PROVE KeepsData
    BY <2>6, <2>8, FailsKeeps DEF CdRoot, CdHere, CdUp
  <2> QED BY <1>1, <2>1, <2>2, <2>3, <2>4, <2>5, <2>7, <2>8 DEF Next
<1>2. TInv /\ [Next]_vars =>
        [/\ currentDirectory' # currentDirectory => last' = [call |-> "cd", ok |-> TRUE]
         /\ ~last'.ok =>
              \A a \in DOMAIN entry :
                /\ a \in DOMAIN entry'
                /\ entry'[a].name = entry[a].name /\ entry'[a].parent = entry[a].parent
                /\ entry'[a].content = entry[a].content]_vars
  BY <1>1 DEF KeepsData, Kept
<1> QED BY <1>2, TInvariant, PTL DEF Spec, ErrorsKeepData
===============================================================================
