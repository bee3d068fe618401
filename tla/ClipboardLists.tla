---------------------------- MODULE ClipboardLists ----------------------------
(* The pure rules of an offer (gliff-proto/src/clipboard.rs): which MIME types it *)
(* names and how a request for one is met, and which files; the walk that lists   *)
(* them and the spool's tree that a paste makes of the list (files.rs).           *)
(* A path is its string cut at every slash, a sequence of segments: "a//b" is     *)
(* <<"a", "", "b">>.  An offered type is its trimmed name and whether it was      *)
(* padded.                                                                        *)
EXTENDS Integers, Sequences, FiniteSets, SequencesExt, FiniteSetsExt, Functions, TLC

CONSTANTS
  TextMimes, FileMimes,   \* sequences, in the order they are tried
  NonData,                \* NON_DATA_TARGETS, the empty name, names with a space in them
  MaxEntries, MaxPath, MaxTotal,   \* the caps; paths are measured in segments
  MaxSize                 \* the largest u64

None == "none"

-------------------------------------------------------------------------------
(* MIME types.                                                                   *)
IsTextMime(m) == m \in Range(TextMimes)
IsFileMime(m) == m \in Range(FileMimes)
Plain(m) == [name |-> m, padded |-> FALSE]

OffersFiles(offered) == \E o \in Range(offered) : IsFileMime(o.name) /\ ~o.padded

\* Each one where it comes first.
FirstOfEach(s) == FoldLeft(LAMBDA out, m : IF m \in Range(out) THEN out ELSE Append(out, m), <<>>, s)

ForwardableMimes(offered) ==
  LET names == [i \in DOMAIN offered |-> offered[i].name]
      Data(m) == ~IsTextMime(m) /\ ~IsFileMime(m) /\ m \notin NonData
  IN (IF \E m \in Range(names) : IsTextMime(m) THEN TextMimes ELSE <<>>)
       \o FirstOfEach(SelectSeq(names, Data))

\* The type to read for a request: itself, or any flavour of text for text.
ResolveMime(requested, offered) ==
  LET flavours == SelectSeq(TextMimes, LAMBDA t : Plain(t) \in Range(offered)) IN
  IF Plain(requested) \in Range(offered) THEN requested
  ELSE IF IsTextMime(requested) /\ flavours # <<>> THEN Head(flavours) ELSE None

LocalMimesForOffer(mimes, hasFiles) ==
  SelectSeq(mimes, LAMBDA m : ~IsFileMime(m)) \o (IF hasFiles THEN FileMimes ELSE <<>>)

-------------------------------------------------------------------------------
(* URI lists.  Text is a sequence of bytes, all of them ASCII.                    *)
Slash == 47
Newline == 10
Blanks == {9, Newline, 13, 32}
Scheme == <<102, 105, 108, 101, 58, 47, 47>>                    \* file://
Localhost == <<108, 111, 99, 97, 108, 104, 111, 115, 116>>
Copy == <<99, 111, 112, 121>>
Alphanumeric == (48..57) \cup (65..90) \cup (97..122)
Kept == Alphanumeric \cup {33, 36, 38, 39, 40, 41, 42, 43, 44, 45, 46, 47, 58, 59, 61, 64, 95, 126}

Hex(d) == IF d < 10 THEN 48 + d ELSE 55 + d
HexDigits == [b \in (48..57) \cup (65..70) \cup (97..102) |->
               IF b < 65 THEN b - 48 ELSE IF b < 97 THEN b - 55 ELSE b - 87]

PercentEncodePath(path) ==
  FlattenSeq([i \in DOMAIN path |->
    IF path[i] \in Kept THEN <<path[i]>> ELSE <<37, Hex(path[i] \div 16), Hex(path[i] % 16)>>])

\* from_str_radix of the two bytes after a percent sign, which may have a plus.
Malformed == -1
Escaped(s, i) ==
  IF i + 2 > Len(s) \/ s[i + 2] \notin DOMAIN HexDigits THEN Malformed
  ELSE IF s[i + 1] = 43 THEN HexDigits[s[i + 2]]
  ELSE IF s[i + 1] \in DOMAIN HexDigits THEN 16 * HexDigits[s[i + 1]] + HexDigits[s[i + 2]]
  ELSE Malformed

PercentDecode(s) ==
  LET from[i \in 1..Len(s) + 3] ==
        IF i > Len(s) THEN <<>>
        ELSE IF s[i] = 37 THEN <<Escaped(s, i)>> \o from[i + 3] ELSE <<s[i]>> \o from[i + 1]
  IN from[1]

\* The path a line names, or <<>>.
FileUriToPath(uri) ==
  LET rest == SubSeq(uri, Len(Scheme) + 1, Len(uri))
      slashes == {i \in DOMAIN rest : rest[i] = Slash}
      path == PercentDecode(SubSeq(rest, Min(slashes), Len(rest)))
  IN IF /\ IsPrefix(Scheme, uri) /\ slashes # {}
        /\ SubSeq(rest, 1, Min(slashes) - 1) \in {<<>>, Localhost}
        /\ Range(path) \cap {0, Malformed} = {}
     THEN path ELSE <<>>

Lines(body) ==
  FoldLeft(LAMBDA out, b : IF b = Newline THEN Append(out, <<>>)
                           ELSE Front(out) \o <<Append(Last(out), b)>>, <<<<>>>>, body)
Trimmed(line) ==
  LET ink == {i \in DOMAIN line : line[i] \notin Blanks} IN
  IF ink = {} THEN <<>> ELSE SubSeq(line, Min(ink), Max(ink))
Trims(lines) == [i \in DOMAIN lines |-> Trimmed(lines[i])]

ParseUriList(body) ==
  LET uris == SelectSeq(Trims(Lines(body)), LAMBDA l : l # <<>> /\ l[1] # 35) IN
  SelectSeq([i \in DOMAIN uris |-> FileUriToPath(uris[i])], LAMBDA p : p # <<>>)

Uri(path) == Scheme \o PercentEncodePath(path)
UriList(paths) == FlattenSeq([i \in DOMAIN paths |-> Uri(paths[i]) \o <<13, Newline>>])
GnomeCopiedFiles(paths) == Copy \o FlattenSeq([i \in DOMAIN paths |-> <<Newline>> \o Uri(paths[i])])

-------------------------------------------------------------------------------
(* Paths and lists of files.                                                     *)
\* Path::components of a relative path without "." or ".." or a NUL, or <<>>.
SafeRelativePath(path) ==
  IF Head(path) \in {"", "."} \/ \E s \in Range(path) : s \in {"..", "nul"} THEN <<>>
  ELSE SelectSeq(path, LAMBDA s : s \notin {"", "."})

Saturating(a, b) == Min({a + b, MaxSize})
Total(files) == FoldLeft(LAMBDA t, f : Saturating(t, f.size), 0, files)
PathBytes(files) == FoldLeft(LAMBDA n, f : n + Len(f.path), 0, files)

Acceptable(files) ==
  /\ \A i \in DOMAIN files :
       /\ SafeRelativePath(files[i].path) # <<>>
       /\ files[i].dir => files[i].size = 0
  /\ \A i, j \in DOMAIN files :
       i # j => SafeRelativePath(files[i].path) # SafeRelativePath(files[j].path)

ValidateFiles(files) ==
  IF Len(files) > MaxEntries THEN "too many"
  ELSE IF PathBytes(files) > MaxPath THEN "paths too long"
  ELSE IF ~Acceptable(files) THEN "bad path"
  ELSE IF Total(files) > MaxTotal THEN "too large" ELSE "ok"

TopLevel(files) == SelectSeq(files, LAMBDA f : Len(f.path) = 1)

-------------------------------------------------------------------------------
(* list_files.  fs maps the nodes, by the names that lead to them, to kind ("file", *)
(* "dir" or "link"), size and the node a link leads to; there is no order in it    *)
(* but the one in which a directory is read.                                       *)
Children(fs, n) == {c \in DOMAIN fs : Len(c) = Len(n) + 1 /\ Front(c) = n}
Entry(path, node) == [path |-> path, size |-> IF node.kind = "dir" THEN 0 ELSE node.size,
                      dir |-> node.kind = "dir", error |-> "ok"]
Failed(why) == [path |-> <<>>, size |-> 0, dir |-> FALSE, error |-> why]

\* A directory's entries before what they contain; links are left out.
Below(fs) ==
  LET below[n \in DOMAIN fs] ==
        FlattenSeq([i \in DOMAIN SetToSeq(Children(fs, n)) |->
          LET c == SetToSeq(Children(fs, n))[i] IN
          IF fs[c].kind = "link" THEN <<>> ELSE <<c>> \o below[c]])
  IN below

\* A root is followed if it is a link, and listed under its own name.
Walk(fs, root) ==
  LET real == IF root \in DOMAIN fs /\ fs[root].kind = "link" THEN fs[root].to ELSE root
      Under(c) == <<Last(root)>> \o SubSeq(c, Len(real) + 1, Len(c))
  IN IF root = <<>> THEN <<Failed("no name")>>
     ELSE IF real \notin DOMAIN fs THEN <<Failed("io")>>
     ELSE <<Entry(<<Last(root)>>, fs[real])>>
            \o [i \in DOMAIN Below(fs)[real] |-> Entry(Under(Below(fs)[real][i]), fs[Below(fs)[real][i]])]

Walked(fs, roots) == FlattenSeq([i \in DOMAIN roots |-> Walk(fs, roots[i])])

\* Why the walk stops at its i-th entry.
Stops(found, i) ==
  IF found[i].error # "ok" THEN found[i].error
  ELSE IF i > MaxEntries THEN "too many"
  ELSE IF ~found[i].dir /\ Total(SubSeq(found, 1, i)) > MaxTotal THEN "too large" ELSE "ok"

ListFiles(fs, roots) ==
  LET found == Walked(fs, roots)
      stops == {i \in DOMAIN found : Stops(found, i) # "ok"}
      why == IF stops # {} THEN Stops(found, Min(stops)) ELSE ValidateFiles(found)
  IN [result |-> why, entries |-> IF why = "ok" THEN found ELSE <<>>]

-------------------------------------------------------------------------------
(* fetch_files, with every transfer whole: the spool's tree.                      *)
NoTree == [ok |-> TRUE, tree |-> <<>>]

\* create_dir_all: the directory and its parents, unless a file is in the way.
WithDirs(made, path) ==
  LET dirs == Prefixes(path) \ {<<>>} IN
  [ok |-> made.ok /\ \A p \in dirs : p \in DOMAIN made.tree => made.tree[p].dir,
   tree |-> made.tree @@ [p \in dirs |-> [dir |-> TRUE, size |-> 0]]]

\* The entry's directory, or its parents and the file.
Make(made, f) ==
  LET path == SafeRelativePath(f.path)
      above == WithDirs(made, Front(path))
  IN IF f.dir THEN WithDirs(made, path)
     ELSE [ok |-> above.ok /\ (path \in DOMAIN above.tree => ~above.tree[path].dir),
           tree |-> (path :> [dir |-> FALSE, size |-> f.size]) @@ above.tree]

FetchFiles(files) ==
  LET made == FoldLeft(Make, NoTree, files) IN
  IF ValidateFiles(files) # "ok" \/ ~made.ok THEN [ok |-> FALSE, tree |-> <<>>, uris |-> <<>>]
  ELSE [ok |-> TRUE, tree |-> made.tree,
        uris |-> [i \in DOMAIN TopLevel(files) |-> SafeRelativePath(TopLevel(files)[i].path)]]
===============================================================================
