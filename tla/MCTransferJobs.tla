---------------------------- MODULE MCTransferJobs ----------------------------
(* TransferJobs on small offers, and the rules of ClipboardLists on small ones. *)
EXTENDS TransferJobs

MCTextMimes == <<"text/plain;charset=utf-8", "text/plain", "STRING">>
MCFileMimes == <<"text/uri-list", "x-special/gnome-copied-files">>
MCNonData == {"", "TARGETS", "two words"}

Lists == INSTANCE ClipboardLists WITH
  TextMimes <- MCTextMimes, FileMimes <- MCFileMimes, NonData <- MCNonData,
  MaxEntries <- 3, MaxPath <- 6, MaxTotal <- 3, MaxSize <- 4

-------------------------------------------------------------------------------
(* MIME types.                                                                   *)
Names == {"text/plain", "STRING", "image/png", "text/html", "text/uri-list", "TARGETS", "two words"}
Offered == [name : Names, padded : BOOLEAN]
Offers == UNION {[1..n -> Offered] : n \in 0..3}

\* Whatever a side offers to its peer it can read when asked for it, unless its
\* own application pads the type (forwardable_mimes trims, resolve_mime does not).
ASSUME ForwardedCanBeRead ==
  \A o \in Offers :
    LET plain == SelectSeq(o, LAMBDA t : ~t.padded)
        forwarded == Lists!ForwardableMimes(o)
    IN \A i \in DOMAIN forwarded :
         \/ Lists!ResolveMime(forwarded[i], o) # Lists!None
         \/ forwarded[i] \notin {plain[k].name : k \in DOMAIN plain} /\ plain # o

\* An offer that comes back through the other side's proxy says the same of
\* data and of files, and names no type twice.
ASSUME OffersComeBack ==
  \A o \in Offers :
    LET sent == Lists!ForwardableMimes(o)
        shown == Lists!LocalMimesForOffer(sent, Lists!OffersFiles(o))
        seen == [i \in DOMAIN shown |-> Lists!Plain(shown[i])]
    IN /\ Lists!ForwardableMimes(seen) = sent
       /\ Lists!OffersFiles(seen) = Lists!OffersFiles(o)
       /\ IsInjective(shown)

-------------------------------------------------------------------------------
(* URI lists.                                                                    *)
\* Of a slash, a letter, a digit, a percent sign, a space, a newline and a hash.
Letters == {47, 97, 50, 37, 32, 10, 35}
Absolute(n) == {<<Lists!Slash>> \o p : p \in [1..n -> Letters]}
Copies == {<<p>> : p \in UNION {Absolute(n) : n \in 0..3}}
            \cup {<<p, q>> : p, q \in UNION {Absolute(n) : n \in 0..2}}

\* The list an application is given names the very files, if gliff (or another
\* that reads lists as gliff does) gets it back, whatever is in their names.
ASSUME ListsNameTheFiles ==
  \A paths \in Copies :
    /\ Lists!ParseUriList(Lists!UriList(paths)) = paths
    /\ Lists!ParseUriList(Lists!GnomeCopiedFiles(paths)) = paths

\* A URI of another host is no local file.
ASSUME OtherHostsAreSkipped ==
  \A host \in {<<>>, Lists!Localhost, <<97>>, <<97, 37>>}, path \in Absolute(1) :
    Lists!ParseUriList(Lists!Scheme \o host \o Lists!PercentEncodePath(path))
      = IF host \in {<<>>, Lists!Localhost} THEN <<path>> ELSE <<>>

-------------------------------------------------------------------------------
(* Files.                                                                        *)
Segments == {"a", "b", "", ".", ".."}
Paths == UNION {[1..n -> Segments] : n \in 1..2}
           \cup {<<"a", "b", "a">>, <<"a", "", "b">>, <<"a", ".", "b">>, <<"a", "nul", "b">>}
PeerFile == {f \in [path : Paths, size : {0, 1}, dir : BOOLEAN] : f.dir \/ f.size # 0}
PeerLists == UNION {[1..n -> PeerFile] : n \in 0..2}

\* Whatever list a peer sends, a paste of it stays under the spool's directory,
\* writes each entry once whatever its spelling, within the total; and the files
\* it hands out are all there.
ASSUME PastesStayInTheSpool ==
  \A files \in PeerLists :
    LET got == Lists!FetchFiles(files) IN
    got.ok =>
      /\ \A p \in DOMAIN got.tree : p # <<>> /\ \A i \in DOMAIN p : p[i] \in {"a", "b"}
      /\ MapThenSumSet(LAMBDA p : got.tree[p].size, DOMAIN got.tree) = Lists!Total(files)
      /\ \A i \in DOMAIN got.uris : got.uris[i] \in DOMAIN got.tree
      /\ IsInjective(got.uris)

\* Trees with links and sizes, of which two roots are copied.
Nodes == {<<"a">>, <<"b">>, <<"a", "a">>, <<"a", "b">>, <<"b", "a">>}
Kinds == {[kind |-> "file", size |-> 1, to |-> <<>>], [kind |-> "file", size |-> 3, to |-> <<>>],
          [kind |-> "dir", size |-> 0, to |-> <<>>], [kind |-> "link", size |-> 0, to |-> <<"b">>]}
Trees == {fs \in UNION {[present -> Kinds] : present \in SUBSET Nodes} :
            /\ \A n \in DOMAIN fs : Len(n) > 1 => Front(n) \in DOMAIN fs /\ fs[Front(n)].kind = "dir"
            /\ <<"b">> \in DOMAIN fs => fs[<<"b">>].kind # "link"}
Roots == UNION {[1..n -> Nodes \cup {<<>>}] : n \in 1..2}

\* A selection that is offered is taken by the peer, and pasted it is the tree
\* under each root, but for the links in it, with every root in the list the
\* application gets, in their order; otherwise nothing is offered.
Copied(fs, root) ==
  LET real == IF fs[root].kind = "link" THEN fs[root].to ELSE root IN
  {<<Last(root)>> \o SubSeq(n, Len(real) + 1, Len(n)) :
     n \in {m \in DOMAIN fs : /\ Len(m) >= Len(real) /\ SubSeq(m, 1, Len(real)) = real
                              /\ m = real \/ fs[m].kind # "link"}}
ASSUME PastesAreCopies ==
  \A fs \in Trees, roots \in Roots :
    LET listed == Lists!ListFiles(fs, roots)
        got == Lists!FetchFiles(listed.entries)
    IN listed.result = "ok" =>
         /\ got.ok
         /\ DOMAIN got.tree = UNION {Copied(fs, roots[i]) : i \in DOMAIN roots}
         /\ got.uris = [i \in DOMAIN roots |-> <<Last(roots[i])>>]
===============================================================================
