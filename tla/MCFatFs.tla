------------------------------- MODULE MCFatFs -------------------------------
(***************************************************************************)
(* FatFs on every way a file can be laid out over three clusters, and for  *)
(* one of these on several root directories.  The root directory fills two *)
(* clusters without an end mark; the directory D is in clusters 7 and 8.   *)
(***************************************************************************)
EXTENDS FatFs

\* Characters: A, B, D, and a lower case x.
A == 65
B == 66
D == 68
x == 120

FileClusters == 3..5

Raw == Slot("raw", Stored(<<A>>), 0, 0)
File(name, cluster, size) == Slot("file", Stored(name), cluster, size)
Dir(name, cluster) == Slot("dir", Stored(name), cluster, 0)
Torn(bytes) == [File(<<A>>, 4, 1) EXCEPT !.name = bytes]
Dots(n, cluster) ==
    [Dir(<<A>>, cluster) EXCEPT !.name = Fixed(NameLen, [i \in 1..n |-> Dot])]
Gone(name) == [File(name, 3, 1) EXCEPT !.name[1] = Deleted]

\* Part seq of the long name of an entry.  Its first bytes are the number, 64
\* more in the part that comes first, and a character of two bytes; where other
\* entries have their size it has characters, too.
Part(seq, text, entry) ==
    [Slot("long", [name |-> <<seq, text[1], Nul>>, ext |-> Fixed(ExtLen, <<text[1]>>)], 0, x)
        EXCEPT !.chk = Checksum(entry), !.part = text]

\* The root directory of most images, for a file called A of the given size.
UsualRoot(size) ==
    <<Part(65, <<B, x>>, File(<<A>>, 3, size)), File(<<A>>, 3, size), Gone(<<A>>), Dir(<<D>>, 7)>>

\* A name of two parts; parts in a wrong order, of another file, without a
\* file; a file with an extension; an end mark; empty files without a cluster and
\* with one; damaged entries that lost their cluster; names with blanks, as "mkdir /" and "pack" accept them; names with
\* a Nul or a dot inside.
OtherRoots ==
    {<<Part(66, <<x>>, File(<<A>>, 3, 3)), Part(1, <<B, x>>, File(<<A>>, 3, 3)),
       File(<<A>>, 3, 3), Dir(<<D>>, 7)>>,
     <<Part(1, <<B, x>>, File(<<A>>, 3, 3)), Part(66, <<x>>, File(<<A>>, 3, 3)),
       File(<<A>>, 3, 3), Dir(<<D>>, 7)>>,
     <<Part(65, <<B, x>>, File(<<B>>, 3, 3)), File(<<A>>, 3, 3), Gone(<<B>>), Dir(<<D>>, 7)>>,
     <<File(<<A>>, 3, 3), Dir(<<D>>, 7), Gone(<<B>>), Part(65, <<x>>, File(<<A>>, 3, 3))>>,
     <<File(<<A, B, D, Dot, A, B>>, 4, 1), File(<<A, Dot, B>>, 3, 3), Dir(<<D>>, 7), Gone(<<A>>)>>,
     <<Dir(<<D>>, 7), File(<<A, B>>, 3, 3), EndSlot, File(<<A>>, 4, 1)>>,
     <<File(<<A>>, 0, 0), Dir(<<D>>, 7), Gone(<<A>>), EndSlot>>,
     <<File(<<A>>, 3, 0), Dir(<<D>>, 7), Gone(<<A>>), EndSlot>>,
     <<File(<<A>>, 0, 3), Dir(<<D>>, 0), Gone(<<A>>), EndSlot>>,
     <<Torn(<<A, Nul, B>>), File(<<A>>, 3, 3), Dir(<<D>>, 7), Gone(<<A>>)>>,
     <<Torn(<<A, Dot, B>>), File(<<A, Dot, B>>, 3, 3), Dir(<<D>>, 7), Gone(<<A>>)>>,
     <<File(<<Blank, A>>, 4, 1), File(<<A>>, 3, 3), Dir(<<D>>, 7), Gone(<<A>>)>>,
     <<File(<<A, Dot, Blank, B>>, 4, 1), File(<<A, Blank>>, 3, 3), Dir(<<D>>, 7), Gone(<<A>>)>>}

Links == {f \in [FileClusters -> FileClusters \cup {EOC}] :
            \A c \in FileClusters : f[c] # c /\ (f[c] # EOC => f[f[c]] # c)}

\* D has the entries for itself and for the root directory in front.
MakeImage(f, root) ==
    [fat |-> [c \in 0..8 |-> CASE c \in FileClusters -> Link(f[c])
                               [] c = 2 -> Link(6)
                               [] c = 7 -> Link(8)
                               [] OTHER -> Link(EOC)],
     slots |-> [c \in 2..8 |-> [u \in 0..1 |->
                    CASE c \in FileClusters -> Raw
                      [] c = 2 -> root[u + 1]
                      [] c = 6 -> root[u + 3]
                      [] c = 7 -> <<Dots(1, 7), Dots(2, 0)>>[u + 1]
                      [] c = 8 -> <<File(<<B>>, 5, 1), EndSlot>>[u + 1]]]]

PlainImages == UNION {{MakeImage(f, UsualRoot(size)) : f \in Links} : size \in {1, 3, 4, 6}}
LongEnough(im) == ImageOK(im) /\ im.slots[2][1].size <= 2 * Len(ChainOf(im, 3))
UsualImages == {im \in PlainImages : LongEnough(im)}

\* Some of them once more, from a writer that used the upper four bits of an
\* entry in the root directory or in the file.
UpperImages ==
    {[im EXCEPT !.fat[c].high = 1] : im \in {im \in UsualImages : im.slots[2][1].size = 4},
                                     c \in {2, 3, 4}}

MCImages ==
    UsualImages \cup UpperImages
    \cup {MakeImage([c \in FileClusters |-> IF c = 3 THEN 4 ELSE EOC], root) : root \in OtherRoots}

MCPaths == {<<<<A>>>>, <<<<D>>, <<B>>>>, <<<<D>>, <<A>>>>, <<<<A>>, <<B>>>>,
            <<<<A, B>>>>, <<<<A, Dot, B>>>>, <<<<A, B, D, Dot, A, B>>>>, <<<<A, B, D, A>>>>,
            <<<<A, Blank>>>>, <<<<D>>, <<Dot, Dot>>>>}
=============================================================================
