----------------------------- MODULE MCStartup -----------------------------
(* Instances of Startup for TLC: every file of a few lines, alone, and     *)
(* files that meet in one name or one memory, in every order.              *)
EXTENDS LoaderProofs, TLC

(* Numbers that fit an immediate, and two of which it keeps the low bits.  *)
MCStoi ==
  "5" :> 5 @@ "9" :> 9 @@ "40" :> 40 @@ "-1" :> -1 @@ "7th" :> 7 @@
  "65541" :> 65541 @@ "-2000000000" :> -2000000000

long == "a_name_of_more_than_16"

MCTexts == DOMAIN MCStoi \cup {"x", "y", "v", "f", "g", "t0", "t1", "t2", "zero", "zz", long, NoText}

Lbl(n)    == Colon(n, <<NoText>>)
Var(n, t) == Colon(n, <<t>>)
Data == Section(FALSE)
TextS == Section(TRUE)

File(n, text) == [name |-> n, text |-> text]

(* Every body of four lines over this menu, behind some data.              *)
Menu == {Lbl("f"), Lbl("g"), Op("ADD", <<"t2", "t0", "t1">>), Op("LW", <<"t1", "x">>),
         Op("BLT", <<"t0", "t1", "f">>), Op("J", <<"g">>), Op("PRINT", <<"v">>)}

Header == <<Data, Var("x", "5"), Colon("v", <<"9", "-1">>), TextS>>

Bodies == {<<File("p", Header \o b)>> : b \in [1..4 -> Menu]}

(* The example of README.MD:272-285, which has no .text line.              *)
ReadmeExample ==
  File("w", <<Lbl("f"), Op("LI", <<"t0", "5">>), Op("LI", <<"t1", "9">>),
              Op("LI", <<"t2", "40">>), Op("J", <<"g">>), Lbl("g"),
              Op("PRINT", <<"t0">>), Op("ADD", <<"t0", "zero", "t1">>),
              Op("BLT", <<"t0", "t2", "g">>)>>)

(* A file whose variables are in those assembled before it, if anywhere.   *)
NoData ==
  File("r", <<Lbl("f"), Op("LI", <<"t0", "5">>), TextS, Lbl("x"), Op("LW", <<"t0", "x">>),
              Op("LI", <<"t0", "zz">>), Op("PRINT", <<"y">>)>>)

(* Files for one command line.                                             *)
Parts == {
  File("p", <<Data, Var("x", "9"), TextS, Lbl("f"), Op("LW", <<"t0", "x">>),
              Op("LI", <<"t1", "65541">>), Op("PRINT", <<"f">>), Op("J", <<"f">>)>>),
  File("q", <<Data, Var("y", "65541"), Var("x", "7th"), Var("x", "zz"), TextS,
              Op("SW", <<"t0", "y">>), Op("LW", <<"t0", "x">>), Op("LA", <<"t1", "v">>),
              Op("AND", <<"t0", "t1", "t2">>), Op("PRINT", <<"t0">>),
              Op("PRINT", <<"9">>)>>),
  File("p", <<Data, Colon("v", <<"-2000000000", "9", "zz", "5">>), Colon("y", <<"9", "5">>), TextS,
              Lbl("g"), Op("PRINT", <<"x">>), Op("LA", <<"t0", "v">>), Data, Var("x", "5"),
              TextS, Op("SW", <<"zz", "y">>), Op("BGTI", <<"t0", "zz", "g">>), Lbl("g"),
              Lbl("7th"), Op("J", <<"7th">>), Op("J", <<"g">>), Op("LI", <<"t2", "-1">>)>>),
  NoData,
  File("s", <<Data, Colon("x", <<"zz", "5">>), TextS, Op("LI", <<"t0", "9">>)>>),
  File("t", <<TextS, Lbl("f"), Lbl(long), Op("J", <<long>>)>>),
  File("u", <<Data, Var(long, "5"), TextS>>)}

Meetings == UNION {[1..n -> Parts] : n \in 1..3}

(* Its code alone, again and again, until it meets the end of the memory.  *)
Repeated == [i \in 1..8 |-> [NoData EXCEPT !.name = ToString(i)]]

MCCommandLines == Bodies \cup Meetings \cup {<<ReadmeExample>>, Repeated}

=============================================================================
