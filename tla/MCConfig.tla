------------------------------ MODULE MCConfig ------------------------------
(* Values for the constants of Config.                                     *)
EXTENDS Config, SequencesExt

FieldOf(key, values) == [key : {key}, value : values]

FullScript == ScriptArgs \cup {"Name", "Capabilities"}

Storage  == FieldOf("Raw Storage", {"/data/rec/"})
Control  == FieldOf("Control IP", {"eth0", "10.0.0.1", "10.0.0.9"})
RTSP     == FieldOf("RTSP Address", {"eth1", "0.0.0.0", "eth7", "10..0.1"})
Hardware == FieldOf("Hardware Scripts",
              {<<>>, <<FullScript, FullScript>>, <<FullScript, {"Name"}>>,
               <<FullScript, {"unknown"}>>})
Rest     == FieldOf("number", {1}) \cup FieldOf("unknown", {1})

Pointers ==
  {<<s, c, r, h>> : s \in Storage, c \in Control, r \in RTSP, h \in Hardware}

\* The four pointers in any order or with one left out, and with another field
\* at the end.
Arranged(object) ==
  LET Orders == {<<i, j, k, l>> \in (1 .. 4) \X (1 .. 4) \X (1 .. 4) \X (1 .. 4) :
                   Cardinality({i, j, k, l}) = 4}
  IN {[n \in 1 .. 4 |-> object[o[n]]] : o \in Orders}
       \cup {RemoveAt(object, n) : n \in 1 .. 4}
       \cup {Append(object, f) : f \in Rest}

MCControls == {NULL} \cup UNION {Arranged(object) : object \in Pointers}

MCMetadata ==
  {NULL, <<[key |-> "Name", value |-> "config1"]>>,
   <<[key |-> "Location", value |-> "field"]>>,
   <<[key |-> "Location", value |-> "field"], [key |-> "unknown", value |-> 1]>>}

MCDocuments ==
  [readable : {TRUE}, control : MCControls, metadata : MCMetadata]
  \cup [readable : {FALSE}, control : {NULL}, metadata : {NULL}]

Interface_(name, addr, brd) == [name |-> name, addr |-> addr, brd |-> brd]

\* An interface with two addresses, one address on two interfaces, no eth1.
MCInterfaceLists ==
  {<<Interface_("lo", "127.0.0.1", "127.0.0.1"),
     Interface_("eth0", "10.0.0.1", "10.0.0.255"),
     Interface_("eth1", "10.0.1.1", "10.0.1.255"),
     Interface_("eth0", "10.0.0.2", "10.0.0.255")>>,
   <<Interface_("eth0", "10.0.0.1", "10.0.0.255"),
     Interface_("eth2", "10.0.0.1", "10.0.255.255")>>}

Quad(a, b, c, d) == a \o <<Dot>> \o b \o <<Dot>> \o c \o <<Dot>> \o d

\* How the strings of the files and of the interfaces are spelled.
MCSpelling ==
  "127.0.0.1" :> Quad(<<1, 2, 7>>, <<0>>, <<0>>, <<1>>)
  @@ "0.0.0.0" :> Quad(<<0>>, <<0>>, <<0>>, <<0>>)
  @@ "10.0.0.1" :> Quad(<<1, 0>>, <<0>>, <<0>>, <<1>>)
  @@ "10.0.0.2" :> Quad(<<1, 0>>, <<0>>, <<0>>, <<2>>)
  @@ "10.0.0.9" :> Quad(<<1, 0>>, <<0>>, <<0>>, <<9>>)
  @@ "10.0.0.255" :> Quad(<<1, 0>>, <<0>>, <<0>>, <<2, 5, 5>>)
  @@ "10.0.1.1" :> Quad(<<1, 0>>, <<0>>, <<1>>, <<1>>)
  @@ "10.0.1.255" :> Quad(<<1, 0>>, <<0>>, <<1>>, <<2, 5, 5>>)
  @@ "10.0.255.255" :> Quad(<<1, 0>>, <<0>>, <<2, 5, 5>>, <<2, 5, 5>>)
  @@ "10..0.1" :> Quad(<<1, 0>>, <<>>, <<0>>, <<1>>)
  @@ "lo" :> <<Other, Other>>
  @@ "eth0" :> <<Other, Other, Other, 0>> @@ "eth1" :> <<Other, Other, Other, 1>>
  @@ "eth2" :> <<Other, Other, Other, 2>> @@ "eth7" :> <<Other, Other, Other, 7>>

\* One to five segments with dots between them: empty, with leading zeros, at the
\* limit and above it, with more than three digits, with something else.
Segments ==
  {<<>>, <<0>>, <<2, 5, 5>>, <<2, 5, 6>>, <<0, 2, 5, 5>>, <<1, 0, 0, 0>>, <<1, Other>>}

MCTexts ==
  {FoldLeft(LAMBDA text, segment : text \o <<Dot>> \o segment, Head(parts), Tail(parts)) :
     parts \in UNION {[1 .. n -> Segments] : n \in 1 .. 5}}

MCFaults == {"getifaddrs", "getnameinfo", "gethostname"}
=============================================================================
