------------------------------ MODULE MCTelnet ------------------------------
(* Telnet connections on small instances: who is there and what is sent. *)
EXTENDS Telnet

Chars ==
  Options \cup Verbs \cup {"IAC", "SB", "SE", "NOP", "CR", "LF", "35", "5", "n"}
    \cup {"a", "b", "c", "d", "e", "x"}

Size80x24 == <<"n", "n", "n", "n">>
Size255x240 == <<"n", "IAC", "n", "SE">>

Ends(c, h) == [e \in {"c", "h"} |-> IF e = "c" THEN c ELSE h]

(* Two qodems; what one sends is what the other should read. *)
Hosted(console, full, hangs, size, c, h) ==
  [host |-> TRUE, console |-> console, full |-> full, hangs |-> hangs, size |-> size,
   resize |-> size = Size255x240, sends |-> Ends(c, h), text |-> Ends(FlattenSeq(h), FlattenSeq(c)), asks |-> {}]

Hosts ==
  { Hosted(TRUE, FALSE, {}, Size255x240, << <<"a", "CR">>, <<"IAC", "SE">> >>, << <<"CR", "LF", "b">> >>),
    Hosted(TRUE, FALSE, {"c", "h"}, Size80x24, <<>>, << <<"IAC", "b">> >>),
    Hosted(FALSE, FALSE, {}, Size80x24, << <<"IAC", "CR", "DO">> >>, << <<"CR", "0", "CR">> >>),
    Hosted(TRUE, TRUE, {}, Size80x24, <<>>, << <<"d", "IAC", "e">> >>),
    Hosted(TRUE, TRUE, {}, Size80x24, << <<"a", "b">> >>, <<>>),
    Hosted(FALSE, TRUE, {}, Size80x24, << <<"a", "CR", "LF", "b">>, <<"c">> >>, <<>>) }

(* A server, what its bytes mean, and what it is to be answered *)
Served(hangs, messages, text, asks) ==
  [host |-> FALSE, console |-> TRUE, full |-> FALSE, hangs |-> hangs, size |-> Size80x24,
   resize |-> TRUE, sends |-> Ends(<< <<"x">> >>, messages), text |-> Ends(text, <<>>), asks |-> asks]

Servers ==
  { Served({}, << Command("WONT", "0") \o Command("DONT", "0"),
                  <<"a", "CR", "LF", "b", "CR", "0", "c", "LF">> >>,
           <<"a", "CR", "LF", "b", "CR", "c", "LF">>, {}),
    Served({}, << Command("DO", "0") \o Command("WILL", "0"), <<"CR", "0", "IAC", "IAC", "DO">>,
                  Command("DONT", "31"), <<"IAC", "NOP", "a">> >>,
           <<"CR", "0", "IAC", "DO", "a">>, {Command("WILL", "0")}),
    Served({"h"}, << Command("DO", "24") \o Subneg("24", <<"1">>), <<"a">>, Command("DO", "32") \o Subneg("32", <<"1">>),
                  Command("DO", "39") \o Subneg("39", <<"1", "IAC", "IAC">>), <<"b">>, Command("DO", "35"),
                  Command("WILL", "5"), Command("DO", "31"), Command("WILL", "1"), Subneg("24", <<>>), <<"c">> >>,
           <<"a", "b", "c">>, {}),
    Served({}, << Command("DO", "24") \o Subneg("24", <<"1">>), <<"a">>, Command("DO", "32") \o Subneg("32", <<"1">>),
                  Command("DO", "39") \o Subneg("39", <<"1", "IAC", "IAC">>), <<"b">>, Command("DO", "35"),
                  Command("WILL", "5"), Command("DO", "31"), Command("WILL", "1"), Subneg("24", <<>>), <<"c">> >>,
           <<"a", "b", "c">>,
           {Subneg("24", <<"0">>), Subneg("32", <<"0">>), Subneg("39", <<"0">>), Command("WONT", "35"),
            Command("DONT", "5"), Subneg("31", Size80x24)}) }

AllTSetups == Hosts \cup Servers
=============================================================================
