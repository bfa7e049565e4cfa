----------------------------- MODULE MCStartup ------------------------------
(***************************************************************************)
(* Small instance of Startup: every command line of up to three of the     *)
(* arguments that interact in the scan, the documented usage, and longer   *)
(* lines that bring options through -X, with and without other arguments,  *)
(* or attached to it.                                                      *)
(***************************************************************************)
EXTENDS Startup

Arguments == {"-X", "-X-b", "-b", "mybroker", "-V", "-M"}

ThroughX(opts) == [k \in 1..(2 * Len(opts)) |->
                     IF k % 2 = 1 THEN "-X" ELSE opts[k \div 2]]

Usage == {<<"-b", "mybroker", "-t", "mytopic">>,
          <<"-b", "mybroker", "-G", "mygroup", "topic1", "topic2">>,
          <<"-b", "mybroker", "-L">>,
          <<"-b", "mybroker", "-t", "mytopic", "-J">>}

Options == {<<"-b", "mybroker">>, <<"-F", "conf">>, <<"-U">>, <<"-h">>,
            <<"-e">>, <<"-M", "3">>, <<"-M", "many">>, <<"-P">>,
            <<"acks=0", "-h">>,
            <<"-b", "mybroker", "-F", "conf">>, <<"-b", "mybroker", "-F", "-">>,
            <<"-b", "mybroker", "-t", "mytopic">>,
            <<"-b", "mybroker", "-G", "mygroup">>,
            <<"-b", "mybroker", "-G", "mygroup", "-o", "e@5">>,
            <<"-b", "mybroker", "-G", "mygroup", "-f", "%y">>,
            <<"-b", "mybroker", "-G", "mygroup", "-K", "%y">>,
            <<"-b", "mybroker", "-t", "mytopic", "-J">>,
            <<"-b", "mybroker", "-t", "mytopic", "-f", "%y">>,
            <<"-b", "mybroker", "-t", "mytopic", "-J", "-K", "%y">>,
            <<"-b", "mybroker", "-t", "mytopic", "-K", "%y">>,
            <<"-b", "mybroker", "-t", "mytopic", "-s", "avro">>,
            <<"-s", "value", "-V">>}

Others == {<<>>, <<"-C">>, <<"-L">>, <<"-Q">>, <<"-Q", "t:0:5">>, <<"-P">>,
           <<"-M">>, <<"mytopic">>, <<"-e">>, <<"-C", "-Q", "-G", "mygroup">>}

Attached == {<<"-X-h">>, <<"-X-b", "-Xmybroker", "-C">>,
             <<"-X-b", "-X", "mybroker", "-L">>, <<"-Xmybroker", "-X-h">>,
             <<"-X", "-X-h">>}

MCXArg == [word \in {"-X", "-X-b", "-X-h", "-Xmybroker"} |->
             CASE word = "-X" -> "" [] word = "-X-b" -> "-b"
               [] word = "-X-h" -> "-h" [] OTHER -> "mybroker"]

MCCmdLines == UNION {[1..n -> Arguments] : n \in 0..3} \cup Usage \cup Attached
                \cup {ThroughX(o) \o r : o \in Options, r \in Others}

MCWords == {""} \cup UNION {Range(c) : c \in MCCmdLines}

MCFiles == {Unreadable, <<>>, <<"brokers", "blank", "topic">>,
            <<"brokers", "no =">>, <<"brokers", "broken", "global">>, <<"bad jaas", "global">>,
            <<"jaas", "empty registry", "brokers">>}

ReadmeCmdLines == Usage

NoFile == {<<>>}

=============================================================================
