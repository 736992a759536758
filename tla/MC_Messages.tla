---------------------------- MODULE MC_Messages ----------------------------
(* Messages with bytes below 4, two to an integer, varints of base 2.      *)
EXTENDS Messages

\* Distinct tags; one may be a prefix of another, as lease of lease-decline.
MCTag ==
    [listing |-> <<0>>, heartbeat |-> <<0, 1>>, assignment |-> <<1>>,
     decline |-> <<1, 2>>, jobreport |-> <<2>>, fee |-> <<2, 3>>,
     lease |-> <<3>>, leaseDecline |-> <<3, 0>>, leaseRelease |-> <<3, 0, 1>>,
     proof |-> <<3, 1>>, nodeRotate |-> <<1, 0>>, nodeRevoke |-> <<1, 1>>,
     operator |-> <<2, 0>>, operatorRotate |-> <<2, 0, 3>>,
     operatorConformance |-> <<2, 0, 1>>]

MCCharacter == <<3, 2>>

\* The last one has two bytes that are in no character.
Strings == {<<>>, <<0>>, <<3, 2>>, <<2, 3, 1>>}

MCZero ==
    [string |-> <<>>, array |-> <<0, 0>>, bool |-> FALSE, int64 |-> 0,
     index |-> 0, uint64 |-> 0, time |-> 0, printers |-> <<>>, gpus |-> <<>>,
     args |-> <<>>]

\* Integers and instants to the ends of their ranges, instants beyond them;
\* strings long enough for a length of two bytes; lists of up to two.
MCValue ==
    [string   |-> Strings,
     array    |-> {<<0, 0>>, <<2, 3>>},
     bool     |-> BOOLEAN,
     int64    |-> {0, 1, 2, -1, MinInt, MinInt + 1, MaxInt, MaxInt - 1},
     index    |-> {0, 2, -1},
     uint64   |-> {0, 1, Modulus - 1},
     time     |-> {0, 1, MinInt, MaxInt, MaxInt + 1, MinInt - 1},
     printers |-> {<<>>, << <<<<0>>, <<>>>> >>, << <<<<>>, <<0>>>> >>,
                   << <<<<>>, <<>>>>, <<<<3, 1>>, <<0>>>> >>},
     gpus     |-> {<<>>, << <<<<0>>, <<>>, -1>> >>,
                   << <<<<>>, <<>>, 1>>, <<<<>>, <<0>>, 0>> >>},
     args     |-> {<<>>, << <<<<0>>>> >>, << <<<<>>>>, <<<<3, 1>>>> >>}]

=============================================================================
