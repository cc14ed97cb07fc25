-------------------------------- MODULE MCHttp --------------------------------
(* Http with frames of every kind, some of them longer than the limit, and with *)
(* lines of two bytes, and of four, which is too long.                          *)
EXTENDS Http

MCFrames ==
    [size : {3, 6}, kind : {"fine"}]
        \cup [size : {3}, kind : {"refused", "unknown"}]
        \cup [size : {4}, kind : {"overlong"}]
MCRequestLines ==
    [size : {2, 4}, kind : {"line"}] \cup [size : {2}, kind : {"nowhere"}]
MCHeaders == [size : {2}, kind : {"keep", "length", "badfield"}]
=============================================================================
