---------------------------- MODULE MCChaosBoot ----------------------------
(***************************************************************************)
(* Three blocks, the last one short. The payload holds a '.', the byte the *)
(* host sends before it tries again, and an "OK".                          *)
(***************************************************************************)
EXTENDS ChaosBoot

const_Payload == <<46, 3, 79, 75, 46>>

\* The answer to a ping is in the RAM, where a left-over byte could be taken for one; and an
\* "OK" with a checksum behind it, where a shifted answer could be taken for a whole one.
const_OldRams == {<<201, 82, 203, 204, 205>>, <<79, 75, 4, 0, 79>>, <<0, 0, 79, 75, 0>>}

\* A byte may become any command of these tasks, another one, a part of an answer, or nothing special.
const_Noise == {65, 71, 72, 82, 87, 73, 46, 79, 75, 187, 170, 2}

const_Sessions ==
    {<<"ping", "speed", "write", "goto">>, <<"ping", "write", "read", "goto">>,
     <<"ping", "speed", "read">>}
=============================================================================
