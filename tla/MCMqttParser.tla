---- MODULE MCMqttParser ----
EXTENDS MqttParser

\* Topics that are short, as long as the buffer, too long for it, and on both
\* sides of what _bytePosition can count (4 with an identifier, 6 without), one
\* of them with a length of two digits; payloads that are empty or not, and
\* remaining lengths of one digit and of two.
MCPublishes ==
    { [type |-> "PUBLISH", qos |-> shape[1], topic |-> shape[2], payload |-> shape[3]] :
        shape \in {<<0, 1, 0>>, <<0, 3, 2>>, <<2, 1, 2>>, <<2, 3, 0>>, <<1, 4, 1>>, <<2, 5, 0>>,
                   <<0, 6, 1>>, <<0, 7, 0>>, <<0, 9, 0>>} }
====
