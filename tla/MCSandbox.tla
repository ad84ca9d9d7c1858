------------------------------ MODULE MCSandbox -------------------------------
EXTENDS Sandbox

MCSpecs ==
    [image : {TRUE}, net : {""}, pull : {"", "never", "always", "other"}]
        \cup {[image |-> FALSE, net |-> "", pull |-> ""],
              [image |-> TRUE, net |-> "host", pull |-> ""]}
===============================================================================
