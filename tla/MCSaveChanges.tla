---------------------------- MODULE MCSaveChanges ----------------------------
\* SaveChanges with three modules: mail depends on firewall and, when it is
\* regenerated, asks for webadmin to be saved after the others.
EXTENDS SaveChanges

CONSTANTS firewall, mail, ftp, webadmin

MCDepends == [m \in Module |-> IF m = mail THEN {firewall} ELSE {}]
MCPostSaves == [m \in Module |-> IF m = mail THEN {webadmin} \intersect Module ELSE {}]
=============================================================================
