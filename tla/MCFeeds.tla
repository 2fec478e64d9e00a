------------------------------- MODULE MCFeeds -------------------------------
EXTENDS Feeds

\* GeoConfirmed may list more sound placemarks than it draws.
MCUnsound == [b \in Observed |-> IF b = "geoconfirmed" THEN {} ELSE {2}]
=============================================================================
