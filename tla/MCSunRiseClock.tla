--------------------------- MODULE MCSunRiseClock ---------------------------
(* A day of six seconds in two hours of three minutes; an alarm of two.     *)
EXTENDS SunRiseClock, TLC

MCInput ==
  [k \in Key |->
     CASE k = "brightness" -> {5}
       [] k \in {"pattern", "alarm_minute"} -> {1}
       [] k \in {"power", "autoplay", "alarm"} -> {0, 1}
       [] k = "display_clock" -> {1}
       [] k = "timezone" -> {-1, 2}
       [] k = "alarm_hour" -> {1, 2}
       [] k = "color" -> {0}
       [] k = "palette" -> {0}
       [] OTHER -> {7}]
=============================================================================
