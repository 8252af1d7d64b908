------------------------------- MODULE MCKlog -------------------------------
(* Instances of Klog for TLC: the BSP and two other CPUs, two levels.      *)
EXTENDS Klog

CONSTANTS cpu0, cpu1, cpu2, info, warn

MCCPUs == {cpu0, cpu1, cpu2}
TwoCPUs == {cpu0, cpu1}
MCLevels == {info, warn}
=============================================================================
